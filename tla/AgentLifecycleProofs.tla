------------------------ MODULE AgentLifecycleProofs ------------------------
(***************************************************************************)
(* Proofs about AgentLifecycle, for any agents and any number of requests  *)
(* at a time.  That no container is orphaned, that peers list each other,  *)
(* that config files are current and that "running" is justified hold as   *)
(* long as requests that overlap are about different agents: the portal    *)
(* holds no lock from the read of a row to its write.                      *)
(***************************************************************************)
EXTENDS AgentLifecycle, FiniteSetTheorems, TLAPS

-----------------------------------------------------------------------------
(* What a worker holds at each step, whatever the others do.               *)

HasRow(w) ==
  \/ pc[w] \in {"exists", "clear", "create", "save cid", "start box", "restarting", "restart box",
                "recreating", "remove box", "forget", "discard", "save", "regen", "delete"}
  \/ pc[w] \in {"sync", "write peer"} /\ back[w] # "create"

Idle(w) ==
  /\ at[w] = NoAgent /\ back[w] = "none" /\ snap[w] = NoRow
  /\ adds[w] = {} /\ removes[w] = {}

Fit(w) ==
  /\ pc[w] = "idle" => Idle(w)
  /\ pc[w] # "idle" => at[w] \in Agents
  /\ HasRow(w) => snap[w] \in Rows
  /\ pc[w] \in {"clear", "create"} => snap[w].cid = 0
  /\ IF pc[w] = "write peer" THEN other[w] \in Agents /\ copy[w] \in Rows
                             ELSE other[w] = NoAgent /\ copy[w] = NoRow
  /\ pc[w] \in {"sync", "write peer"} => back[w] \in {"create", "peers", "delete"}

Typed == TypeOK /\ \A w \in Workers : Fit(w)

-----------------------------------------------------------------------------
(* Requests that keep out of each other's way.                             *)

Busy(w) == pc[w] # "idle"

(* The agents a worker's request is about: its own, the peers whose rows   *)
(* it still has to change, and all peers of an agent that it deletes.      *)
Reach(w) ==
  {at[w]} \cup adds[w] \cup removes[w] \cup (IF back[w] = "delete" THEN snap[w].peers ELSE {})

(* Requests, with what they leave in the background, overlap only if they  *)
(* are about different agents.                                             *)
Apart ==
  \A v, w \in Workers : v # w /\ Busy(v) /\ Busy(w) => Reach(v) \cap Reach(w) = {}

(* A container that exists is in its agent's row, or about to be, or was   *)
(* forgotten where the code does not look, or because an inspection failed.*)
Unowned(a) == box[a].there => leaked[a] \/ "inspect" \in DockerFails

Owned(a) ==
  \/ Unowned(a) \/ row[a].cid = box[a].id
  \/ \E w \in Workers : at[w] = a /\ pc[w] = "save cid" /\ snap[w].cid = box[a].id

(* The file is behind, or current, or about to be written.                 *)
Regenerating(w) ==
  back[w] = "peers" /\ pc[w] \in {"sync", "write peer", "regen"} /\ Due(snap[w])

Follows(a) ==
  \/ ~Exists(a) \/ behind[a] \/ file[a] = row[a].peers
  \/ \E w \in Workers : at[w] = a /\ Regenerating(w)

(* Where a lists b but b does not list a, somebody is about to see to it.  *)
Settling(w, a, b) ==
  \/ at[w] = a /\ pc[w] \in {"sync", "write peer"} /\ b \in adds[w]
  \/ at[w] = b /\ pc[w] \in {"sync", "write peer"} /\ a \in removes[w]
  \/ at[w] = a /\ back[w] = "delete"

Mutual(a, b) == b \in row[a].peers => a \in row[b].peers \/ \E w \in Workers : Settling(w, a, b)

PeersExist == \A a \in Agents : \A p \in row[a].peers : p # a /\ Exists(p)

World ==
  /\ \A a \in Agents : Owned(a) /\ Follows(a)
  /\ \A a, b \in Agents : Mutual(a, b)
  /\ PeersExist

(* What a worker knows of its agent and its peers, by step.                *)
SameRow(w) == Exists(at[w]) /\ snap[w] = row[at[w]]
SameButCid(w) ==
  /\ Exists(at[w])
  /\ row[at[w]] = [snap[w] EXCEPT !.cid = row[at[w]].cid]
Docker(w) == row[at[w]].type = "docker"

Starting(w) ==
  /\ pc[w] = "exists" => SameRow(w) /\ Docker(w)
  /\ pc[w] = "clear" => SameButCid(w) /\ Docker(w) /\ snap[w].cid = 0 /\ Unowned(at[w])
  /\ pc[w] = "create" => SameRow(w) /\ Docker(w)
  /\ pc[w] = "save cid" => SameButCid(w) /\ Docker(w) /\ row[at[w]].cid = 0
  /\ pc[w] = "start box" => SameRow(w) /\ Docker(w)
  /\ pc[w] = "restarting" => Exists(at[w]) /\ snap[w].cid = row[at[w]].cid
  /\ pc[w] = "restart box" => snap[w].cid = row[at[w]].cid
  /\ pc[w] = "running" /\ Docker(w) => box[at[w]].id = row[at[w]].cid /\ box[at[w]].up
  /\ pc[w] = "reread" => ~box[at[w]].there
  /\ pc[w] = "forget" => SameButCid(w) /\ snap[w].cid = 0 /\ ~box[at[w]].there

Editing(w) ==
  pc[w] \in {"discard", "save"} /\ back[w] # "delete" =>
    /\ Exists(at[w])
    /\ snap[w].status \in {row[at[w]].status, "stopped"}
    /\ at[w] \notin snap[w].peers
    /\ \A p \in snap[w].peers : Exists(p)
    /\ back[w] # "peers" => snap[w].peers = row[at[w]].peers
    /\ back[w] = "peers" => adds[w] = snap[w].peers \ row[at[w]].peers
    /\ back[w] = "peers" => removes[w] = row[at[w]].peers \ snap[w].peers
    /\ pc[w] = "save" => Unowned(at[w]) \/ snap[w].cid = box[at[w]].id

Syncing(w) ==
  /\ pc[w] \in {"sync", "write peer"} =>
       /\ Exists(at[w])
       /\ at[w] \notin adds[w] \cup removes[w]
       /\ adds[w] \subseteq row[at[w]].peers
       /\ back[w] = "delete" \/ removes[w] \cap row[at[w]].peers = {}
       /\ back[w] # "create" => snap[w] = row[at[w]]
  /\ pc[w] = "regen" => SameRow(w)
  /\ pc[w] = "write peer" =>
       /\ other[w] \in Pending(w)
       /\ Exists(other[w])
       /\ copy[w] = [row[other[w]] EXCEPT !.peers = Changed(w, other[w])]

Deleting(w) ==
  /\ back[w] = "delete" =>
       /\ pc[w] \in {"sync", "write peer", "discard", "delete"} /\ adds[w] = {}
       /\ Exists(at[w]) /\ snap[w].peers = row[at[w]].peers
       /\ \A b \in Agents : at[w] \in row[b].peers => b \in removes[w]
       /\ pc[w] \in {"discard", "delete"} => removes[w] = {}
  /\ pc[w] = "delete" => back[w] = "delete" /\ Unowned(at[w])

InTurn(w) == Starting(w) /\ Editing(w) /\ Syncing(w) /\ Deleting(w)

Serial == World /\ \A w \in Workers : InTurn(w)

-----------------------------------------------------------------------------
(* Rows, and the ids of new containers.                                    *)

LEMMA NoRowIsNoRow == NoRow \notin Rows
<1>1. NoRow.type = "none"
  BY DEF NoRow
<1> QED
  BY <1>1 DEF Rows, Types

LEMMA RowChanges ==
  ASSUME NEW r \in Rows
  PROVE  /\ r # NoRow
         /\ r.type \in Types /\ r.status \in Statuses /\ r.cid \in {0} \cup Ids
         /\ r.peers \in SUBSET Agents
         /\ \A s \in Statuses : [r EXCEPT !.status = s] \in Rows
         /\ \A i \in {0} \cup Ids : [r EXCEPT !.cid = i] \in Rows
         /\ \A q \in SUBSET Agents : [r EXCEPT !.peers = q] \in Rows
BY NoRowIsNoRow DEF Rows

LEMMA NoRowFields ==
  /\ NoRow.type = "none" /\ NoRow.status = "none" /\ NoRow.cid = 0 /\ NoRow.peers = {}
  /\ [NoRow EXCEPT !.cid = 0] = NoRow
BY DEF NoRow

LEMMA IdsAreNumbers == Cardinality(Workers) \in Nat /\ Ids \subseteq Nat \ {0} /\ 0 \notin Ids
<1>1. Cardinality(Workers) \in Nat
  BY AgentsAssumption, FS_CardinalityType
<1> QED
  BY <1>1 DEF Ids

LEMMA ImageBound ==
  ASSUME NEW S, IsFiniteSet(S), NEW f
  PROVE  LET T == {f[v] : v \in S} IN IsFiniteSet(T) /\ Cardinality(T) <= Cardinality(S)
<1> DEFINE T == {f[v] : v \in S}
           g == [v \in S |-> f[v]]
<1>1. g \in Surjection(S, T)
  BY DEF Surjection
<1> QED
  BY <1>1, FS_Surjection

(* A worker that creates a container has room for its id: every other one  *)
(* keeps at most two, its own copies have none and the row has one.        *)
LEMMA SomeIdIsNew ==
  ASSUME Typed, NEW w \in Workers, pc[w] = "create", NEW a \in Agents
  PROVE  \E i \in Ids : i # row[a].cid /\ \A v \in Workers : i \notin {snap[v].cid, copy[v].cid}
<1> DEFINE Others == Workers \ {w}
           N == Cardinality(Workers)
           cidOfSnap == [v \in Workers |-> snap[v].cid]
           cidOfCopy == [v \in Workers |-> copy[v].cid]
           Snaps == {cidOfSnap[v] : v \in Others}
           Copies == {cidOfCopy[v] : v \in Others}
           Both == Snaps \cup Copies
           Used == Both \cup {row[a].cid}
<1>1. N \in Nat /\ IsFiniteSet(Others) /\ Cardinality(Others) = N - 1
  BY AgentsAssumption, FS_CardinalityType, FS_RemoveElement
<1>2. /\ IsFiniteSet(Snaps) /\ Cardinality(Snaps) <= N - 1
      /\ IsFiniteSet(Copies) /\ Cardinality(Copies) <= N - 1
  <2> HIDE DEF Others, cidOfSnap, cidOfCopy
  <2> QED
    BY <1>1, ImageBound
<1>3. IsFiniteSet(Both) /\ Cardinality(Both) <= 2 * N - 2
  <2> HIDE DEF Snaps, Copies, N
  <2>1. /\ IsFiniteSet(Both)
        /\ Cardinality(Both) = Cardinality(Snaps) + Cardinality(Copies) - Cardinality(Snaps \cap Copies)
    BY <1>2, FS_Union
  <2>2. IsFiniteSet(Snaps \cap Copies)
    BY <1>2, FS_Subset, Snaps \cap Copies \in SUBSET Snaps
  <2>3. /\ Cardinality(Snaps) \in Nat /\ Cardinality(Copies) \in Nat
        /\ Cardinality(Snaps \cap Copies) \in Nat
    BY <1>2, <2>2, FS_CardinalityType
  <2> QED
    BY <1>1, <1>2, <2>1, <2>3
<1>4. IsFiniteSet(Used) /\ Cardinality(Used) <= 2 * N - 1
  <2> HIDE DEF Both, N
  <2>1. /\ IsFiniteSet(Used)
        /\ Cardinality(Used) = IF row[a].cid \in Both THEN Cardinality(Both) ELSE Cardinality(Both) + 1
    BY <1>3, FS_AddElement
  <2>2. Cardinality(Both) \in Nat
    BY <1>3, FS_CardinalityType
  <2> QED
    BY <1>1, <1>3, <2>1, <2>2
<1>5. Cardinality(Ids) = 2 * N
  <2>1. Cardinality(Others) \in Nat
    BY <1>1, FS_CardinalityType
  <2>2. N \in Nat /\ N >= 1
    BY <1>1, <2>1
  <2>3. \A b \in Int : Cardinality(1 .. b) = IF 1 > b THEN 0 ELSE b - 1 + 1
    BY FS_Interval
  <2> HIDE DEF N
  <2>4. Cardinality(1 .. 2 * N) = 2 * N
    BY <2>2, <2>3
  <2> QED
    BY <2>4 DEF Ids, N
<1>6. PICK i \in Ids : i \notin Used
  <2>1. SUFFICES ASSUME Ids \in SUBSET Used PROVE FALSE
    OBVIOUS
  <2>2. Cardinality(Ids) <= Cardinality(Used)
    BY <1>4, <2>1, FS_Subset
  <2>3. Cardinality(Used) \in Nat
    BY <1>4, FS_CardinalityType
  <2> HIDE DEF N, Used
  <2> QED
    BY <1>1, <1>4, <1>5, <2>2, <2>3
<1>7. \A v \in Others : i # snap[v].cid /\ i # copy[v].cid
  BY <1>6
<1>8. snap[w].cid = 0 /\ copy[w].cid = 0
  BY NoRowFields DEF Typed, Fit
<1>9. i # 0
  BY IdsAreNumbers
<1> QED
  BY <1>6, <1>7, <1>8, <1>9

LEMMA NewIdIsNew ==
  ASSUME Typed, NEW w \in Workers, pc[w] = "create", NEW a \in Agents
  PROVE  NewId(a) \in Ids /\ NewId(a) # 0
<1>1. NewId(a) \in Ids
  BY SomeIdIsNew DEF NewId
<1> QED
  BY <1>1, IdsAreNumbers

-----------------------------------------------------------------------------
(* Types and what the workers hold.                                        *)

LEMMA TypedInit == Init => Typed
BY DEF Init, Typed, TypeOK, Fit, Idle, HasRow, Steps, Jobs, Boxes

(* A step of one worker leaves what the others hold.                       *)
Untouched(v) ==
  /\ pc'[v] = pc[v] /\ at'[v] = at[v] /\ snap'[v] = snap[v] /\ back'[v] = back[v]
  /\ adds'[v] = adds[v] /\ removes'[v] = removes[v] /\ other'[v] = other[v] /\ copy'[v] = copy[v]

LEMMA FitUntouched ==
  ASSUME NEW v \in Workers, Fit(v), Untouched(v)
  PROVE  Fit(v)'
BY DEF Fit, Untouched, Idle, HasRow

(* The types in two parts: the world, and the workers.                     *)
WorldTypes ==
  /\ row \in [Agents -> Rows \cup {NoRow}]
  /\ box \in [Agents -> Boxes]
  /\ file \in [Agents -> SUBSET Agents]
  /\ behind \in [Agents -> BOOLEAN]
  /\ leaked \in [Agents -> BOOLEAN]

WorkerTypes ==
  /\ pc \in [Workers -> Steps]
  /\ at \in [Workers -> Agents \cup {NoAgent}]
  /\ snap \in [Workers -> Rows \cup {NoRow}]
  /\ back \in [Workers -> Jobs]
  /\ adds \in [Workers -> SUBSET Agents]
  /\ removes \in [Workers -> SUBSET Agents]
  /\ other \in [Workers -> Agents \cup {NoAgent}]
  /\ copy \in [Workers -> Rows \cup {NoRow}]

LEMMA TypedParts == Typed <=> WorldTypes /\ WorkerTypes /\ \A w \in Workers : Fit(w)
BY DEF Typed, TypeOK, WorldTypes, WorkerTypes

LEMMA TypedPartsNext == Typed' <=> WorldTypes' /\ WorkerTypes' /\ \A w \in Workers : Fit(w)'
BY DEF Typed, TypeOK, WorldTypes, WorkerTypes

(* What the helpers of the actions do to the types.                        *)
LEMMA TypedUpdate ==
  ASSUME WorldTypes, NEW a \in Agents, NEW r \in Rows \cup {NoRow}, Update(a, r)
  PROVE  row' \in [Agents -> Rows \cup {NoRow}]
BY DEF WorldTypes, Update

LEMMA TypedUpdateStatus ==
  ASSUME WorldTypes, NEW a \in Agents, NEW s \in Statuses, UpdateStatus(a, s)
  PROVE  row' \in [Agents -> Rows \cup {NoRow}]
<1>1. Exists(a) => [row[a] EXCEPT !.status = s] \in Rows
  BY RowChanges DEF WorldTypes, Exists
<1> QED
  BY <1>1 DEF WorldTypes, UpdateStatus

LEMMA ListedAreAgents ==
  ASSUME NEW r \in Rows \cup {NoRow}
  PROVE  Listed(r) \in SUBSET Agents
BY RowChanges, NoRowFields DEF Listed

LEMMA TypedWriteFile ==
  ASSUME WorldTypes, NEW a \in Agents, NEW r \in Rows \cup {NoRow}, WriteFile(a, r)
  PROVE  file' \in [Agents -> SUBSET Agents] /\ behind' \in [Agents -> BOOLEAN]
BY ListedAreAgents DEF WorldTypes, WriteFile

LEMMA TypedFinish ==
  ASSUME WorkerTypes, NEW w \in Workers, Finish(w)
  PROVE  WorkerTypes' /\ Fit(w)' /\ \A v \in Workers \ {w} : Untouched(v)
<1>1. WorkerTypes'
  BY DEF WorkerTypes, Finish, Go, Steps, Jobs
<1>2. Fit(w)'
  BY DEF WorkerTypes, Finish, Go, Fit, Idle, HasRow
<1>3. \A v \in Workers \ {w} : Untouched(v)
  BY DEF WorkerTypes, Finish, Go, Untouched
<1> QED
  BY <1>1, <1>2, <1>3

(* A step that changes only where the worker is and its copy of the row.   *)
LEMMA TypedMove ==
  ASSUME WorkerTypes, NEW w \in Workers, NEW there \in Steps, Go(w, there),
         UNCHANGED jobVars, UNCHANGED syncVars, Fit(w), pc[w] \notin {"idle", "write peer"},
         there \notin {"idle", "sync", "write peer"},
         NEW r \in Rows \cup {NoRow}, snap' = [snap EXCEPT ![w] = r],
         HasRow(w)' => r \in Rows, there \in {"clear", "create"} => r.cid = 0
  PROVE  WorkerTypes' /\ Fit(w)' /\ \A v \in Workers \ {w} : Untouched(v)
<1>1. WorkerTypes'
  BY DEF WorkerTypes, Go, jobVars, syncVars
<1>2. Fit(w)'
  BY DEF WorkerTypes, Go, jobVars, syncVars, Fit
<1>3. \A v \in Workers \ {w} : Untouched(v)
  BY DEF WorkerTypes, Go, jobVars, syncVars, Untouched
<1> QED
  BY <1>1, <1>2, <1>3

LEMMA TypedGo ==
  ASSUME WorkerTypes, NEW w \in Workers, NEW there \in Steps, Go(w, there),
         UNCHANGED jobVars, UNCHANGED syncVars, UNCHANGED snap, Fit(w),
         pc[w] \notin {"idle", "write peer"}, there \notin {"idle", "sync", "write peer"},
         HasRow(w)' => HasRow(w), there \in {"clear", "create"} => snap[w].cid = 0
  PROVE  WorkerTypes' /\ Fit(w)' /\ \A v \in Workers \ {w} : Untouched(v)
<1>1. snap[w] \in Rows \cup {NoRow} /\ snap' = [snap EXCEPT ![w] = snap[w]]
  BY DEF WorkerTypes
<1>2. HasRow(w)' => snap[w] \in Rows
  BY DEF Fit
<1> QED
  BY <1>1, <1>2, TypedMove

LEMMA TypedFrom ==
  ASSUME Typed, NEW w \in Workers,
         WorldTypes', WorkerTypes', Fit(w)', \A v \in Workers \ {w} : Untouched(v)
  PROVE  Typed'
<1>1. \A v \in Workers \ {w} : Fit(v)'
  BY TypedParts, FitUntouched
<1> QED
  BY <1>1, TypedPartsNext

LEMMA TypedStartFails ==
  ASSUME Typed, NEW w \in Workers, pc[w] \notin {"idle", "write peer"}, StartFails(w), WorldTypes'
  PROVE  Typed'
<1>1. WorkerTypes /\ Fit(w)
  BY TypedParts
<1>2. CASE back[w] = "recreate"
  <2>1. "stopped" \in Steps /\ Go(w, "stopped") /\ (UNCHANGED <<jobVars, snap, syncVars>>)
    BY <1>2 DEF StartFails, Steps
  <2>2. ~HasRow(w)'
    BY <1>1, <2>1 DEF HasRow, Go, WorkerTypes
  <2> QED
    BY <1>1, <2>1, <2>2, TypedGo, TypedFrom
<1>3. CASE back[w] # "recreate"
  BY <1>1, <1>3, TypedFinish, TypedFrom DEF StartFails
<1> QED
  BY <1>2, <1>3

(* Steps that leave the world as it is.                                    *)
LEMMA TypedUnchangedWorld ==
  ASSUME WorldTypes, UNCHANGED worldVars
  PROVE  WorldTypes'
BY DEF WorldTypes, worldVars

LEMMA TypedReadForStart ==
  ASSUME Typed, NEW w \in Workers, ReadForStart(w)
  PROVE  Typed'
<1> DEFINE r == row[at[w]]
           there == AfterReadForStart(r)
<1>1. WorldTypes /\ WorkerTypes /\ Fit(w)
  BY TypedParts
<1>2. r \in Rows
  BY <1>1 DEF ReadForStart, Exists, WorldTypes, Fit
<1>3. r.type \in Types
  BY <1>2, RowChanges
<1>4. there \in {"running", "exists", "create"} /\ (there = "create" => r.cid = 0)
  BY <1>3 DEF AfterReadForStart, Types
<1>5. there \in Steps /\ there \notin {"idle", "sync", "write peer"}
  BY <1>4 DEF Steps
<1>6. /\ Go(w, there) /\ snap' = [snap EXCEPT ![w] = r] /\ pc[w] = "start"
      /\ UNCHANGED worldVars /\ UNCHANGED jobVars /\ UNCHANGED syncVars
  BY DEF ReadForStart, At, Read
<1> HIDE DEF r, there
<1>7. WorkerTypes' /\ Fit(w)' /\ \A v \in Workers \ {w} : Untouched(v)
  BY <1>1, <1>2, <1>4, <1>5, <1>6, TypedMove
<1> QED
  BY <1>1, <1>6, <1>7, TypedUnchangedWorld, TypedFrom

LEMMA TypedContainer ==
  ASSUME Typed, NEW w \in Workers,
         NothingToStart(w) \/ ContainerExists(w) \/ ContainerGone(w) \/ StartContainerFails(w)
  PROVE  Typed'
<1>1. WorldTypes /\ WorkerTypes /\ Fit(w)
  BY TypedParts
<1>2. WorldTypes'
  BY <1>1, TypedUnchangedWorld
  DEF NothingToStart, ContainerExists, ContainerGone, StartContainerFails
<1>3. CASE NothingToStart(w) \/ StartContainerFails(w)
  BY <1>2, <1>3, TypedStartFails DEF NothingToStart, StartContainerFails
<1>4. CASE ContainerExists(w)
  <2>1. HasRow(w) /\ "start box" \in Steps
    BY <1>4 DEF ContainerExists, At, HasRow, Steps
  <2> QED
    BY <1>1, <1>2, <1>4, <2>1, TypedGo, TypedFrom DEF ContainerExists, At
<1>5. CASE ContainerGone(w)
  <2> DEFINE r == [snap[w] EXCEPT !.cid = 0]
  <2>1. HasRow(w) /\ "clear" \in Steps
    BY <1>5 DEF ContainerGone, At, HasRow, Steps
  <2>2. r \in Rows /\ r.cid = 0
    BY <1>1, <2>1, RowChanges DEF Fit, Rows
  <2>3. snap' = [snap EXCEPT ![w] = r]
    BY <1>5 DEF ContainerGone
  <2> HIDE DEF r
  <2> QED
    BY <1>1, <1>2, <1>5, <2>1, <2>2, <2>3, TypedMove, TypedFrom DEF ContainerGone, At
<1> QED
  BY <1>3, <1>4, <1>5

(* Steps that write the row back or its status.                            *)
LEMMA TypedWriteRow ==
  ASSUME Typed, NEW w \in Workers, ClearCid(w) \/ SaveCid(w) \/ ForgetContainer(w)
  PROVE  Typed'
<1>1. WorldTypes /\ WorkerTypes /\ Fit(w)
  BY TypedParts
<1>2. HasRow(w) /\ at[w] \in Agents /\ pc[w] \notin {"idle", "write peer"}
  BY <1>1 DEF ClearCid, SaveCid, ForgetContainer, At, HasRow, Fit
<1>3. WorldTypes'
  <2>1. Update(at[w], snap[w])
    BY DEF ClearCid, SaveCid, ForgetContainer
  <2>2. row' \in [Agents -> Rows \cup {NoRow}]
    BY <1>1, <1>2, <2>1, TypedUpdate DEF WorkerTypes
  <2> QED
    BY <1>1, <2>2 DEF ClearCid, SaveCid, ForgetContainer, WorldTypes
<1>4. PICK there \in {"create", "start box", "start"} :
        /\ Go(w, there) /\ UNCHANGED jobVars /\ UNCHANGED syncVars /\ UNCHANGED snap
        /\ there = "create" => pc[w] = "clear"
  BY DEF ClearCid, SaveCid, ForgetContainer, At
<1>5. there \in Steps /\ there \notin {"idle", "sync", "write peer"}
  BY DEF Steps
<1>6. there = "create" => snap[w].cid = 0
  BY <1>1, <1>4 DEF Fit
<1> QED
  BY <1>1, <1>2, <1>3, <1>4, <1>5, <1>6, TypedGo, TypedFrom

LEMMA TypedSay ==
  ASSUME Typed, NEW w \in Workers,
         SayRunning(w) \/ SayStopped(w) \/ SayRestarting(w) \/ SayRecreating(w)
  PROVE  Typed'
<1>1. WorldTypes /\ WorkerTypes /\ Fit(w)
  BY TypedParts
<1>2. at[w] \in Agents /\ pc[w] \notin {"idle", "write peer"}
  BY <1>1 DEF SayRunning, SayStopped, SayRestarting, SayRecreating, At, Fit
<1>3. WorldTypes'
  <2>1. PICK s \in Statuses : UpdateStatus(at[w], s)
    BY DEF SayRunning, SayStopped, SayRestarting, SayRecreating, Statuses
  <2>2. row' \in [Agents -> Rows \cup {NoRow}]
    BY <1>1, <1>2, <2>1, TypedUpdateStatus
  <2> QED
    BY <1>1, <2>2 DEF SayRunning, SayStopped, SayRestarting, SayRecreating, WorldTypes
<1>4. CASE SayRunning(w) \/ SayStopped(w)
  BY <1>1, <1>3, <1>4, TypedFinish, TypedFrom DEF SayRunning, SayStopped
<1>5. CASE SayRestarting(w) \/ SayRecreating(w)
  <2>1. PICK there \in {"restart box", "remove box"} :
          Go(w, there) /\ UNCHANGED jobVars /\ UNCHANGED syncVars /\ UNCHANGED snap
    BY <1>5 DEF SayRestarting, SayRecreating, At
  <2>2. HasRow(w)
    BY <1>5 DEF SayRestarting, SayRecreating, At, HasRow
  <2>3. there \in Steps /\ there \notin {"idle", "sync", "write peer", "create"}
    BY DEF Steps
  <2> QED
    BY <1>1, <1>2, <1>3, <2>1, <2>2, <2>3, TypedGo, TypedFrom
<1> QED
  BY <1>4, <1>5

(* Steps that change the container.                                        *)
LEMMA TypedCreateContainer ==
  ASSUME Typed, NEW w \in Workers, CreateContainer(w)
  PROVE  Typed'
<1> DEFINE a == at[w]
           id == NewId(a)
           r == [snap[w] EXCEPT !.cid = id]
<1>1. WorldTypes /\ WorkerTypes /\ Fit(w)
  BY TypedParts
<1>2. a \in Agents /\ pc[w] = "create" /\ snap[w] \in Rows
  BY <1>1 DEF CreateContainer, At, Fit, HasRow
<1>3. id \in Ids
  BY <1>2, NewIdIsNew
<1>4. r \in Rows
  BY <1>2, <1>3, RowChanges
<1>5. box' = [box EXCEPT ![a] = [id |-> id, up |-> FALSE, there |-> TRUE]] /\ UNCHANGED <<row, leaked>>
  BY DEF CreateContainer
<1>6. file' \in [Agents -> SUBSET Agents] /\ behind' \in [Agents -> BOOLEAN]
  BY <1>1, <1>2, TypedWriteFile DEF CreateContainer
<1>7. /\ Go(w, "save cid") /\ UNCHANGED jobVars /\ UNCHANGED syncVars
      /\ snap' = [snap EXCEPT ![w] = r] /\ "save cid" \in Steps
  BY DEF CreateContainer, At, Steps
<1> HIDE DEF a, id, r
<1>8. WorldTypes'
  BY <1>1, <1>2, <1>3, <1>5, <1>6 DEF WorldTypes, Boxes
<1> QED
  BY <1>1, <1>2, <1>4, <1>7, <1>8, TypedMove, TypedFrom

LEMMA TypedCreateFails ==
  ASSUME Typed, NEW w \in Workers, CreateFails(w)
  PROVE  Typed'
<1>1. WorldTypes /\ WorkerTypes /\ Fit(w)
  BY TypedParts
<1>2. at[w] \in Agents /\ snap[w] \in Rows /\ pc[w] = "create"
  BY <1>1 DEF CreateFails, Fit, HasRow
<1>3. file' \in [Agents -> SUBSET Agents] /\ behind' \in [Agents -> BOOLEAN]
  BY <1>1, <1>2, TypedWriteFile DEF CreateFails, WorldTypes
<1>4. WorldTypes'
  BY <1>1, <1>3 DEF CreateFails, WorldTypes
<1> QED
  BY <1>2, <1>4, TypedStartFails DEF CreateFails

LEMMA BoxChanges ==
  ASSUME WorldTypes, NEW a \in Agents, box[a].there, NEW b \in BOOLEAN
  PROVE  /\ [box[a] EXCEPT !.up = b] \in Boxes
         /\ [box[a] EXCEPT !.there = b] \in Boxes
         /\ NoBox \in Boxes
BY DEF WorldTypes, Boxes, NoBox

LEMMA TypedBox ==
  ASSUME Typed, NEW w \in Workers,
         \/ StartContainer(w) \/ StopContainer(w) \/ RestartContainer(w) \/ RestartFails(w)
         \/ RemoveContainer(w) \/ RemoveFails(w)
  PROVE  Typed'
<1>1. WorldTypes /\ WorkerTypes /\ Fit(w)
  BY TypedParts
<1>2. at[w] \in Agents /\ pc[w] \notin {"idle", "write peer"}
  BY <1>1 DEF StartContainer, StopContainer, RestartContainer, RestartFails, RemoveContainer,
              RemoveFails, At, Fit
<1>3. \/ box' = box
      \/ /\ HasBox(at[w], snap[w].cid)
         /\ \/ box' = [box EXCEPT ![at[w]] = NoBox]
            \/ \E b \in BOOLEAN : box' = [box EXCEPT ![at[w]].up = b]
  BY DEF StartContainer, StopContainer, RestartContainer, RestartFails, RemoveContainer, RemoveFails,
         worldVars
<1>4. box' \in [Agents -> Boxes]
  <2>1. CASE box' = box
    BY <1>1, <2>1 DEF WorldTypes
  <2>2. CASE box' = [box EXCEPT ![at[w]] = NoBox]
    BY <1>1, <1>2, <2>2 DEF WorldTypes, Boxes
  <2>3. ASSUME HasBox(at[w], snap[w].cid), NEW b \in BOOLEAN, box' = [box EXCEPT ![at[w]].up = b]
        PROVE  box' \in [Agents -> Boxes]
    <3>1. [box[at[w]] EXCEPT !.up = b] \in Boxes
      BY <1>1, <1>2, <2>3, BoxChanges DEF HasBox
    <3> QED
      BY <1>1, <1>2, <2>3, <3>1 DEF WorldTypes
  <2> QED
    BY <1>3, <2>1, <2>2, <2>3
<1>5. UNCHANGED <<row, file, behind, leaked, snap>> /\ UNCHANGED syncVars
  BY DEF StartContainer, StopContainer, RestartContainer, RestartFails, RemoveContainer, RemoveFails,
         worldVars
<1>6. PICK there \in {"running", "stopped", "reread"} : Go(w, there) /\ UNCHANGED jobVars
  BY DEF StartContainer, StopContainer, RestartContainer, RestartFails, RemoveContainer, RemoveFails, At
<1>7. ~HasRow(w)' /\ there \in Steps
  BY <1>1, <1>6 DEF HasRow, Steps, Go, WorkerTypes
<1>8. WorldTypes'
  BY <1>1, <1>4, <1>5 DEF WorldTypes
<1> QED
  BY <1>1, <1>2, <1>5, <1>6, <1>7, <1>8, TypedGo, TypedFrom

LEMMA TypedReads ==
  ASSUME Typed, NEW w \in Workers, ReadForStop(w) \/ ReadForRecreate(w)
  PROVE  Typed'
<1> DEFINE r == row[at[w]]
           s == [r EXCEPT !.cid = 0]
<1>1. WorldTypes /\ WorkerTypes /\ Fit(w)
  BY TypedParts
<1>2. at[w] \in Agents /\ pc[w] \in {"stop", "reread"}
  BY <1>1 DEF ReadForStop, ReadForRecreate, At, Fit
<1>3. r \in Rows \cup {NoRow} /\ s \in Rows \cup {NoRow} /\ (Exists(at[w]) => s \in Rows)
  BY <1>1, <1>2, RowChanges, NoRowFields DEF WorldTypes, Exists
<1>4. WorldTypes'
  BY <1>1, TypedUnchangedWorld DEF ReadForStop, ReadForRecreate
<1>5. CASE ReadForStop(w) /\ r.type = "native"
  BY <1>1, <1>4, <1>5, TypedFinish, TypedFrom DEF ReadForStop
<1>6. CASE ReadForStop(w) /\ r.type # "native"
  <2>1. PICK there \in {"stop box", "stopped"} :
          /\ Go(w, there) /\ UNCHANGED jobVars /\ UNCHANGED syncVars
          /\ snap' = [snap EXCEPT ![w] = r]
    BY <1>6 DEF ReadForStop, At, Read
  <2>2. ~HasRow(w)' /\ there \in Steps
    BY <1>1, <2>1 DEF HasRow, Steps, Go, WorkerTypes
  <2> HIDE DEF r
  <2> QED
    BY <1>1, <1>2, <1>3, <1>4, <2>1, <2>2, TypedMove, TypedFrom
<1>7. CASE ReadForRecreate(w)
  <2>1. PICK there \in {"forget", "stopped"} :
          /\ Go(w, there) /\ UNCHANGED jobVars /\ UNCHANGED syncVars
          /\ snap' = [snap EXCEPT ![w] = s] /\ (there = "forget" => Exists(at[w]))
    BY <1>7 DEF ReadForRecreate, At
  <2>2. HasRow(w)' => s \in Rows
    BY <1>1, <1>3, <2>1 DEF HasRow, Go, WorkerTypes
  <2>3. there \in Steps
    BY DEF Steps
  <2> HIDE DEF s
  <2> QED
    BY <1>1, <1>2, <1>3, <1>4, <2>1, <2>2, <2>3, TypedMove, TypedFrom
<1> QED
  BY <1>5, <1>6, <1>7

(* Requests: each begins at its step, and most with a copy of the row.     *)
LEMMA TypedBegin ==
  ASSUME Typed, NEW w \in Workers, NEW a \in Agents, NEW job \in Jobs, NEW there \in Steps,
         Begin(w, a, job, there), there \notin {"idle", "clear", "create", "write peer"},
         there = "sync" => job \in {"create", "delete"},
         NEW r \in Rows \cup {NoRow}, snap' = [snap EXCEPT ![w] = r],
         r \in Rows \/ there \in {"start", "stop"} \/ job = "create",
         NEW ins \in SUBSET Agents, NEW outs \in SUBSET Agents,
         adds' = [adds EXCEPT ![w] = ins], removes' = [removes EXCEPT ![w] = outs],
         UNCHANGED <<other, copy>>, job = "create" => there = "sync",
         WorldTypes'
  PROVE  Typed'
<1>1. WorkerTypes /\ Fit(w)
  BY TypedParts
<1>2. WorkerTypes'
  BY <1>1 DEF WorkerTypes, Begin, Go
<1>3. Fit(w)'
  BY <1>1 DEF WorkerTypes, Begin, Go, Fit, HasRow
<1>4. \A v \in Workers \ {w} : Untouched(v)
  BY <1>1 DEF WorkerTypes, Begin, Go, Untouched
<1> QED
  BY <1>2, <1>3, <1>4, TypedFrom

LEMMA TypedCreateAgent ==
  ASSUME Typed, NEW w \in Workers, NEW a \in Agents, NEW type \in Types, NEW peers \in SUBSET Agents,
         CreateAgent(w, a, type, peers)
  PROVE  Typed'
<1> DEFINE r == [type |-> type, cid |-> 0, peers |-> peers, status |-> InitialStatus(type)]
<1>1. WorldTypes /\ WorkerTypes /\ Fit(w)
  BY TypedParts
<1>2. r \in Rows
  BY DEF Rows, InitialStatus, Statuses
<1>3. row' = [row EXCEPT ![a] = r] /\ behind' = [behind EXCEPT ![a] = TRUE]
  BY DEF CreateAgent
<1> HIDE DEF r
<1>4. WorldTypes'
  BY <1>1, <1>2, <1>3 DEF CreateAgent, WorldTypes
<1>5. "create" \in Jobs /\ "sync" \in Steps /\ snap[w] \in Rows \cup {NoRow} /\ {} \in SUBSET Agents
  BY <1>1 DEF Jobs, Steps, WorkerTypes
<1>6. Idle(w)
  BY <1>1 DEF CreateAgent, Begin, Fit
<1>7. /\ snap' = [snap EXCEPT ![w] = snap[w]] /\ adds' = [adds EXCEPT ![w] = peers]
      /\ removes' = [removes EXCEPT ![w] = {}] /\ UNCHANGED <<other, copy>>
  BY <1>1, <1>6 DEF CreateAgent, WorkerTypes, Idle
<1> QED
  BY <1>4, <1>5, <1>7, TypedBegin DEF CreateAgent

LEMMA TypedRequest ==
  ASSUME Typed, NEW w \in Workers, NEW a \in Agents,
         \/ StartAgent(w, a) \/ StopAgent(w, a) \/ RestartAgent(w, a) \/ RecreateAgent(w, a)
         \/ SyncPeers(w, a)
  PROVE  Typed'
<1>1. WorldTypes /\ WorkerTypes /\ Fit(w)
  BY TypedParts
<1>2. WorldTypes'
  BY <1>1, TypedUnchangedWorld DEF StartAgent, StopAgent, RestartAgent, RecreateAgent, SyncPeers
<1>3. snap[w] \in Rows \cup {NoRow} /\ adds[w] \in SUBSET Agents /\ removes[w] \in SUBSET Agents
  BY <1>1 DEF WorkerTypes
<1>4. /\ adds' = [adds EXCEPT ![w] = adds[w]] /\ removes' = [removes EXCEPT ![w] = removes[w]]
      /\ UNCHANGED <<other, copy>>
  BY <1>1 DEF StartAgent, StopAgent, RestartAgent, RecreateAgent, SyncPeers, syncVars,
                 WorkerTypes
<1>5. CASE StartAgent(w, a) \/ StopAgent(w, a)
  <2>1. PICK job \in {"start", "stop"} : Begin(w, a, job, job) /\ UNCHANGED snap
    BY <1>5 DEF StartAgent, StopAgent
  <2>2. snap' = [snap EXCEPT ![w] = snap[w]]
    BY <1>1, <2>1 DEF WorkerTypes
  <2>3. job \in Jobs /\ job \in Steps /\ job \notin {"idle", "clear", "create", "write peer", "sync"}
    BY DEF Jobs, Steps
  <2> QED
    BY <1>2, <1>3, <1>4, <2>1, <2>2, <2>3, TypedBegin
<1>6. CASE RestartAgent(w, a) \/ RecreateAgent(w, a) \/ SyncPeers(w, a)
  <2>1. PICK job \in {"restart", "recreate", "sync"}, there \in {"restarting", "recreating", "regen"} :
          Begin(w, a, job, there) /\ snap' = [snap EXCEPT ![w] = row[a]]
    BY <1>6 DEF RestartAgent, RecreateAgent, SyncPeers, Read
  <2>2. row[a] \in Rows
    BY <1>1, <1>6 DEF RestartAgent, RecreateAgent, SyncPeers, HasContainer, Exists, WorldTypes
  <2>3. job \in Jobs /\ job # "create"
    BY DEF Jobs
  <2>4. there \in Steps /\ there \notin {"idle", "clear", "create", "write peer", "sync"}
    BY DEF Steps
  <2> QED
    BY <1>2, <1>3, <1>4, <2>1, <2>2, <2>3, <2>4, TypedBegin
<1> QED
  BY <1>5, <1>6

LEMMA TypedUpdateAgent ==
  ASSUME Typed, NEW w \in Workers, NEW a \in Agents, NEW type \in Types, NEW fields \in BOOLEAN,
         NEW peers \in SUBSET Agents, NEW given \in BOOLEAN,
         UpdateAgent(w, a, type, fields, peers, given)
  PROVE  Typed'
<1> DEFINE r == row[a]
           s == [r EXCEPT !.type = type, !.peers = IF given THEN peers ELSE @]
           ins == IF given THEN peers \ r.peers ELSE {}
           outs == IF given THEN r.peers \ peers ELSE {}
<1>1. WorldTypes /\ WorkerTypes /\ Fit(w)
  BY TypedParts
<1>2. WorldTypes'
  BY <1>1, TypedUnchangedWorld DEF UpdateAgent
<1>3. r \in Rows
  BY <1>1 DEF UpdateAgent, Exists, WorldTypes
<1>4. s \in Rows /\ ins \in SUBSET Agents /\ outs \in SUBSET Agents
  BY <1>3 DEF Rows
<1>5. /\ snap' = [snap EXCEPT ![w] = s] /\ adds' = [adds EXCEPT ![w] = ins]
      /\ removes' = [removes EXCEPT ![w] = outs] /\ UNCHANGED <<other, copy>>
  BY DEF UpdateAgent
<1>6. PICK job \in {"peers", "update"}, there \in {"discard", "save"} : Begin(w, a, job, there)
  BY DEF UpdateAgent
<1>7. job \in Jobs /\ job # "create"
  BY DEF Jobs
<1>8. there \in Steps /\ there \notin {"idle", "clear", "create", "write peer", "sync"}
  BY DEF Steps
<1> HIDE DEF s, ins, outs
<1> QED
  BY <1>2, <1>4, <1>5, <1>6, <1>7, <1>8, TypedBegin

LEMMA TypedDeleteAgent ==
  ASSUME Typed, NEW w \in Workers, NEW a \in Agents, DeleteAgent(w, a)
  PROVE  Typed'
<1>1. WorldTypes /\ WorkerTypes /\ Fit(w)
  BY TypedParts
<1>2. WorldTypes'
  BY <1>1, TypedUnchangedWorld DEF DeleteAgent
<1>3. row[a] \in Rows /\ row[a].peers \in SUBSET Agents /\ adds[w] \in SUBSET Agents
  BY <1>1, RowChanges DEF DeleteAgent, Exists, WorldTypes, WorkerTypes
<1>4. /\ snap' = [snap EXCEPT ![w] = row[a]] /\ adds' = [adds EXCEPT ![w] = adds[w]]
      /\ removes' = [removes EXCEPT ![w] = row[a].peers] /\ UNCHANGED <<other, copy>>
  BY <1>1 DEF DeleteAgent, Read, FormerPeers, WorkerTypes
<1>5. "delete" \in Jobs /\ "sync" \in Steps
  BY DEF Jobs, Steps
<1>6. Begin(w, a, "delete", "sync")
  BY DEF DeleteAgent
<1>7. row[a] \in Rows \cup {NoRow}
  BY <1>3
<1> QED
  BY <1>2, <1>3, <1>4, <1>5, <1>6, <1>7, TypedBegin

LEMMA TypedOutside ==
  ASSUME Typed, NEW a \in Agents, Vanish(a)
  PROVE  Typed'
<1>1. WorldTypes /\ WorkerTypes
  BY TypedParts
<1>2. [box[a] EXCEPT !.there = FALSE] \in Boxes
  BY <1>1, BoxChanges DEF Vanish
<1>3. WorldTypes'
  BY <1>1, <1>2 DEF Vanish, WorldTypes
<1>4. WorkerTypes'
  BY <1>1 DEF WorkerTypes, Vanish, jobVars, syncVars
<1>5. \A v \in Workers : Untouched(v)
  BY DEF Vanish, jobVars, syncVars, Untouched
<1> QED
  BY <1>3, <1>4, <1>5, TypedParts, TypedPartsNext, FitUntouched

-----------------------------------------------------------------------------
(* Types, continued: edits, deletions and peers.                           *)

LEMMA TypedDiscard ==
  ASSUME Typed, NEW w \in Workers, Discard(w)
  PROVE  Typed'
<1> DEFINE a == at[w]
           r == [snap[w] EXCEPT !.cid = 0, !.status = "stopped"]
<1>1. WorldTypes /\ WorkerTypes /\ Fit(w)
  BY TypedParts
<1>2. a \in Agents /\ pc[w] = "discard" /\ snap[w] \in Rows
  BY <1>1 DEF Discard, At, Fit, HasRow
<1>3. r \in Rows
  BY <1>2 DEF Rows, Statuses
<1>4. box' \in [Agents -> Boxes]
  <2>1. CASE box' = box
    BY <1>1, <2>1 DEF WorldTypes
  <2>2. CASE box' = [box EXCEPT ![a] = NoBox]
    BY <1>1, <1>2, <2>2 DEF WorldTypes, Boxes
  <2>3. CASE HasBox(a, snap[w].cid) /\ box' = [box EXCEPT ![a].up = FALSE]
    <3>1. [box[a] EXCEPT !.up = FALSE] \in Boxes
      BY <1>1, <1>2, <2>3, BoxChanges DEF HasBox
    <3> QED
      BY <1>1, <1>2, <2>3, <3>1 DEF WorldTypes
  <2>4. \/ box' = box \/ box' = [box EXCEPT ![a] = NoBox]
        \/ HasBox(a, snap[w].cid) /\ box' = [box EXCEPT ![a].up = FALSE]
    BY DEF Discard
  <2> QED
    BY <2>1, <2>2, <2>3, <2>4
<1>5. box'[a].there \in BOOLEAN
  <2>1. box'[a] \in Boxes
    BY <1>2, <1>4
  <2>2. NoBox.there = FALSE
    BY DEF NoBox
  <2> QED
    BY <2>1, <2>2 DEF Boxes
<1>6. leaked' = [leaked EXCEPT ![a] = box'[a].there] /\ UNCHANGED <<row, file, behind>>
  BY DEF Discard
<1>7. leaked' \in [Agents -> BOOLEAN]
  BY <1>1, <1>5, <1>6 DEF WorldTypes
<1>8. WorldTypes'
  BY <1>1, <1>4, <1>6, <1>7 DEF WorldTypes
<1>9. PICK there \in {"delete", "save"} :
         /\ Go(w, there) /\ UNCHANGED jobVars /\ UNCHANGED syncVars
         /\ snap' = [snap EXCEPT ![w] = r]
  BY <1>1 DEF Discard, At, WorkerTypes
<1>10. there \in Steps /\ there \notin {"idle", "sync", "write peer", "clear", "create"}
  BY DEF Steps
<1> HIDE DEF a, r
<1> QED
  BY <1>1, <1>2, <1>3, <1>8, <1>9, <1>10, TypedMove, TypedFrom

LEMMA TypedSave ==
  ASSUME Typed, NEW w \in Workers, Save(w)
  PROVE  Typed'
<1> DEFINE a == at[w]
<1>1. WorldTypes /\ WorkerTypes /\ Fit(w)
  BY TypedParts
<1>2. a \in Agents /\ pc[w] = "save" /\ snap[w] \in Rows
  BY <1>1 DEF Save, Fit, HasRow
<1>3. row' \in [Agents -> Rows \cup {NoRow}]
  BY <1>1, <1>2, TypedUpdate DEF Save
<1>4. behind' \in [Agents -> BOOLEAN] /\ UNCHANGED <<box, file, leaked>>
  BY <1>1 DEF Save, WorldTypes
<1>5. WorldTypes'
  BY <1>1, <1>3, <1>4 DEF WorldTypes
<1>6. CASE back[w] = "peers"
  <2>1. Go(w, "sync") /\ (UNCHANGED <<jobVars, snap, syncVars>>)
    BY <1>6 DEF Save
  <2>2. WorkerTypes'
    BY <1>1, <2>1 DEF WorkerTypes, Go, jobVars, syncVars, Steps
  <2>3. Fit(w)'
    BY <1>1, <1>2, <1>6, <2>1 DEF WorkerTypes, Go, jobVars, syncVars, Fit
  <2>4. \A v \in Workers \ {w} : Untouched(v)
    BY <1>1, <2>1 DEF WorkerTypes, Go, jobVars, syncVars, Untouched
  <2> QED
    BY <1>5, <2>2, <2>3, <2>4, TypedFrom
<1>7. CASE back[w] # "peers"
  <2>1. Finish(w)
    BY <1>7 DEF Save
  <2> QED
    BY <1>1, <1>5, <2>1, TypedFinish, TypedFrom
<1> QED
  BY <1>6, <1>7

LEMMA TypedEnd ==
  ASSUME Typed, NEW w \in Workers, RegenerateOwn(w) \/ DeleteRow(w)
  PROVE  Typed'
<1>1. WorldTypes /\ WorkerTypes /\ Fit(w)
  BY TypedParts
<1>2. at[w] \in Agents /\ snap[w] \in Rows \cup {NoRow}
  BY <1>1 DEF RegenerateOwn, DeleteRow, Fit, WorkerTypes
<1>3. WorldTypes'
  <2>1. CASE RegenerateOwn(w)
    <3>1. file' \in [Agents -> SUBSET Agents] /\ behind' \in [Agents -> BOOLEAN]
      BY <1>1, <1>2, <2>1, TypedWriteFile DEF RegenerateOwn, WorldTypes
    <3> QED
      BY <1>1, <2>1, <3>1 DEF RegenerateOwn, WorldTypes
  <2>2. CASE DeleteRow(w)
    BY <1>1, <1>2, <2>2 DEF DeleteRow, WorldTypes
  <2> QED
    BY <2>1, <2>2
<1> QED
  BY <1>1, <1>3, TypedFinish, TypedFrom DEF RegenerateOwn, DeleteRow

LEMMA TypedReadPeer ==
  ASSUME Typed, NEW w \in Workers, NEW p \in Agents, ReadPeer(w, p)
  PROVE  Typed'
<1> DEFINE r == [row[p] EXCEPT !.peers = Changed(w, p)]
<1>1. WorldTypes /\ WorkerTypes /\ Fit(w)
  BY TypedParts
<1>2. WorldTypes'
  BY <1>1, TypedUnchangedWorld DEF ReadPeer
<1>3. pc[w] = "sync" /\ at[w] \in Agents
  BY <1>1 DEF ReadPeer, At, Fit
<1>4. CASE Exists(p) /\ Changed(w, p) # row[p].peers
  <2>1. row[p] \in Rows
    BY <1>1, <1>4 DEF Exists, WorldTypes
  <2>2. Changed(w, p) \in SUBSET Agents
    BY <1>3, <2>1, RowChanges DEF Changed
  <2>3. r \in Rows
    BY <2>1, <2>2, RowChanges
  <2>4. /\ At(w, "sync", "write peer") /\ other' = [other EXCEPT ![w] = p]
        /\ copy' = [copy EXCEPT ![w] = r] /\ UNCHANGED <<adds, removes, snap>>
    BY <1>4 DEF ReadPeer
  <2> HIDE DEF r
  <2>5. WorkerTypes'
    BY <1>1, <2>3, <2>4 DEF WorkerTypes, At, Go, jobVars, Steps
  <2>6. Fit(w)'
    BY <1>1, <1>3, <2>3, <2>4 DEF WorkerTypes, At, Go, jobVars, Fit, HasRow
  <2>7. \A v \in Workers \ {w} : Untouched(v)
    BY <1>1, <2>4 DEF WorkerTypes, At, Go, jobVars, Untouched
  <2> QED
    BY <1>2, <2>5, <2>6, <2>7, TypedFrom
<1>5. CASE ~(Exists(p) /\ Changed(w, p) # row[p].peers)
  <2>1. At(w, "sync", "sync") /\ Drop(w, p) /\ UNCHANGED <<other, copy, snap>>
    BY <1>5 DEF ReadPeer
  <2>2. WorkerTypes'
    BY <1>1, <2>1 DEF WorkerTypes, At, Go, jobVars, Drop, Steps
  <2>3. Fit(w)'
    BY <1>1, <1>3, <2>1 DEF WorkerTypes, At, Go, jobVars, Drop, Fit, HasRow
  <2>4. \A v \in Workers \ {w} : Untouched(v)
    BY <1>1, <2>1 DEF WorkerTypes, At, Go, jobVars, Drop, Untouched
  <2> QED
    BY <1>2, <2>2, <2>3, <2>4, TypedFrom
<1> QED
  BY <1>4, <1>5

LEMMA TypedWritePeer ==
  ASSUME Typed, NEW w \in Workers, WritePeer(w)
  PROVE  Typed'
<1> DEFINE p == other[w]
           r == copy[w]
<1>1. WorldTypes /\ WorkerTypes /\ Fit(w)
  BY TypedParts
<1>2. p \in Agents /\ r \in Rows /\ pc[w] = "write peer" /\ at[w] \in Agents
  BY <1>1 DEF WritePeer, At, Fit
<1>3. row' \in [Agents -> Rows \cup {NoRow}]
  BY <1>1, <1>2, TypedUpdate DEF WritePeer
<1>4. file' \in [Agents -> SUBSET Agents] /\ behind' \in [Agents -> BOOLEAN]
  <2>1. CASE DueForPeer(r)
    <3>1. WriteFile(p, r)
      BY <2>1 DEF WritePeer
    <3> QED
      BY <1>1, <1>2, <3>1, TypedWriteFile
  <2>2. CASE ~DueForPeer(r)
    BY <1>1, <1>2, <2>2 DEF WritePeer, WorldTypes
  <2> QED
    BY <2>1, <2>2
<1>5. WorldTypes'
  BY <1>1, <1>3, <1>4 DEF WritePeer, WorldTypes
<1>6. /\ At(w, "write peer", "sync") /\ Drop(w, p) /\ other' = [other EXCEPT ![w] = NoAgent]
      /\ copy' = [copy EXCEPT ![w] = NoRow] /\ UNCHANGED snap
  BY DEF WritePeer
<1>7. WorkerTypes'
  BY <1>1, <1>6 DEF WorkerTypes, At, Go, jobVars, Drop, Steps
<1>8. Fit(w)'
  BY <1>1, <1>2, <1>6 DEF WorkerTypes, At, Go, jobVars, Drop, Fit, HasRow
<1>9. \A v \in Workers \ {w} : Untouched(v)
  BY <1>1, <1>6 DEF WorkerTypes, At, Go, jobVars, Drop, Untouched
<1> QED
  BY <1>5, <1>7, <1>8, <1>9, TypedFrom

LEMMA TypedSynced ==
  ASSUME Typed, NEW w \in Workers, Synced(w)
  PROVE  Typed'
<1>1. WorldTypes /\ WorkerTypes /\ Fit(w)
  BY TypedParts
<1>2. WorldTypes'
  BY <1>1, TypedUnchangedWorld DEF Synced
<1>3. pc[w] = "sync" /\ back[w] \in {"create", "peers", "delete"}
  BY <1>1 DEF Synced, Fit
<1>4. CASE back[w] = "create"
  <2>1. Finish(w)
    BY <1>4 DEF Synced
  <2> QED
    BY <1>1, <1>2, <2>1, TypedFinish, TypedFrom
<1>5. CASE back[w] \in {"peers", "delete"}
  <2>1. PICK there \in {"regen", "discard", "delete"} :
          Go(w, there) /\ (UNCHANGED <<jobVars, snap, syncVars>>)
    BY <1>5 DEF Synced
  <2>2. there \in Steps /\ there \notin {"idle", "sync", "write peer", "clear", "create"}
    BY DEF Steps
  <2>3. HasRow(w)
    BY <1>3, <1>5 DEF HasRow
  <2> QED
    BY <1>1, <1>2, <1>3, <2>1, <2>2, <2>3, TypedGo, TypedFrom
<1> QED
  BY <1>3, <1>4, <1>5

LEMMA TypedNext == Typed /\ [Next]_vars => Typed'
<1> SUFFICES ASSUME Typed, [Next]_vars PROVE Typed'
  OBVIOUS
<1>1. CASE UNCHANGED vars
  BY <1>1 DEF vars, worldVars, jobVars, syncVars, Typed, TypeOK, Fit, Idle, HasRow
<1>2. ASSUME NEW w \in Workers, Step(w) PROVE Typed'
  BY <1>2, TypedReadForStart, TypedContainer, TypedWriteRow, TypedSay, TypedCreateContainer,
     TypedCreateFails, TypedBox, TypedReads, TypedDiscard, TypedSave, TypedEnd, TypedReadPeer,
     TypedWritePeer, TypedSynced DEF Step
<1>3. ASSUME NEW w \in Workers, NEW a \in Agents, Request(w, a) PROVE Typed'
  <2>1. \A peers \in Choices(a) : peers \in SUBSET Agents
    BY DEF Choices
  <2> QED
    BY <1>3, <2>1, TypedCreateAgent, TypedRequest, TypedUpdateAgent, TypedDeleteAgent, TypedOutside
    DEF Request
<1> QED
  BY <1>1, <1>2, <1>3, TypedOutside DEF Next

LEMMA TypedInvariant == Spec => []Typed
BY TypedInit, TypedNext, PTL DEF Spec

(* Rows, containers and the workers' copies of rows keep their types, for  *)
(* any number of requests that overlap; above all, a new container always  *)
(* gets an id that no row and no copy has.                                 *)
THEOREM LifecycleTypes == Spec => []TypeOK
<1>1. Typed => TypeOK
  BY DEF Typed
<1> QED
  BY <1>1, TypedInvariant, PTL

-----------------------------------------------------------------------------
(* What Serial says of the agents that no other request is about.          *)

Foreign(w, a) == \E v \in Workers \ {w} : Busy(v) /\ a \in Reach(v)

OwnedBy(w, a) ==
  \/ Foreign(w, a) \/ Unowned(a) \/ row[a].cid = box[a].id
  \/ at[w] = a /\ pc[w] = "save cid" /\ snap[w].cid = box[a].id

Follow(a) == ~Exists(a) \/ behind[a] \/ file[a] = row[a].peers

FollowsBy(w, a) == Foreign(w, a) \/ Follow(a) \/ (at[w] = a /\ Regenerating(w))

Each(w, a, b) == a \in row[b].peers \/ (Foreign(w, a) /\ Foreign(w, b))

MutualBy(w, a, b) == b \in row[a].peers => Each(w, a, b) \/ Settling(w, a, b)

WorldOf(w) ==
  /\ \A a \in Agents : OwnedBy(w, a) /\ FollowsBy(w, a)
  /\ \A a, b \in Agents : MutualBy(w, a, b)
  /\ PeersExist

(* A step of w leaves the reach of the others, and meets none of them.     *)
Aside(w) ==
  /\ \A a \in Agents : Foreign(w, a)' <=> Foreign(w, a)
  /\ Busy(w) => \A a \in Reach(w) : ~Foreign(w, a)
  /\ Busy(w)' => \A a \in Reach(w)' : ~Foreign(w, a)

LEMMA OwnAgents ==
  ASSUME NEW w \in Workers, Aside(w)
  PROVE  /\ Busy(w) => /\ ~Foreign(w, at[w])
                       /\ \A p \in adds[w] \cup removes[w] : ~Foreign(w, p)
                       /\ back[w] = "delete" => \A p \in snap[w].peers : ~Foreign(w, p)
         /\ Busy(w)' => /\ ~Foreign(w, at'[w])
                        /\ \A p \in adds'[w] \cup removes'[w] : ~Foreign(w, p)
         /\ \A a \in Agents : Foreign(w, a)' <=> Foreign(w, a)
BY DEF Aside, Reach

(* What a step leaves of a world of which it changes another part.         *)
LEMMA OwnedBySame ==
  ASSUME NEW w \in Workers, Aside(w), NEW a \in Agents, OwnedBy(w, a),
         box'[a].there = box[a].there, box'[a].id = box[a].id, leaked'[a] = leaked[a],
         row'[a].cid = row[a].cid, at[w] # a \/ pc[w] # "save cid"
  PROVE  OwnedBy(w, a)'
BY OwnAgents DEF OwnedBy, Unowned

LEMMA FollowSame ==
  ASSUME NEW a, Follow(a), row'[a] = row[a], file'[a] = file[a], behind'[a] = behind[a]
  PROVE  Follow(a)'
BY DEF Follow, Exists

LEMMA FollowsBySame ==
  ASSUME NEW w \in Workers, Aside(w), NEW a \in Agents, FollowsBy(w, a),
         row'[a] = row[a], file'[a] = file[a], behind'[a] = behind[a],
         at[w] = a /\ Regenerating(w) => at'[w] = a /\ Regenerating(w)'
  PROVE  FollowsBy(w, a)'
BY OwnAgents, FollowSame DEF FollowsBy

LEMMA MutualBySame ==
  ASSUME NEW w \in Workers, Aside(w), NEW a \in Agents, NEW b \in Agents, MutualBy(w, a, b),
         row'[a] = row[a], row'[b] = row[b],
         Settling(w, a, b) => Settling(w, a, b)' \/ a \in row[b].peers \/ b \notin row[a].peers
  PROVE  MutualBy(w, a, b)'
BY OwnAgents DEF MutualBy, Each

(* Its own container's agent is nobody else's.                             *)
LEMMA OwnContainer ==
  ASSUME NEW w \in Workers, Aside(w), WorldOf(w), Busy(w), at[w] \in Agents
  PROVE  \/ Unowned(at[w]) \/ row[at[w]].cid = box[at[w]].id
         \/ pc[w] = "save cid" /\ snap[w].cid = box[at[w]].id
BY OwnAgents DEF WorldOf, OwnedBy

(* Away from edits, deletions and peers nothing is left to be done.        *)
Calm(w) == pc[w] \notin {"sync", "write peer", "regen"} /\ back[w] # "delete"

Plain(w) ==
  /\ \A a \in Agents : Foreign(w, a) \/ Follow(a)
  /\ \A a, b \in Agents : b \in row[a].peers => Each(w, a, b)
  /\ PeersExist

LEMMA CalmWorld ==
  ASSUME NEW w \in Workers, WorldOf(w), Calm(w)
  PROVE  Plain(w)
BY DEF WorldOf, Calm, Plain, FollowsBy, Regenerating, MutualBy, Settling

LEMMA PlainWorld ==
  ASSUME NEW w \in Workers, Plain(w)', \A a \in Agents : OwnedBy(w, a)'
  PROVE  WorldOf(w)'
BY DEF WorldOf, Plain, FollowsBy, MutualBy

LEMMA PlainFrame ==
  ASSUME NEW w \in Workers, Plain(w), Aside(w), UNCHANGED <<file, behind>>,
         \A a \in Agents : row'[a].peers = row[a].peers /\ (Exists(a)' <=> Exists(a)),
         WorldTypes
  PROVE  Plain(w)'
<1>1. \A a \in Agents : row[a].peers \in SUBSET Agents
  BY RowChanges, NoRowFields DEF WorldTypes
<1>2. \A a \in Agents : Foreign(w, a)' <=> Foreign(w, a)
  BY DEF Aside
<1>3. \A a \in Agents : Foreign(w, a)' \/ Follow(a)'
  BY <1>2 DEF Plain, Follow
<1>4. \A a, b \in Agents : b \in row'[a].peers => Each(w, a, b)'
  BY <1>2 DEF Plain, Each
<1> QED
  BY <1>1, <1>3, <1>4 DEF Plain, PeersExist

(* All peers exist, so a file that is written lists all of them.           *)
LEMMA ListedAll ==
  ASSUME PeersExist, NEW a \in Agents, NEW r, r.peers = row[a].peers
  PROVE  Listed(r) = row[a].peers
BY DEF PeersExist, Listed

LEMMA PlainWrite ==
  ASSUME NEW w \in Workers, Plain(w), Aside(w), WorldTypes, NEW a \in Agents,
         NEW r, r.peers = row[a].peers, WriteFile(a, r), UNCHANGED row
  PROVE  Plain(w)'
<1>1. Listed(r) = row[a].peers
  BY ListedAll DEF Plain
<1>2. \A b \in Agents : Foreign(w, b)' <=> Foreign(w, b)
  BY DEF Aside
<1>3. \A b \in Agents : Follow(b) => Follow(b)'
  BY <1>1 DEF Follow, WriteFile, WorldTypes, Exists
<1>4. \A b, c \in Agents : c \in row'[b].peers => Each(w, b, c)'
  BY <1>2 DEF Plain, Each
<1> QED
  BY <1>2, <1>3, <1>4 DEF Plain, PeersExist, Exists

(* The steps after which nothing is owed to a copy.                        *)
LEMMA InTurnFree ==
  ASSUME NEW w \in Workers, back'[w] # "delete",
         pc'[w] \in {"idle", "start", "stop", "stop box", "stopped", "recreating", "remove box"}
  PROVE  InTurn(w)'
BY DEF InTurn, Starting, Editing, Syncing, Deleting

LEMMA InTurnStarting ==
  ASSUME NEW w \in Workers, back'[w] # "delete", Starting(w)',
         pc'[w] \in {"exists", "clear", "create", "save cid", "start box", "restarting", "restart box",
                     "running", "reread", "forget"}
  PROVE  InTurn(w)'
BY DEF InTurn, Editing, Syncing, Deleting

(* A worker at one of the lifecycle's steps is calm.                       *)
LEMMA LifecycleCalm ==
  ASSUME NEW w \in Workers, InTurn(w),
         pc[w] \notin {"sync", "write peer", "regen", "discard", "delete"}
  PROVE  Calm(w) /\ back[w] # "delete"
BY DEF InTurn, Deleting, Calm

-----------------------------------------------------------------------------
(* What writing a row back, or its status, leaves as it is.                *)

SameShape ==
  \A b \in Agents : row'[b].peers = row[b].peers /\ (Exists(b)' <=> Exists(b))

LEMMA RowWritten ==
  ASSUME WorldTypes, NEW a \in Agents, Exists(a), NEW r \in Rows, r.peers = row[a].peers, Update(a, r)
  PROVE  /\ row'[a] = r /\ Exists(a)' /\ SameShape
         /\ \A b \in Agents \ {a} : row'[b] = row[b]
<1>1. r # NoRow
  BY NoRowIsNoRow
<1>2. row' = [row EXCEPT ![a] = r]
  BY DEF Update
<1> QED
  BY <1>1, <1>2 DEF WorldTypes, Exists, SameShape

LEMMA StatusWritten ==
  ASSUME WorldTypes, NEW a \in Agents, NEW s \in Statuses, UpdateStatus(a, s)
  PROVE  /\ SameShape
         /\ \A b \in Agents : row'[b].cid = row[b].cid /\ row'[b].type = row[b].type
         /\ row'[a].status = s \/ ~Exists(a)
         /\ \A b \in Agents \ {a} : row'[b] = row[b]
<1>1. CASE Exists(a)
  <2>1. row[a] \in Rows
    BY <1>1 DEF Exists, WorldTypes
  <2>2. row' = [row EXCEPT ![a] = [row[a] EXCEPT !.status = s]]
    BY <1>1 DEF UpdateStatus
  <2>3. [row[a] EXCEPT !.status = s] \in Rows
    BY <2>1, RowChanges
  <2>4. [row[a] EXCEPT !.status = s] # NoRow
    BY <2>3, NoRowIsNoRow
  <2> DEFINE r == [row[a] EXCEPT !.status = s]
  <2>5. r.cid = row[a].cid /\ r.type = row[a].type /\ r.peers = row[a].peers /\ r.status = s
    BY <2>1 DEF Rows
  <2>6. row' = [row EXCEPT ![a] = r] /\ r # NoRow
    BY <2>2, <2>4
  <2> HIDE DEF r
  <2> QED
    BY <1>1, <2>5, <2>6 DEF WorldTypes, SameShape, Exists
<1>2. CASE ~Exists(a)
  <2>1. row' = row
    BY <1>2 DEF UpdateStatus, Exists, WorldTypes
  <2> QED
    BY <1>2, <2>1 DEF SameShape, Exists
<1> QED
  BY <1>1, <1>2

LEMMA OwnedFrame ==
  ASSUME NEW w \in Workers, \A a \in Agents : OwnedBy(w, a), pc[w] # "save cid", UNCHANGED leaked,
         Aside(w),
         \A a \in Agents : box'[a].there = box[a].there /\ box'[a].id = box[a].id,
         \A a \in Agents : row'[a].cid = row[a].cid
  PROVE  \A a \in Agents : OwnedBy(w, a)'
BY DEF OwnedBy, Unowned, Aside

(* A step of w in a world where nothing is left to be done for the peers.  *)
LEMMA SerialPlain ==
  ASSUME Typed, NEW w \in Workers, Aside(w), WorldOf(w), InTurn(w),
         pc[w] \notin {"sync", "write peer", "regen", "discard", "delete"},
         SameShape, UNCHANGED <<file, behind>>,
         \A a \in Agents : OwnedBy(w, a)', InTurn(w)'
  PROVE  WorldOf(w)' /\ InTurn(w)'
<1>1. Plain(w)
  BY LifecycleCalm, CalmWorld
<1>2. Plain(w)'
  BY <1>1, PlainFrame, TypedParts DEF SameShape
<1> QED
  BY <1>2, PlainWorld

LEMMA UnchangedShape ==
  ASSUME UNCHANGED row
  PROVE  SameShape /\ \A a \in Agents : row'[a].cid = row[a].cid
BY DEF SameShape, Exists

-----------------------------------------------------------------------------
(* What one step of w, aside from the others, keeps.  Starts.              *)

LEMMA SerialReadForStart ==
  ASSUME Typed, NEW w \in Workers, Aside(w), WorldOf(w), InTurn(w), ReadForStart(w)
  PROVE  WorldOf(w)' /\ InTurn(w)'
<1> DEFINE r == row[at[w]]
<1>1. WorkerTypes /\ WorldTypes /\ Fit(w)
  BY TypedParts
<1>2. /\ pc[w] = "start" /\ Exists(at[w]) /\ UNCHANGED worldVars /\ UNCHANGED jobVars
      /\ pc'[w] = AfterReadForStart(r) /\ snap'[w] = r
  BY <1>1 DEF ReadForStart, At, Go, Read, WorkerTypes
<1>3. r.type \in Types
  BY <1>1, <1>2, RowChanges DEF Exists, WorldTypes, Fit
<1>4. at'[w] = at[w] /\ row' = row /\ box' = box /\ back'[w] = back[w]
  BY <1>2 DEF worldVars, jobVars
<1>5. Starting(w)' /\ pc'[w] \in {"running", "exists", "create"}
  <2>1. CASE r.type = "native"
    <3>1. pc'[w] = "running"
      BY <1>2, <2>1 DEF AfterReadForStart
    <3> QED
      BY <1>4, <2>1, <3>1 DEF Starting, Docker
  <2>2. CASE r.type = "docker"
    <3>1. pc'[w] \in {"exists", "create"}
      BY <1>2, <2>2 DEF AfterReadForStart
    <3>2. SameRow(w)' /\ Docker(w)'
      BY <1>2, <1>4, <2>2 DEF SameRow, Exists, Docker
    <3> QED
      BY <3>1, <3>2 DEF Starting
  <2> QED
    BY <1>3, <2>1, <2>2 DEF Types
<1>6. back[w] # "delete"
  BY <1>2, LifecycleCalm
<1>7. InTurn(w)'
  BY <1>4, <1>5, <1>6, InTurnStarting
<1>8. \A a \in Agents : OwnedBy(w, a)'
  BY <1>2, OwnedFrame, UnchangedShape DEF worldVars, WorldOf
<1> QED
  BY <1>2, <1>7, <1>8, SerialPlain, UnchangedShape DEF worldVars

(* A start that fails, once the caller has seen to containers and files.   *)
LEMMA SerialStartFails ==
  ASSUME Typed, NEW w \in Workers, InTurn(w),
         pc[w] \in {"start", "create", "start box"}, StartFails(w), Plain(w)',
         \A a \in Agents : OwnedBy(w, a)'
  PROVE  WorldOf(w)' /\ InTurn(w)'
<1>1. WorkerTypes
  BY TypedParts
<1>2. back[w] # "delete"
  BY LifecycleCalm
<1>3. back'[w] # "delete" /\ pc'[w] \in {"idle", "stopped"}
  BY <1>1, <1>2 DEF StartFails, Finish, Go, jobVars, WorkerTypes
<1>4. InTurn(w)'
  BY <1>3, InTurnFree
<1> QED
  BY <1>4, PlainWorld

LEMMA SerialContainer ==
  ASSUME Typed, NEW w \in Workers, Aside(w), WorldOf(w), InTurn(w),
         NothingToStart(w) \/ ContainerExists(w) \/ ContainerGone(w) \/ StartContainerFails(w)
  PROVE  WorldOf(w)' /\ InTurn(w)'
<1>1. WorkerTypes /\ WorldTypes /\ Fit(w)
  BY TypedParts
<1>2. UNCHANGED worldVars /\ pc[w] \in {"start", "exists", "start box"}
  BY DEF NothingToStart, ContainerExists, ContainerGone, StartContainerFails, At
<1>3. row' = row /\ box' = box /\ leaked' = leaked /\ UNCHANGED <<file, behind>>
  BY <1>2 DEF worldVars
<1>4. \A a \in Agents : OwnedBy(w, a)'
  BY <1>2, <1>3, OwnedFrame, UnchangedShape DEF WorldOf
<1>5. back[w] # "delete"
  BY <1>2, LifecycleCalm
<1>6. CASE NothingToStart(w) \/ StartContainerFails(w)
  <2>1. Plain(w)
    BY <1>2, LifecycleCalm, CalmWorld
  <2>2. Plain(w)'
    BY <1>1, <1>3, <2>1, PlainFrame, UnchangedShape DEF SameShape
  <2> QED
    BY <1>4, <1>6, <2>2, SerialStartFails DEF NothingToStart, StartContainerFails
<1>7. CASE ContainerExists(w)
  <2>1. /\ pc[w] = "exists" /\ pc'[w] = "start box" /\ snap' = snap /\ at'[w] = at[w]
        /\ back'[w] = back[w]
    BY <1>1, <1>7 DEF ContainerExists, At, Go, jobVars, WorkerTypes
  <2>2. SameRow(w) /\ Docker(w)
    BY <2>1 DEF InTurn, Starting
  <2>3. SameRow(w)' /\ Docker(w)'
    BY <1>3, <2>1, <2>2 DEF SameRow, Docker, Exists
  <2>4. Starting(w)'
    BY <2>1, <2>3 DEF Starting
  <2>5. InTurn(w)'
    BY <1>5, <2>1, <2>4, InTurnStarting
  <2> QED
    BY <1>2, <1>3, <1>4, <2>5, SerialPlain, UnchangedShape
<1>8. CASE ContainerGone(w)
  <2>1. /\ pc[w] = "exists" /\ pc'[w] = "clear" /\ snap'[w] = [snap[w] EXCEPT !.cid = 0]
        /\ at'[w] = at[w] /\ back'[w] = back[w] /\ at[w] \in Agents
    BY <1>1, <1>8 DEF ContainerGone, At, Go, jobVars, WorkerTypes, Fit
  <2>2. SameRow(w) /\ Docker(w)
    BY <2>1 DEF InTurn, Starting
  <2>3. row[at[w]] \in Rows
    BY <1>1, <2>1, <2>2 DEF SameRow, Exists, WorldTypes
  <2>4. snap'[w].cid = 0 /\ row[at[w]] = [snap'[w] EXCEPT !.cid = row[at[w]].cid]
    BY <2>1, <2>2, <2>3 DEF SameRow, Rows
  <2>5. SameButCid(w)' /\ Docker(w)'
    BY <1>3, <2>1, <2>2, <2>4 DEF SameRow, SameButCid, Docker, Exists
  <2>6. Unowned(at[w])
    <3>1. Unowned(at[w]) \/ row[at[w]].cid = box[at[w]].id
      BY <2>1, OwnContainer DEF Busy
    <3>2. ~HasBox(at[w], row[at[w]].cid) \/ "inspect" \in DockerFails
      BY <1>8, <2>2 DEF ContainerGone, SameRow
    <3> QED
      BY <3>1, <3>2 DEF HasBox, Unowned
  <2>7. Starting(w)'
    BY <1>3, <2>1, <2>4, <2>5, <2>6 DEF Starting, Unowned
  <2>8. InTurn(w)'
    BY <1>5, <2>1, <2>7, InTurnStarting
  <2> QED
    BY <1>2, <1>3, <1>4, <2>8, SerialPlain, UnchangedShape
<1> QED
  BY <1>6, <1>7, <1>8

(* The three steps that write the copy of the row back, with its new id.   *)
LEMMA SerialWriteRow ==
  ASSUME Typed, NEW w \in Workers, Aside(w), WorldOf(w), InTurn(w),
         ClearCid(w) \/ SaveCid(w) \/ ForgetContainer(w)
  PROVE  WorldOf(w)' /\ InTurn(w)'
<1> DEFINE a == at[w]
<1>1. WorkerTypes /\ WorldTypes /\ Fit(w)
  BY TypedParts
<1>2. /\ pc[w] \in {"clear", "save cid", "forget"} /\ Update(a, snap[w])
      /\ UNCHANGED <<box, leaked, snap>> /\ (UNCHANGED <<file, behind>>)
      /\ at'[w] = at[w] /\ back'[w] = back[w]
  BY DEF ClearCid, SaveCid, ForgetContainer, At, jobVars
<1>3. a \in Agents /\ snap[w] \in Rows
  BY <1>1, <1>2 DEF Fit, HasRow
<1>4. SameButCid(w)
  BY <1>2 DEF InTurn, Starting
<1>5. Exists(a) /\ snap[w].peers = row[a].peers /\ snap[w].type = row[a].type
  BY <1>3, <1>4 DEF SameButCid, Rows
<1>6. /\ row'[a] = snap[w] /\ Exists(a)' /\ SameShape
      /\ \A b \in Agents \ {a} : row'[b] = row[b]
  BY <1>1, <1>2, <1>3, <1>5, RowWritten
<1>7. \/ pc[w] = "clear" /\ pc'[w] = "create"
      \/ pc[w] = "save cid" /\ pc'[w] = "start box"
      \/ pc[w] = "forget" /\ pc'[w] = "start"
  BY <1>1 DEF ClearCid, SaveCid, ForgetContainer, At, Go, WorkerTypes
<1>8. OwnedBy(w, a)'
  <2>1. CASE pc[w] = "clear"
    BY <1>2, <2>1 DEF InTurn, Starting, OwnedBy, Unowned
  <2>2. CASE pc[w] = "save cid"
    <3>1. row[a].cid = 0
      BY <2>2 DEF InTurn, Starting
    <3>2. box[a].id = 0 => ~box[a].there
      BY <1>1, <1>3, IdsAreNumbers DEF WorldTypes, Boxes, NoBox
    <3>3. Unowned(a) \/ row[a].cid = box[a].id \/ snap[w].cid = box[a].id
      BY <1>2, <1>3, OwnContainer DEF Busy
    <3>4. Unowned(a) \/ snap[w].cid = box[a].id
      BY <3>1, <3>2, <3>3 DEF Unowned
    <3> QED
      BY <1>2, <1>6, <3>4 DEF OwnedBy, Unowned
  <2>3. CASE pc[w] = "forget"
    BY <1>2, <2>3 DEF InTurn, Starting, OwnedBy, Unowned
  <2> QED
    BY <1>7, <2>1, <2>2, <2>3
<1>9. ASSUME NEW b \in Agents \ {a} PROVE OwnedBy(w, b)'
  <2>1. OwnedBy(w, b) /\ row'[b].cid = row[b].cid
    BY <1>6 DEF WorldOf
  <2> QED
    BY <1>2, <2>1, OwnedBySame
<1>10. back[w] # "delete"
  BY <1>2, LifecycleCalm
<1>11. SameRow(w)'
  BY <1>2, <1>6 DEF SameRow
<1>12. Docker(w) => Docker(w)'
  BY <1>2, <1>5, <1>6 DEF Docker
<1>13. pc[w] \in {"clear", "save cid"} => Starting(w)'
  BY <1>7, <1>11, <1>12 DEF InTurn, Starting
<1>14. InTurn(w)'
  BY <1>2, <1>7, <1>10, <1>13, InTurnStarting, InTurnFree
<1> QED
  BY <1>2, <1>6, <1>8, <1>9, <1>14, SerialPlain

LEMMA SerialCreateContainer ==
  ASSUME Typed, NEW w \in Workers, Aside(w), WorldOf(w), InTurn(w), CreateContainer(w)
  PROVE  WorldOf(w)' /\ InTurn(w)'
<1> DEFINE a == at[w]
           id == NewId(a)
<1>1. WorkerTypes /\ WorldTypes /\ Fit(w)
  BY TypedParts
<1>2. /\ pc[w] = "create" /\ pc'[w] = "save cid" /\ at'[w] = at[w] /\ back'[w] = back[w]
      /\ snap'[w] = [snap[w] EXCEPT !.cid = id]
      /\ box' = [box EXCEPT ![a] = [id |-> id, up |-> FALSE, there |-> TRUE]]
      /\ WriteFile(a, snap[w]) /\ row' = row /\ leaked' = leaked
  BY <1>1 DEF CreateContainer, At, Go, jobVars, WorkerTypes
<1> HIDE DEF id
<1>3. a \in Agents /\ snap[w] \in Rows /\ snap[w].cid = 0
  BY <1>1, <1>2 DEF Fit, HasRow
<1>4. SameRow(w) /\ Docker(w)
  BY <1>2 DEF InTurn, Starting
<1>5. Plain(w) /\ back[w] # "delete"
  BY <1>2, LifecycleCalm, CalmWorld
<1>6. Plain(w)'
  BY <1>1, <1>2, <1>3, <1>4, <1>5, PlainWrite DEF SameRow
<1>7. snap'[w].cid = id /\ row[a] = [snap'[w] EXCEPT !.cid = row[a].cid] /\ row[a].cid = 0
  BY <1>2, <1>3, <1>4 DEF SameRow, Rows
<1>8. SameButCid(w)' /\ Docker(w)'
  BY <1>2, <1>4, <1>7 DEF SameRow, SameButCid, Docker, Exists
<1>9. Starting(w)'
  BY <1>2, <1>7, <1>8 DEF Starting
<1>10. InTurn(w)'
  BY <1>2, <1>5, <1>9, InTurnStarting
<1>11. box'[a].id = id
  BY <1>1, <1>2, <1>3 DEF WorldTypes
<1>12. OwnedBy(w, a)'
  BY <1>2, <1>7, <1>11 DEF OwnedBy
<1>13. ASSUME NEW b \in Agents \ {a} PROVE OwnedBy(w, b)'
  <2>1. OwnedBy(w, b) /\ box'[b] = box[b]
    BY <1>1, <1>2 DEF WorldOf, WorldTypes
  <2> QED
    BY <1>2, <2>1, OwnedBySame
<1>14. \A b \in Agents : OwnedBy(w, b)'
  BY <1>2, <1>12, <1>13
<1> QED
  BY <1>6, <1>10, <1>14, PlainWorld

LEMMA SerialCreateFails ==
  ASSUME Typed, NEW w \in Workers, Aside(w), WorldOf(w), InTurn(w), CreateFails(w)
  PROVE  WorldOf(w)' /\ InTurn(w)'
<1> DEFINE a == at[w]
<1>1. WorkerTypes /\ WorldTypes /\ Fit(w)
  BY TypedParts
<1>2. /\ pc[w] = "create" /\ StartFails(w) /\ row' = row /\ box' = box /\ leaked' = leaked
      /\ WriteFile(a, snap[w]) \/ UNCHANGED <<file, behind>>
  BY DEF CreateFails
<1>3. a \in Agents
  BY <1>1, <1>2 DEF Fit
<1>4. SameRow(w)
  BY <1>2 DEF InTurn, Starting
<1>5. Plain(w)
  BY <1>2, LifecycleCalm, CalmWorld
<1>6. Plain(w)'
  <2>1. CASE WriteFile(a, snap[w])
    BY <1>1, <1>2, <1>3, <1>4, <1>5, <2>1, PlainWrite DEF SameRow
  <2>2. CASE UNCHANGED <<file, behind>>
    BY <1>1, <1>2, <1>5, <2>2, PlainFrame, UnchangedShape DEF SameShape
  <2> QED
    BY <1>2, <2>1, <2>2
<1>7. \A b \in Agents : OwnedBy(w, b)'
  BY <1>2, OwnedFrame, UnchangedShape DEF WorldOf
<1> QED
  BY <1>2, <1>6, <1>7, SerialStartFails

-----------------------------------------------------------------------------
(* Stops, restarts and recreations.                                        *)

LEMMA SerialSay ==
  ASSUME Typed, NEW w \in Workers, Aside(w), WorldOf(w), InTurn(w),
         SayRunning(w) \/ SayStopped(w) \/ SayRestarting(w) \/ SayRecreating(w)
  PROVE  WorldOf(w)' /\ InTurn(w)'
<1> DEFINE a == at[w]
<1>1. WorkerTypes /\ WorldTypes /\ Fit(w)
  BY TypedParts
<1>2. /\ pc[w] \in {"running", "stopped", "restarting", "recreating"}
      /\ \E s \in Statuses : UpdateStatus(a, s)
      /\ UNCHANGED <<file, behind>> /\ UNCHANGED <<box, leaked>>
  BY DEF SayRunning, SayStopped, SayRestarting, SayRecreating, At, Statuses
<1>3. a \in Agents
  BY <1>1, <1>2 DEF Fit
<1>4. SameShape /\ \A b \in Agents : row'[b].cid = row[b].cid /\ row'[b].type = row[b].type
  BY <1>1, <1>2, <1>3, StatusWritten
<1>5. \A b \in Agents : OwnedBy(w, b)'
  BY <1>2, <1>4, OwnedFrame DEF WorldOf
<1>6. back[w] # "delete"
  BY <1>2, LifecycleCalm
<1>7. InTurn(w)'
  <2>1. CASE SayRunning(w) \/ SayStopped(w)
    <3>1. back'[w] # "delete" /\ pc'[w] = "idle"
      BY <1>1, <2>1 DEF SayRunning, SayStopped, Finish, Go, WorkerTypes
    <3> QED
      BY <3>1, InTurnFree
  <2>2. CASE SayRecreating(w)
    <3>1. back'[w] # "delete" /\ pc'[w] = "remove box"
      BY <1>1, <1>6, <2>2 DEF SayRecreating, At, Go, jobVars, WorkerTypes
    <3> QED
      BY <3>1, InTurnFree
  <2>3. CASE SayRestarting(w)
    <3>1. /\ pc[w] = "restarting" /\ back'[w] # "delete" /\ pc'[w] = "restart box"
          /\ at'[w] = a /\ snap' = snap
      BY <1>1, <1>6, <2>3 DEF SayRestarting, At, Go, jobVars, WorkerTypes
    <3>2. snap[w].cid = row[a].cid
      BY <3>1 DEF InTurn, Starting
    <3>3. Starting(w)'
      BY <1>3, <1>4, <3>1, <3>2 DEF Starting
    <3> QED
      BY <3>1, <3>3, InTurnStarting
  <2> QED
    BY <2>1, <2>2, <2>3
<1> QED
  BY <1>2, <1>4, <1>5, <1>7, SerialPlain

(* What a container goes through: its row still names it, or it is gone.   *)
LEMMA SerialBox ==
  ASSUME Typed, NEW w \in Workers, Aside(w), WorldOf(w), InTurn(w),
         \/ StartContainer(w) \/ StopContainer(w) \/ RestartContainer(w) \/ RestartFails(w)
         \/ RemoveContainer(w) \/ RemoveFails(w)
  PROVE  WorldOf(w)' /\ InTurn(w)'
<1> DEFINE a == at[w]
<1>1. WorkerTypes /\ WorldTypes /\ Fit(w)
  BY TypedParts
<1>2. /\ pc[w] \in {"start box", "stop box", "restart box", "remove box"}
      /\ row' = row /\ leaked' = leaked /\ (UNCHANGED <<file, behind>>) /\ snap' = snap
      /\ at'[w] = at[w] /\ back'[w] = back[w]
  BY DEF StartContainer, StopContainer, RestartContainer, RestartFails, RemoveContainer, RemoveFails,
         At, jobVars, worldVars
<1>3. a \in Agents
  BY <1>1, <1>2 DEF Fit
<1>4. \/ box' = box
      \/ box' = [box EXCEPT ![a] = NoBox]
      \/ HasBox(a, snap[w].cid) /\ \E b \in BOOLEAN : box' = [box EXCEPT ![a].up = b]
  BY DEF StartContainer, StopContainer, RestartContainer, RestartFails, RemoveContainer, RemoveFails,
         worldVars
<1>5. \/ \A b \in Agents : box'[b].there = box[b].there /\ box'[b].id = box[b].id
      \/ ~box'[a].there /\ \A b \in Agents \ {a} : box'[b] = box[b]
  <2>1. CASE box' = box
    BY <2>1
  <2>2. CASE box' = [box EXCEPT ![a] = NoBox]
    BY <1>1, <1>3, <2>2 DEF WorldTypes, NoBox
  <2>3. ASSUME HasBox(a, snap[w].cid), NEW b \in BOOLEAN, box' = [box EXCEPT ![a].up = b]
        PROVE  \A c \in Agents : box'[c].there = box[c].there /\ box'[c].id = box[c].id
    BY <1>1, <1>3, <2>3 DEF WorldTypes, Boxes, HasBox, NoBox
  <2> QED
    BY <1>4, <2>1, <2>2, <2>3
<1>6. \A b \in Agents : OwnedBy(w, b)'
  <2>1. ASSUME NEW b \in Agents, box'[b].there = box[b].there, box'[b].id = box[b].id
        PROVE  OwnedBy(w, b)'
    BY <1>2, <2>1, OwnedBySame DEF WorldOf
  <2>2. ~box'[a].there => OwnedBy(w, a)'
    BY <1>2 DEF OwnedBy, Unowned
  <2>3. a = at'[w]
    BY <1>2
  <2> QED
    BY <1>5, <2>1, <2>2, <2>3
<1>7. back[w] # "delete"
  BY <1>2, LifecycleCalm
<1>8. InTurn(w)'
  <2>1. CASE StopContainer(w) \/ RestartFails(w) \/ RemoveFails(w)
    <3>1. pc'[w] = "stopped"
      BY <1>1, <2>1 DEF StopContainer, RestartFails, RemoveFails, At, Go, WorkerTypes
    <3> QED
      BY <1>2, <1>7, <3>1, InTurnFree
  <2>2. CASE RemoveContainer(w)
    <3>1. pc'[w] = "reread" /\ ~box'[a].there
      BY <1>1, <1>3, <2>2 DEF RemoveContainer, At, Go, WorkerTypes, WorldTypes, NoBox
    <3>2. Starting(w)'
      BY <1>2, <3>1 DEF Starting
    <3> QED
      BY <1>2, <1>7, <3>1, <3>2, InTurnStarting
  <2>3. CASE StartContainer(w) \/ RestartContainer(w)
    <3>1. /\ pc[w] \in {"start box", "restart box"} /\ pc'[w] = "running"
          /\ HasBox(a, snap[w].cid) /\ box' = [box EXCEPT ![a].up = TRUE]
      BY <1>1, <2>3 DEF StartContainer, RestartContainer, At, Go, WorkerTypes
    <3>2. snap[w].cid = row[a].cid
      BY <3>1 DEF InTurn, Starting, SameRow
    <3>3. box'[a].up /\ box'[a].id = box[a].id
      <4>1. box[a] \in Boxes /\ box[a] # NoBox
        <5>1. box[a] \in Boxes
          BY <1>1, <1>3 DEF WorldTypes
        <5>2. NoBox.there = FALSE
          BY DEF NoBox
        <5> QED
          BY <3>1, <5>1, <5>2 DEF HasBox
      <4>2. box[a] \in [id : Ids, up : BOOLEAN, there : BOOLEAN]
        BY <4>1 DEF Boxes
      <4> QED
        BY <1>1, <1>3, <3>1, <4>2 DEF WorldTypes
    <3>4. Starting(w)'
      BY <1>2, <3>1, <3>2, <3>3 DEF Starting, HasBox
    <3> QED
      BY <1>2, <1>7, <3>1, <3>4, InTurnStarting
  <2> QED
    BY <2>1, <2>2, <2>3
<1> QED
  BY <1>2, <1>6, <1>8, SerialPlain, UnchangedShape

LEMMA SerialReads ==
  ASSUME Typed, NEW w \in Workers, Aside(w), WorldOf(w), InTurn(w),
         ReadForStop(w) \/ ReadForRecreate(w)
  PROVE  WorldOf(w)' /\ InTurn(w)'
<1> DEFINE a == at[w]
<1>1. WorkerTypes /\ WorldTypes /\ Fit(w)
  BY TypedParts
<1>2. pc[w] \in {"stop", "reread"} /\ row' = row /\ box' = box /\ leaked' = leaked
      /\ UNCHANGED <<file, behind>>
  BY DEF ReadForStop, ReadForRecreate, At, worldVars
<1>3. a \in Agents
  BY <1>1, <1>2 DEF Fit
<1>4. back[w] # "delete"
  BY <1>2, LifecycleCalm
<1>5. \A b \in Agents : OwnedBy(w, b)'
  BY <1>2, OwnedFrame, UnchangedShape DEF WorldOf
<1>6. InTurn(w)'
  <2>1. CASE ReadForStop(w)
    <3>1. back'[w] # "delete" /\ pc'[w] \in {"idle", "stop box", "stopped"}
      BY <1>1, <1>4, <2>1 DEF ReadForStop, Finish, At, Go, jobVars, WorkerTypes
    <3> QED
      BY <3>1, InTurnFree
  <2>2. CASE ReadForRecreate(w) /\ ~Exists(a)
    <3>1. back'[w] # "delete" /\ pc'[w] = "stopped"
      BY <1>1, <1>4, <2>2 DEF ReadForRecreate, At, Go, jobVars, WorkerTypes
    <3> QED
      BY <3>1, InTurnFree
  <2>3. CASE ReadForRecreate(w) /\ Exists(a)
    <3>1. /\ pc[w] = "reread" /\ back'[w] # "delete" /\ pc'[w] = "forget" /\ at'[w] = a
          /\ snap'[w] = [row[a] EXCEPT !.cid = 0]
      BY <1>1, <1>4, <2>3 DEF ReadForRecreate, At, Go, jobVars, WorkerTypes
    <3>2. row[a] \in Rows
      BY <1>1, <1>3, <2>3 DEF Exists, WorldTypes
    <3>3. snap'[w].cid = 0 /\ row[a] = [snap'[w] EXCEPT !.cid = row[a].cid]
      BY <3>1, <3>2 DEF Rows
    <3>4. SameButCid(w)'
      BY <1>2, <2>3, <3>1, <3>3 DEF SameButCid, Exists
    <3>5. ~box[a].there
      BY <3>1 DEF InTurn, Starting
    <3>6. Starting(w)'
      BY <1>2, <3>1, <3>3, <3>4, <3>5 DEF Starting
    <3> QED
      BY <3>1, <3>6, InTurnStarting
  <2> QED
    BY <2>1, <2>2, <2>3
<1> QED
  BY <1>2, <1>5, <1>6, SerialPlain, UnchangedShape

-----------------------------------------------------------------------------
(* Requests that arrive.                                                   *)

LEMMA IdleCalm ==
  ASSUME NEW w \in Workers, Fit(w), pc[w] = "idle"
  PROVE  Calm(w) /\ back[w] # "delete" /\ adds[w] = {} /\ removes[w] = {}
BY DEF Fit, Idle, Calm

LEMMA SerialRequest ==
  ASSUME Typed, NEW w \in Workers, Aside(w), WorldOf(w), InTurn(w), NEW a \in Agents,
         \/ StartAgent(w, a) \/ StopAgent(w, a) \/ RestartAgent(w, a) \/ RecreateAgent(w, a)
         \/ SyncPeers(w, a)
  PROVE  WorldOf(w)' /\ InTurn(w)'
<1>1. WorkerTypes /\ WorldTypes /\ Fit(w)
  BY TypedParts
<1>2. pc[w] = "idle" /\ row' = row /\ box' = box /\ leaked' = leaked /\ UNCHANGED <<file, behind>>
  BY DEF StartAgent, StopAgent, RestartAgent, RecreateAgent, SyncPeers, Begin, worldVars
<1>3. \A b \in Agents : OwnedBy(w, b)'
  BY <1>2, OwnedFrame, UnchangedShape DEF WorldOf
<1>4. InTurn(w)'
  <2>1. CASE StartAgent(w, a) \/ StopAgent(w, a) \/ RecreateAgent(w, a)
    <3>1. back'[w] # "delete" /\ pc'[w] \in {"start", "stop", "recreating"}
      BY <1>1, <2>1 DEF StartAgent, StopAgent, RecreateAgent, Begin, Go, WorkerTypes
    <3> QED
      BY <3>1, InTurnFree
  <2>2. CASE RestartAgent(w, a)
    <3>1. /\ back'[w] # "delete" /\ pc'[w] = "restarting" /\ at'[w] = a /\ snap'[w] = row[a]
          /\ Exists(a)
      BY <1>1, <2>2 DEF RestartAgent, HasContainer, Read, Begin, Go, WorkerTypes
    <3>2. Starting(w)'
      BY <1>2, <3>1 DEF Starting, Exists
    <3> QED
      BY <3>1, <3>2, InTurnStarting
  <2>3. CASE SyncPeers(w, a)
    <3>1. /\ back'[w] # "delete" /\ pc'[w] = "regen" /\ at'[w] = a /\ snap'[w] = row[a] /\ Exists(a)
      BY <1>1, <2>3 DEF SyncPeers, Read, Begin, Go, WorkerTypes
    <3>2. Syncing(w)'
      BY <1>2, <3>1 DEF Syncing, SameRow, Exists
    <3> QED
      BY <3>1, <3>2 DEF InTurn, Starting, Editing, Deleting
  <2> QED
    BY <2>1, <2>2, <2>3
<1> QED
  BY <1>2, <1>3, <1>4, SerialPlain, UnchangedShape

LEMMA SerialCreateAgent ==
  ASSUME Typed, NEW w \in Workers, Aside(w), WorldOf(w), InTurn(w), NEW a \in Agents,
         NEW type \in Types, NEW peers \in Choices(a), CreateAgent(w, a, type, peers)
  PROVE  WorldOf(w)' /\ InTurn(w)'
<1> DEFINE r == [type |-> type, cid |-> 0, peers |-> peers, status |-> InitialStatus(type)]
<1>1. WorkerTypes /\ WorldTypes /\ Fit(w)
  BY TypedParts
<1>2. pc[w] = "idle" /\ adds[w] = {} /\ removes[w] = {}
  BY <1>1, IdleCalm DEF CreateAgent, Begin
<1>3. /\ row[a] = NoRow /\ pc'[w] = "sync" /\ at'[w] = a /\ back'[w] = "create"
      /\ row' = [row EXCEPT ![a] = r] /\ behind' = [behind EXCEPT ![a] = TRUE]
      /\ adds'[w] = peers /\ removes'[w] = {} /\ UNCHANGED <<box, file, leaked>>
  BY <1>1, <1>2 DEF CreateAgent, Exists, Begin, Go, WorkerTypes
<1>4. r.cid = 0 /\ r.peers = peers /\ r # NoRow
  <2>1. r \in Rows
    BY DEF Choices, Rows, InitialStatus, Statuses
  <2> QED
    BY <2>1, NoRowIsNoRow
<1>5. peers \in SUBSET Agents /\ \A p \in peers : p # a /\ Exists(p)
  BY DEF Choices
<1>6. Plain(w)
  BY <1>1, <1>2, IdleCalm, CalmWorld
<1> HIDE DEF r
<1>7. row'[a] = r /\ \A b \in Agents \ {a} : row'[b] = row[b]
  BY <1>1, <1>3 DEF WorldTypes
<1>8. \A b \in Agents : Exists(b)' <=> Exists(b) \/ b = a
  BY <1>4, <1>7 DEF Exists
<1>9. \A b \in Agents : OwnedBy(w, b)'
  <2>1. \A b \in Agents : row'[b].cid = row[b].cid
    BY <1>3, <1>4, <1>7, NoRowFields
  <2> QED
    BY <1>2, <1>3, <2>1, OwnedFrame DEF WorldOf
<1>10. ASSUME NEW b \in Agents PROVE FollowsBy(w, b)'
  <2>1. CASE b = a
    BY <1>1, <1>3, <2>1 DEF FollowsBy, Follow, WorldTypes
  <2>2. CASE b # a
    <3>1. FollowsBy(w, b) /\ row'[b] = row[b] /\ behind'[b] = behind[b] /\ file' = file
      BY <1>1, <1>3, <1>7, <2>2 DEF WorldOf, WorldTypes
    <3> QED
      BY <1>2, <3>1, FollowsBySame DEF Regenerating
  <2> QED
    BY <2>1, <2>2
<1>11. ASSUME NEW b \in Agents, NEW c \in Agents PROVE MutualBy(w, b, c)'
  <2>1. CASE b = a
    BY <1>3, <1>4, <1>7, <2>1 DEF MutualBy, Settling
  <2>2. CASE b # a
    <3>1. MutualBy(w, b, c) /\ row'[b] = row[b] /\ (c # a => row'[c] = row[c])
      BY <1>7, <2>2 DEF WorldOf
    <3>2. a \notin row[b].peers
      BY <1>3, <1>6 DEF Plain, PeersExist, Exists
    <3>3. Settling(w, b, c) => b \in row[c].peers \/ c \notin row[b].peers
      BY <1>1, <1>2, IdleCalm DEF CreateAgent, Begin, Settling
    <3>4. CASE c = a
      BY <3>1, <3>2, <3>4 DEF MutualBy
    <3> QED
      BY <3>1, <3>3, <3>4, MutualBySame
  <2> QED
    BY <2>1, <2>2
<1>12. PeersExist'
  <2>1. ASSUME NEW b \in Agents, NEW p \in row'[b].peers PROVE p # b /\ Exists(p)'
    <3>1. CASE b = a
      BY <1>4, <1>5, <1>7, <1>8, <3>1
    <3>2. CASE b # a
      <4>1. p \in row[b].peers /\ p \in Agents
        BY <1>1, <1>7, <3>2, RowChanges, NoRowFields DEF WorldTypes
      <4>2. p # b /\ Exists(p)
        BY <1>6, <4>1 DEF Plain, PeersExist
      <4> QED
        BY <1>8, <4>1, <4>2
    <3> QED
      BY <3>1, <3>2
  <2> QED
    BY <2>1 DEF PeersExist
<1>13. WorldOf(w)'
  BY <1>9, <1>10, <1>11, <1>12 DEF WorldOf
<1>14. Syncing(w)'
  BY <1>3, <1>4, <1>5, <1>7, <1>8 DEF Syncing
<1>15. InTurn(w)'
  BY <1>3, <1>14 DEF InTurn, Starting, Editing, Deleting
<1> QED
  BY <1>13, <1>15

LEMMA SerialUpdateAgent ==
  ASSUME Typed, NEW w \in Workers, Aside(w), WorldOf(w), InTurn(w), NEW a \in Agents,
         NEW type \in Types, NEW fields \in BOOLEAN, NEW peers \in Choices(a), NEW given \in BOOLEAN,
         UpdateAgent(w, a, type, fields, peers, given)
  PROVE  WorldOf(w)' /\ InTurn(w)'
<1> DEFINE r == row[a]
           s == [r EXCEPT !.type = type, !.peers = IF given THEN peers ELSE @]
<1>1. WorkerTypes /\ WorldTypes /\ Fit(w)
  BY TypedParts
<1>2. /\ pc[w] = "idle" /\ pc'[w] \in {"discard", "save"} /\ at'[w] = a
      /\ back'[w] = IF given THEN "peers" ELSE "update"
      /\ snap'[w] = s /\ Exists(a)
      /\ adds'[w] = (IF given THEN peers \ r.peers ELSE {})
      /\ removes'[w] = (IF given THEN r.peers \ peers ELSE {})
      /\ row' = row /\ box' = box /\ leaked' = leaked /\ UNCHANGED <<file, behind>>
  BY <1>1 DEF UpdateAgent, Begin, Go, WorkerTypes, worldVars
<1>3. r \in Rows
  BY <1>1, <1>2 DEF Exists, WorldTypes
<1>4. s.status = r.status /\ s.cid = r.cid /\ s.peers = IF given THEN peers ELSE r.peers
  BY <1>3 DEF Rows
<1> HIDE DEF s
<1>5. Plain(w)
  BY <1>1, <1>2, IdleCalm, CalmWorld
<1>6. \A p \in s.peers : p # a /\ Exists(p)
  BY <1>4, <1>5 DEF Plain, PeersExist, Choices
<1>f. ~Foreign(w, a)
  BY <1>2, OwnAgents DEF Busy
<1>7. Unowned(a) \/ s.cid = box[a].id
  BY <1>2, <1>4, <1>f DEF WorldOf, OwnedBy
<1>8. Editing(w)'
  <2>1. snap'[w].status \in {row'[at'[w]].status, "stopped"}
    BY <1>2, <1>4
  <2>2. Exists(a)' /\ at'[w] \notin snap'[w].peers /\ \A p \in snap'[w].peers : Exists(p)'
    BY <1>2, <1>6 DEF Exists
  <2>3. Unowned(a)' \/ snap'[w].cid = box'[a].id
    BY <1>2, <1>7 DEF Unowned
  <2> QED
    BY <1>2, <1>4, <2>1, <2>2, <2>3 DEF Editing
<1>9. InTurn(w)'
  BY <1>2, <1>8 DEF InTurn, Starting, Syncing, Deleting
<1>10. \A b \in Agents : OwnedBy(w, b)'
  BY <1>2, OwnedFrame, UnchangedShape DEF WorldOf
<1> QED
  BY <1>2, <1>9, <1>10, SerialPlain, UnchangedShape

LEMMA SerialDeleteAgent ==
  ASSUME Typed, NEW w \in Workers, Aside(w), WorldOf(w), InTurn(w), NEW a \in Agents,
         DeleteAgent(w, a)
  PROVE  WorldOf(w)' /\ InTurn(w)'
<1>1. WorkerTypes /\ WorldTypes /\ Fit(w)
  BY TypedParts
<1>2. pc[w] = "idle" /\ adds[w] = {}
  BY <1>1, IdleCalm DEF DeleteAgent, Begin
<1>3. /\ pc'[w] = "sync" /\ at'[w] = a /\ back'[w] = "delete" /\ snap'[w] = row[a] /\ Exists(a)
      /\ removes'[w] = row[a].peers /\ adds'[w] = {}
      /\ row' = row /\ box' = box /\ leaked' = leaked /\ UNCHANGED <<file, behind>>
  BY <1>1, <1>2 DEF DeleteAgent, Begin, Go, Read, FormerPeers, WorkerTypes, worldVars
<1>4. Plain(w)
  BY <1>1, <1>2, IdleCalm, CalmWorld
<1>f. ~Foreign(w, a)
  BY <1>3, OwnAgents DEF Busy
<1>5. a \notin row[a].peers /\ \A b \in Agents : a \in row[b].peers => b \in row[a].peers
  BY <1>4, <1>f DEF Plain, PeersExist, Each
<1>6. Syncing(w)' /\ Deleting(w)'
  <2>1. Syncing(w)'
    BY <1>3, <1>5 DEF Syncing, Exists
  <2>2. Deleting(w)'
    BY <1>3, <1>5 DEF Deleting, Exists
  <2> QED
    BY <2>1, <2>2
<1>7. InTurn(w)'
  BY <1>3, <1>6 DEF InTurn, Starting, Editing
<1>8. \A b \in Agents : OwnedBy(w, b)'
  BY <1>2, <1>3, OwnedFrame, UnchangedShape DEF WorldOf
<1> QED
  BY <1>2, <1>3, <1>7, <1>8, SerialPlain, UnchangedShape

-----------------------------------------------------------------------------
(* Edits and deletions.                                                    *)

LEMMA NoIdNoBox ==
  ASSUME WorldTypes, NEW a \in Agents, box[a].id = 0
  PROVE  Unowned(a)
<1>1. box[a] \in Boxes
  BY DEF WorldTypes
<1>2. NoBox.there = FALSE
  BY DEF NoBox
<1>3. ~box[a].there
  BY <1>1, <1>2, IdsAreNumbers DEF Boxes
<1> QED
  BY <1>3 DEF Unowned

LEMMA SerialDiscard ==
  ASSUME Typed, NEW w \in Workers, Aside(w), WorldOf(w), InTurn(w), Discard(w)
  PROVE  WorldOf(w)' /\ InTurn(w)'
<1> DEFINE a == at[w]
<1>1. WorkerTypes /\ WorldTypes /\ Fit(w)
  BY TypedParts
<1>2. /\ pc[w] = "discard" /\ at'[w] = a /\ back' = back /\ adds' = adds /\ removes' = removes
      /\ pc'[w] = IF back[w] = "delete" THEN "delete" ELSE "save"
      /\ snap'[w] = [snap[w] EXCEPT !.cid = 0, !.status = "stopped"]
      /\ leaked' = [leaked EXCEPT ![a] = box'[a].there]
      /\ row' = row /\ file' = file /\ behind' = behind
  BY <1>1 DEF Discard, At, Go, jobVars, syncVars, WorkerTypes
<1>3. a \in Agents /\ snap[w] \in Rows
  BY <1>1, <1>2 DEF Fit, HasRow
<1>4. \A b \in Agents \ {a} : box'[b] = box[b] /\ leaked'[b] = leaked[b]
  BY <1>1, <1>2, <1>3 DEF Discard, WorldTypes
<1>5. box'[a].there => leaked'[a]
  BY <1>1, <1>2, <1>3 DEF WorldTypes
<1>6. ASSUME NEW b \in Agents PROVE OwnedBy(w, b)'
  <2>1. CASE b = a
    BY <1>5, <2>1 DEF OwnedBy, Unowned
  <2>2. CASE b # a
    BY <1>2, <1>4, <2>2, OwnedBySame DEF WorldOf
  <2> QED
    BY <2>1, <2>2
<1>7. \A b \in Agents : FollowsBy(w, b)'
  BY <1>2, FollowsBySame DEF WorldOf, Regenerating
<1>8. \A b, c \in Agents : MutualBy(w, b, c)'
  BY <1>2, MutualBySame DEF WorldOf, Settling
<1>9. WorldOf(w)'
  BY <1>2, <1>6, <1>7, <1>8 DEF WorldOf, PeersExist, Exists
<1>10. snap'[w].peers = snap[w].peers /\ snap'[w].status = "stopped"
  BY <1>2, <1>3 DEF Rows
<1>11. Editing(w)'
  BY <1>2, <1>5, <1>10 DEF InTurn, Editing, Exists, Unowned
<1>12. Deleting(w)'
  BY <1>2, <1>5, <1>10 DEF InTurn, Deleting, Unowned, Exists
<1>13. InTurn(w)'
  BY <1>2, <1>11, <1>12 DEF InTurn, Starting, Syncing
<1> QED
  BY <1>9, <1>13

LEMMA SerialSave ==
  ASSUME Typed, NEW w \in Workers, Aside(w), WorldOf(w), InTurn(w), Save(w)
  PROVE  WorldOf(w)' /\ InTurn(w)'
<1> DEFINE a == at[w]
           s == snap[w]
<1>1. WorkerTypes /\ WorldTypes /\ Fit(w)
  BY TypedParts
<1>2. /\ pc[w] = "save" /\ Update(a, s) /\ box' = box /\ file' = file /\ leaked' = leaked
      /\ behind' = [behind EXCEPT ![a] = @ \/ (s.peers # row[a].peers /\ ~Due(s))]
  BY DEF Save
<1>3. a \in Agents /\ s \in Rows
  BY <1>1, <1>2 DEF Fit, HasRow
<1>4. Calm(w) /\ back[w] # "delete" /\ Plain(w)
  BY <1>2, LifecycleCalm, CalmWorld
<1>f. ~Foreign(w, a)
  BY <1>2, OwnAgents DEF Busy
<1>5. Editing(w) /\ Exists(a)
  BY <1>2, <1>4 DEF InTurn, Editing
<1>6. row' = [row EXCEPT ![a] = s]
  BY <1>2, <1>5 DEF Update
<1>7. row'[a] = s /\ s # NoRow /\ \A b \in Agents \ {a} : row'[b] = row[b]
  BY <1>1, <1>3, <1>6, NoRowIsNoRow DEF WorldTypes
<1>8. \A b \in Agents : Exists(b)' <=> Exists(b)
  <2>1. row[a] # NoRow
    BY <1>5 DEF Exists
  <2> QED
    BY <1>7, <2>1 DEF Exists
<1>9. Unowned(a) \/ s.cid = box[a].id
  BY <1>2, <1>4, <1>5 DEF Editing
<1>10. ASSUME NEW b \in Agents PROVE OwnedBy(w, b)'
  <2>1. CASE b = a
    BY <1>2, <1>7, <1>9, <2>1 DEF OwnedBy, Unowned
  <2>2. CASE b # a
    BY <1>2, <1>7, <2>2, OwnedBySame DEF WorldOf
  <2> QED
    BY <2>1, <2>2
<1>11. CASE back[w] # "peers"
  <2>1. s.peers = row[a].peers
    BY <1>2, <1>4, <1>5, <1>11 DEF Editing
  <2>2. SameShape
    BY <1>7, <1>8, <2>1 DEF SameShape
  <2>3. behind' = behind
    BY <1>1, <1>2, <1>3, <2>1 DEF WorldTypes
  <2>4. Plain(w)'
    BY <1>1, <1>2, <1>4, <2>2, <2>3, PlainFrame DEF SameShape
  <2>5. back'[w] # "delete" /\ pc'[w] = "idle"
    BY <1>1, <1>11 DEF Save, Finish, Go, WorkerTypes
  <2> QED
    BY <1>10, <2>4, <2>5, InTurnFree, PlainWorld
<1>12. CASE back[w] = "peers"
  <2>1. /\ pc'[w] = "sync" /\ at' = at /\ back' = back /\ snap' = snap /\ adds' = adds
        /\ removes' = removes
    BY <1>1, <1>12 DEF Save, Go, jobVars, syncVars, WorkerTypes
  <2>2. /\ a \notin s.peers /\ (\A p \in s.peers : Exists(p))
        /\ adds[w] = s.peers \ row[a].peers /\ removes[w] = row[a].peers \ s.peers
    BY <1>2, <1>4, <1>5, <1>12 DEF Editing
  <2>3. a \notin row[a].peers
    BY <1>3, <1>4 DEF Plain, PeersExist
  <2>4. ASSUME NEW b \in Agents PROVE FollowsBy(w, b)'
    <3>1. CASE b # a
      <4>1. FollowsBy(w, b) /\ row'[b] = row[b] /\ behind'[b] = behind[b] /\ file'[b] = file[b]
        BY <1>1, <1>2, <1>7, <3>1 DEF WorldOf, WorldTypes
      <4> QED
        BY <3>1, <4>1, FollowsBySame
    <3>2. CASE b = a /\ Due(s)
      BY <1>12, <2>1, <3>2 DEF FollowsBy, Regenerating
    <3>3. CASE b = a /\ ~Due(s)
      <4>1. behind'[a] = (behind[a] \/ s.peers # row[a].peers)
        BY <1>1, <1>2, <1>3, <3>3 DEF WorldTypes
      <4>2. behind[a] \/ file[a] = row[a].peers
        BY <1>f, <1>3, <1>4, <1>5 DEF Plain, Follow
      <4>3. behind'[a] \/ file'[a] = row'[a].peers
        BY <1>2, <1>7, <4>1, <4>2
      <4> QED
        BY <2>1, <3>3, <4>3 DEF FollowsBy, Follow
    <3> QED
      BY <3>1, <3>2, <3>3
  <2>5. ASSUME NEW b \in Agents, NEW c \in Agents PROVE MutualBy(w, b, c)'
    <3>1. c \in row[b].peers /\ (b = a \/ c = a) => b \in row[c].peers
      BY <1>f, <1>4 DEF Plain, Each
    <3>2. CASE b = a
      <4>1. c \in s.peers => c # a /\ (a \in row[c].peers \/ c \in adds[w])
        BY <2>2, <3>1, <3>2
      <4> QED
        BY <1>7, <2>1, <3>2, <4>1 DEF MutualBy, Each, Settling
    <3>3. CASE b # a /\ c = a
      <4>1. a \in row[b].peers => b \in s.peers \/ b \in removes[w]
        BY <2>2, <3>1, <3>3
      <4> QED
        BY <1>7, <2>1, <3>3, <4>1 DEF MutualBy, Each, Settling
    <3>4. CASE b # a /\ c # a
      <4>1. MutualBy(w, b, c) /\ ~Settling(w, b, c)
        BY <1>2, <1>4, <3>4 DEF WorldOf, Settling
      <4> QED
        BY <1>7, <3>4, <4>1, MutualBySame
    <3> QED
      BY <3>2, <3>3, <3>4
  <2>6. PeersExist'
    <3>1. ASSUME NEW b \in Agents, NEW p \in row'[b].peers PROVE p # b /\ Exists(p)'
      <4>0. row'[b].peers \in SUBSET Agents
        BY <1>1, <1>3, <1>7, RowChanges, NoRowFields DEF WorldTypes
      <4>1. CASE b = a
        BY <1>7, <1>8, <2>2, <3>1, <4>0, <4>1
      <4>2. CASE b # a
        BY <1>4, <1>7, <1>8, <3>1, <4>0, <4>2 DEF Plain, PeersExist
      <4> QED
        BY <4>1, <4>2
    <3> QED
      BY <3>1 DEF PeersExist
  <2>7. WorldOf(w)'
    BY <1>10, <2>4, <2>5, <2>6 DEF WorldOf
  <2>8. Syncing(w)'
    BY <1>3, <1>7, <2>1, <2>2, <2>3 DEF Syncing, Exists
  <2>9. InTurn(w)'
    BY <1>12, <2>1, <2>8 DEF InTurn, Starting, Editing, Deleting
  <2> QED
    BY <2>7, <2>9
<1> QED
  BY <1>11, <1>12

LEMMA SerialRegenerate ==
  ASSUME Typed, NEW w \in Workers, Aside(w), WorldOf(w), InTurn(w), RegenerateOwn(w)
  PROVE  WorldOf(w)' /\ InTurn(w)'
<1>a. PICK a \in Agents : a = at[w]
  BY DEF Typed, Fit, RegenerateOwn
<1>1. WorkerTypes /\ WorldTypes /\ Fit(w)
  BY TypedParts
<1>2. /\ pc[w] = "regen" /\ row' = row /\ box' = box /\ leaked' = leaked
      /\ IF Due(snap[w]) THEN WriteFile(a, snap[w]) ELSE UNCHANGED <<file, behind>>
  BY <1>a DEF RegenerateOwn
<1>3. SameRow(w) /\ back[w] # "delete"
  BY <1>1, <1>2 DEF Fit, InTurn, Syncing, Deleting
<1>f. \A b \in Agents : Foreign(w, b)' <=> Foreign(w, b)
  BY OwnAgents
<1>4. \A b, c \in Agents : c \in row'[b].peers => Each(w, b, c)'
  BY <1>f, <1>2, <1>3 DEF WorldOf, MutualBy, Settling, Each
<1>5. \A b \in Agents : Foreign(w, b)' \/ Follow(b)'
  <2>1. CASE Due(snap[w])
    <3>1. Listed(snap[w]) = row[a].peers
      BY <1>a, <1>3, ListedAll DEF WorldOf, SameRow
    <3>2. file' = [file EXCEPT ![a] = row[a].peers] /\ behind' = [behind EXCEPT ![a] = FALSE]
      BY <1>2, <2>1, <3>1 DEF WriteFile
    <3>3. \A b \in Agents \ {a} : Foreign(w, b) \/ Follow(b)
      BY <1>a DEF WorldOf, FollowsBy
    <3>4. Follow(a)'
      BY <1>1, <1>2, <1>3, <3>2 DEF Follow, WorldTypes
    <3>5. \A b \in Agents \ {a} : Follow(b) => Follow(b)'
      BY <1>1, <1>2, <3>2, FollowSame DEF WorldTypes
    <3> QED
      BY <1>f, <3>3, <3>4, <3>5
  <2>2. CASE ~Due(snap[w])
    <3>1. \A b \in Agents : Foreign(w, b) \/ Follow(b)
      BY <2>2 DEF WorldOf, FollowsBy, Regenerating
    <3> QED
      BY <1>f, <1>2, <2>2, <3>1, FollowSame
  <2> QED
    BY <2>1, <2>2
<1>6. Plain(w)'
  BY <1>2, <1>4, <1>5 DEF Plain, WorldOf, PeersExist, Exists
<1>7. \A b \in Agents : OwnedBy(w, b)'
  BY <1>2, OwnedFrame, UnchangedShape DEF WorldOf
<1>8. back'[w] # "delete" /\ pc'[w] = "idle"
  BY <1>1 DEF RegenerateOwn, Finish, Go, WorkerTypes
<1> QED
  BY <1>6, <1>7, <1>8, InTurnFree, PlainWorld

LEMMA SerialDeleteRow ==
  ASSUME Typed, NEW w \in Workers, Aside(w), WorldOf(w), InTurn(w), DeleteRow(w)
  PROVE  WorldOf(w)' /\ InTurn(w)'
<1> DEFINE a == at[w]
<1>1. WorkerTypes /\ WorldTypes /\ Fit(w)
  BY TypedParts
<1>2. /\ pc[w] = "delete" /\ row' = [row EXCEPT ![a] = NoRow] /\ box' = box /\ leaked' = leaked
      /\ UNCHANGED <<file, behind>> /\ pc'[w] = "idle" /\ back'[w] = "none"
  BY <1>1 DEF DeleteRow, Finish, Go, WorkerTypes
<1>3. a \in Agents /\ Unowned(a) /\ \A b \in Agents : a \notin row[b].peers
  BY <1>1, <1>2 DEF Fit, InTurn, Deleting
<1>4. row'[a] = NoRow /\ \A b \in Agents \ {a} : row'[b] = row[b]
  BY <1>1, <1>2, <1>3 DEF WorldTypes
<1>5. ASSUME NEW b \in Agents PROVE OwnedBy(w, b)'
  <2>1. CASE b = a
    BY <1>2, <1>3, <2>1 DEF OwnedBy, Unowned
  <2>2. CASE b # a
    BY <1>2, <1>4, <2>2, OwnedBySame DEF WorldOf
  <2> QED
    BY <2>1, <2>2
<1>f. \A b \in Agents : Foreign(w, b)' <=> Foreign(w, b)
  BY OwnAgents
<1>6. ASSUME NEW b \in Agents PROVE Foreign(w, b)' \/ Follow(b)'
  <2>1. CASE b = a
    BY <1>4, <2>1 DEF Follow, Exists
  <2>2. CASE b # a
    <3>1. Foreign(w, b) \/ Follow(b)
      BY <2>2 DEF WorldOf, FollowsBy
    <3> QED
      BY <1>f, <1>2, <1>4, <2>2, <3>1, FollowSame
  <2> QED
    BY <2>1, <2>2
<1>7. ASSUME NEW b \in Agents, NEW c \in row'[b].peers
      PROVE  Each(w, b, c)' /\ c # b /\ Exists(c)'
  <2>1. b # a
    BY <1>4, <1>7, NoRowFields
  <2>2. c \in row[b].peers /\ c # a /\ c \in Agents
    BY <1>1, <1>3, <1>4, <1>7, <2>1, RowChanges, NoRowFields DEF WorldTypes
  <2>3. Each(w, b, c)
    BY <1>2, <2>1, <2>2 DEF WorldOf, MutualBy, Settling
  <2>4. c # b /\ Exists(c)
    BY <2>2 DEF WorldOf, PeersExist
  <2> QED
    BY <1>f, <1>4, <2>2, <2>3, <2>4 DEF Exists, Each
<1>8. Plain(w)'
  <2>1. \A b, c \in Agents : c \in row'[b].peers => Each(w, b, c)'
    BY <1>7
  <2>2. PeersExist'
    BY <1>7 DEF PeersExist
  <2> QED
    BY <1>6, <2>1, <2>2 DEF Plain
<1> QED
  BY <1>2, <1>5, <1>8, InTurnFree, PlainWorld

-----------------------------------------------------------------------------
(* The peers of an agent, one after the other.                             *)

LEMMA SerialReadPeer ==
  ASSUME Typed, NEW w \in Workers, Aside(w), WorldOf(w), InTurn(w), NEW p \in Agents,
         ReadPeer(w, p)
  PROVE  WorldOf(w)' /\ InTurn(w)'
<1> DEFINE a == at[w]
<1>1. WorkerTypes /\ WorldTypes /\ Fit(w)
  BY TypedParts
<1>2. /\ pc[w] = "sync" /\ p \in Pending(w) /\ at' = at /\ back' = back /\ snap' = snap
      /\ row' = row /\ box' = box /\ file' = file /\ behind' = behind /\ leaked' = leaked
  BY DEF ReadPeer, At, jobVars, worldVars
<1>3. a \in Agents /\ Syncing(w) /\ Deleting(w) /\ Exists(a) /\ p # a
  BY <1>1, <1>2 DEF Fit, InTurn, Syncing, Pending
<1>4. CASE Exists(p) /\ Changed(w, p) # row[p].peers
  <2>1. /\ pc'[w] = "write peer" /\ adds' = adds /\ removes' = removes /\ other'[w] = p
        /\ copy'[w] = [row[p] EXCEPT !.peers = Changed(w, p)]
    BY <1>1, <1>4 DEF ReadPeer, At, Go, WorkerTypes
  <2>2. Pending(w)' = Pending(w) /\ Changed(w, p)' = Changed(w, p)
    BY <1>2, <2>1 DEF Pending, Changed
  <2>3. WorldOf(w)'
    <3>1. \A b \in Agents : OwnedBy(w, b)' /\ FollowsBy(w, b)'
      BY <1>2, <2>1, OwnedBySame, FollowsBySame DEF WorldOf, Regenerating
    <3>2. \A b, c \in Agents : MutualBy(w, b, c)'
      BY <1>2, <2>1, MutualBySame DEF WorldOf, Settling
    <3> QED
      BY <1>2, <3>1, <3>2 DEF WorldOf, PeersExist, Exists
  <2>4. Syncing(w)'
    <3>1. Exists(p)'
      BY <1>2, <1>4 DEF Exists
    <3>2. p \in Pending(w)' /\ copy'[w] = [row'[p] EXCEPT !.peers = Changed(w, p)']
      BY <1>2, <2>1, <2>2
    <3>3. /\ Exists(a)' /\ a \notin adds'[w] \cup removes'[w] /\ adds'[w] \subseteq row'[a].peers
          /\ back'[w] = "delete" \/ removes'[w] \cap row'[a].peers = {}
          /\ back'[w] # "create" => snap'[w] = row'[a]
      BY <1>2, <1>3, <2>1 DEF Syncing, Exists
    <3> QED
      BY <1>2, <2>1, <3>1, <3>2, <3>3 DEF Syncing
  <2>5. Deleting(w)'
    BY <1>2, <1>3, <2>1 DEF Deleting, Exists
  <2>6. InTurn(w)'
    BY <2>1, <2>4, <2>5 DEF InTurn, Starting, Editing
  <2> QED
    BY <2>3, <2>6
<1>5. CASE ~(Exists(p) /\ Changed(w, p) # row[p].peers)
  <2>1. /\ pc'[w] = "sync" /\ adds'[w] = adds[w] \ {p}
        /\ removes'[w] = IF p \in adds[w] THEN removes[w] ELSE removes[w] \ {p}
    BY <1>1, <1>5 DEF ReadPeer, At, Go, Drop, WorkerTypes
  <2>2. row[p].peers \in SUBSET Agents /\ row[a].peers \in SUBSET Agents
    BY <1>1, <1>3, RowChanges, NoRowFields DEF WorldTypes
  <2>3. p \in adds[w] => a \in row[p].peers
    <3>1. p \in adds[w] => Exists(p)
      BY <1>2, <1>3 DEF Syncing, WorldOf, PeersExist
    <3> QED
      BY <1>2, <1>5, <3>1 DEF Syncing, Changed
  <2>4. p \notin adds[w] => adds[w] = {} /\ a \notin row[p].peers
    <3>1. CASE ~Exists(p)
      BY <1>2, <3>1, NoRowFields DEF Pending, Exists
    <3>2. CASE Changed(w, p) = row[p].peers
      BY <1>2, <3>2 DEF Pending, Changed
    <3> QED
      BY <1>5, <3>1, <3>2
  <2>5. ASSUME NEW b \in Agents, NEW c \in Agents PROVE MutualBy(w, b, c)'
    <3>1. MutualBy(w, b, c)
      BY DEF WorldOf
    <3>2. Settling(w, b, c) => Settling(w, b, c)' \/ (b = a /\ c = p /\ p \in adds[w])
                                                  \/ (c = a /\ b = p /\ p \notin adds[w])
      BY <1>2, <2>1 DEF Settling
    <3> QED
      BY <1>2, <2>3, <2>4, <3>1, <3>2, MutualBySame
  <2>6. WorldOf(w)'
    <3>1. \A b \in Agents : OwnedBy(w, b)' /\ FollowsBy(w, b)'
      BY <1>2, <2>1, OwnedBySame, FollowsBySame DEF WorldOf, Regenerating
    <3> QED
      BY <1>2, <2>5, <3>1 DEF WorldOf, PeersExist, Exists
  <2>7. Syncing(w)'
    BY <1>2, <1>3, <2>1 DEF Syncing, Exists
  <2>8. Deleting(w)'
    BY <1>2, <1>3, <2>1, <2>3, <2>4 DEF Deleting, Exists
  <2>9. InTurn(w)'
    BY <2>1, <2>7, <2>8 DEF InTurn, Starting, Editing
  <2> QED
    BY <2>6, <2>9
<1> QED
  BY <1>4, <1>5

LEMMA SerialSynced ==
  ASSUME Typed, NEW w \in Workers, Aside(w), WorldOf(w), InTurn(w), Synced(w)
  PROVE  WorldOf(w)' /\ InTurn(w)'
<1> DEFINE a == at[w]
<1>1. WorkerTypes /\ WorldTypes /\ Fit(w)
  BY TypedParts
<1>2. /\ pc[w] = "sync" /\ adds[w] = {} /\ removes[w] = {}
      /\ row' = row /\ box' = box /\ leaked' = leaked /\ UNCHANGED <<file, behind>>
  BY DEF Synced, Pending, worldVars
<1>3. a \in Agents /\ Syncing(w) /\ Deleting(w)
  BY <1>1, <1>2 DEF Fit, InTurn
<1>4. \A b \in Agents : OwnedBy(w, b)'
  BY <1>2, OwnedFrame, UnchangedShape DEF WorldOf
<1>5. CASE back[w] = "create"
  <2>1. back'[w] # "delete" /\ pc'[w] = "idle"
    BY <1>1, <1>5 DEF Synced, Finish, Go, WorkerTypes
  <2>2. Plain(w)
    BY <1>2, <1>5 DEF WorldOf, Plain, Follow, FollowsBy, Regenerating, MutualBy, Settling
  <2>3. Plain(w)'
    BY <1>1, <1>2, <2>2, PlainFrame, UnchangedShape DEF SameShape
  <2> QED
    BY <1>4, <2>1, <2>3, InTurnFree, PlainWorld
<1>6. CASE back[w] = "peers"
  <2>1. /\ pc'[w] = "regen" /\ at' = at /\ back' = back /\ snap' = snap
    BY <1>1, <1>6 DEF Synced, Go, jobVars, WorkerTypes
  <2>2. WorldOf(w)'
    <3>1. \A b \in Agents : FollowsBy(w, b)'
      BY <1>2, <1>6, <2>1, FollowsBySame DEF WorldOf, Regenerating
    <3>2. \A b, c \in Agents : MutualBy(w, b, c)'
      BY <1>2, <1>6, <2>1, MutualBySame DEF WorldOf, Settling
    <3> QED
      BY <1>2, <1>4, <3>1, <3>2 DEF WorldOf, PeersExist, Exists
  <2>3. Syncing(w)'
    BY <1>2, <1>3, <1>6, <2>1 DEF Syncing, SameRow, Exists
  <2>4. InTurn(w)'
    BY <1>6, <2>1, <2>3 DEF InTurn, Starting, Editing, Deleting
  <2> QED
    BY <2>2, <2>4
<1>7. CASE back[w] = "delete"
  <2>1. /\ pc'[w] = (IF snap[w].cid # 0 THEN "discard" ELSE "delete")
        /\ at' = at /\ back' = back /\ snap' = snap /\ adds' = adds /\ removes' = removes
    BY <1>1, <1>7 DEF Synced, Go, jobVars, syncVars, WorkerTypes
  <2>2. WorldOf(w)'
    <3>1. \A b \in Agents : FollowsBy(w, b)'
      BY <1>2, <1>7, <2>1, FollowsBySame DEF WorldOf, Regenerating
    <3>2. \A b, c \in Agents : MutualBy(w, b, c)'
      BY <1>2, <1>7, <2>1, MutualBySame DEF WorldOf, Settling
    <3> QED
      BY <1>2, <1>4, <3>1, <3>2 DEF WorldOf, PeersExist, Exists
  <2>3. snap[w].cid = 0 => Unowned(a)
    <3>1. snap[w] = row[a]
      BY <1>2, <1>3, <1>7 DEF Syncing
    <3>2. Unowned(a) \/ row[a].cid = box[a].id
      BY <1>2, <1>3, OwnContainer DEF Busy
    <3> QED
      BY <1>1, <1>3, <3>1, <3>2, NoIdNoBox
  <2>4. Deleting(w)'
    BY <1>2, <1>3, <1>7, <2>1, <2>3 DEF Deleting, Unowned, Exists
  <2>5. InTurn(w)'
    BY <1>7, <2>1, <2>4 DEF InTurn, Starting, Editing, Syncing
  <2> QED
    BY <2>2, <2>5
<1> QED
  BY <1>1, <1>2, <1>5, <1>6, <1>7 DEF Fit

(* A peer's row is written: it lists the agent, or does not, from now on.  *)
LEMMA PeerWritten ==
  ASSUME Typed, NEW w \in Workers, WorldOf(w), InTurn(w), WritePeer(w)
  PROVE  LET a == at[w]
             p == other[w]
             r == copy[w]
         IN  /\ a \in Agents /\ p \in Agents /\ p # a /\ r \in Rows /\ row[p] \in Rows
             /\ p \in adds[w] \/ (adds[w] = {} /\ p \in removes[w])
             /\ r.peers = (IF p \in adds[w] THEN row[p].peers \cup {a} ELSE row[p].peers \ {a})
             /\ r.cid = row[p].cid
             /\ row'[p] = r /\ \A b \in Agents \ {p} : row'[b] = row[b]
             /\ \A b \in Agents : Exists(b)' <=> Exists(b)
             /\ \A q \in r.peers : q # p /\ Exists(q)
<1> DEFINE a == at[w]
           p == other[w]
           r == copy[w]
           changed == IF p \in adds[w] THEN row[p].peers \cup {a} ELSE row[p].peers \ {a}
<1>1. WorkerTypes /\ WorldTypes /\ Fit(w)
  BY TypedParts
<1>2. pc[w] = "write peer" /\ Update(p, r)
  BY DEF WritePeer, At
<1>3. a \in Agents /\ p \in Agents /\ r \in Rows
  BY <1>1, <1>2 DEF Fit
<1>4. /\ p \in Pending(w) /\ Exists(p) /\ Exists(a) /\ a \notin adds[w] \cup removes[w]
      /\ r = [row[p] EXCEPT !.peers = changed]
  BY <1>2 DEF InTurn, Syncing, Changed
<1>5. p # a /\ (p \in adds[w] \/ (adds[w] = {} /\ p \in removes[w]))
  BY <1>4 DEF Pending
<1>6. row[p] \in Rows
  BY <1>1, <1>3, <1>4 DEF Exists, WorldTypes
<1> HIDE DEF changed
<1>7. r.peers = changed /\ r.cid = row[p].cid
  BY <1>4, <1>6 DEF Rows
<1>8. row' = [row EXCEPT ![p] = r] /\ r # NoRow
  BY <1>2, <1>3, <1>4, NoRowIsNoRow DEF Update
<1>9. row'[p] = r /\ \A b \in Agents \ {p} : row'[b] = row[b]
  BY <1>1, <1>3, <1>8 DEF WorldTypes
<1>10. row[p] # NoRow
  BY <1>4 DEF Exists
<1>11. \A b \in Agents : Exists(b)' <=> Exists(b)
  BY <1>8, <1>9, <1>10 DEF Exists
<1>12. \A q \in row[p].peers : q # p /\ Exists(q)
  BY <1>3 DEF WorldOf, PeersExist
<1>13. \A q \in changed : q # p /\ Exists(q)
  BY <1>4, <1>5, <1>12 DEF changed
<1> QED
  BY <1>3, <1>5, <1>6, <1>7, <1>9, <1>11, <1>13 DEF changed

LEMMA SerialWritePeer ==
  ASSUME Typed, NEW w \in Workers, Aside(w), WorldOf(w), InTurn(w), WritePeer(w)
  PROVE  WorldOf(w)' /\ InTurn(w)'
<1>a. PICK a \in Agents : a = at[w]
  BY PeerWritten
<1>p. PICK p \in Agents : p = other[w]
  BY PeerWritten
<1>r. PICK r \in Rows : r = copy[w]
  BY PeerWritten
<1>1. WorkerTypes /\ WorldTypes /\ Fit(w)
  BY TypedParts
<1>2. /\ pc[w] = "write peer" /\ pc'[w] = "sync" /\ at' = at /\ back' = back /\ snap' = snap
      /\ adds'[w] = adds[w] \ {p}
      /\ removes'[w] = (IF p \in adds[w] THEN removes[w] ELSE removes[w] \ {p})
      /\ box' = box /\ leaked' = leaked
      /\ IF DueForPeer(r)
         THEN WriteFile(p, r)
         ELSE behind' = [behind EXCEPT ![p] = @ \/ ~Owed(r)] /\ UNCHANGED file
  BY <1>1, <1>p, <1>r DEF WritePeer, At, Go, jobVars, Drop, WorkerTypes
<1>3. /\ p # a /\ row[p] \in Rows
      /\ p \in adds[w] \/ (adds[w] = {} /\ p \in removes[w])
      /\ r.peers = (IF p \in adds[w] THEN row[p].peers \cup {a} ELSE row[p].peers \ {a})
      /\ r.cid = row[p].cid
      /\ row'[p] = r /\ \A b \in Agents \ {p} : row'[b] = row[b]
      /\ \A b \in Agents : Exists(b)' <=> Exists(b)
      /\ \A q \in r.peers : q # p /\ Exists(q)
  BY <1>a, <1>p, <1>r, PeerWritten
<1>4. /\ Exists(a) /\ a \notin adds[w] \cup removes[w] /\ adds[w] \subseteq row[a].peers
      /\ back[w] = "delete" \/ removes[w] \cap row[a].peers = {}
      /\ back[w] # "create" => snap[w] = row[a]
  BY <1>a, <1>2 DEF InTurn, Syncing
<1>5. \A b \in Agents : OwnedBy(w, b)'
  <2>1. \A b \in Agents : row'[b].cid = row[b].cid
    BY <1>3
  <2> QED
    BY <1>2, <2>1, OwnedFrame DEF WorldOf
<1>6. ASSUME NEW b \in Agents PROVE FollowsBy(w, b)'
  <2>1. CASE b = p /\ DueForPeer(r)
    <3>1. Listed(r) = r.peers
      BY <1>3 DEF Listed
    <3>2. file'[p] = r.peers
      BY <1>1, <1>2, <2>1, <3>1 DEF WriteFile, WorldTypes
    <3> QED
      BY <1>3, <2>1, <3>2 DEF FollowsBy, Follow
  <2>2. CASE b = p /\ ~DueForPeer(r)
    <3>1. behind'[p] = TRUE
      BY <1>1, <1>2, <2>2 DEF DueForPeer, Owed, WorldTypes
    <3> QED
      BY <2>2, <3>1 DEF FollowsBy, Follow
  <2>3. CASE b # p
    <3>1. file'[b] = file[b] /\ behind'[b] = behind[b]
      BY <1>1, <1>2, <2>3 DEF WriteFile, WorldTypes
    <3>2. FollowsBy(w, b) /\ row'[b] = row[b] /\ (Exists(b)' <=> Exists(b))
      BY <1>3, <2>3 DEF WorldOf
    <3>3. Regenerating(w) => Regenerating(w)'
      BY <1>2 DEF Regenerating
    <3> QED
      BY <1>2, <3>1, <3>2, <3>3, FollowsBySame
  <2> QED
    BY <2>1, <2>2, <2>3
<1>f. (\A b \in Agents : Foreign(w, b)' <=> Foreign(w, b)) /\ ~Foreign(w, p)
  BY <1>2, <1>3, OwnAgents DEF Busy
<1>7. ASSUME NEW b \in Agents, NEW c \in row'[b].peers, ~(Foreign(w, b) /\ Foreign(w, c))
      PROVE  c \in Agents /\ c # b /\ Exists(c)' /\ (b \in row'[c].peers \/ Settling(w, b, c)')
  <2>1. c \in Agents
    BY <1>1, <1>3, <1>7, RowChanges, NoRowFields DEF WorldTypes
  <2>2. c # b /\ Exists(c)
    BY <1>3, <1>7 DEF WorldOf, PeersExist
  <2>3. c \in row[b].peers => b \in row[c].peers \/ Settling(w, b, c)
    BY <1>7, <2>1 DEF WorldOf, MutualBy, Each
  <2>4. /\ Settling(w, b, c) <=> \/ a = b /\ c \in adds[w]
                                 \/ a = c /\ b \in removes[w]
                                 \/ a = b /\ back[w] = "delete"
        /\ Settling(w, b, c)' <=> \/ a = b /\ c \in adds'[w]
                                  \/ a = c /\ b \in removes'[w]
                                  \/ a = b /\ back[w] = "delete"
    BY <1>a, <1>2 DEF Settling
  <2>5. CASE p \in adds[w]
    <3>1. CASE b = p
      <4>1. CASE c = a
        <5>1. row'[a] = row[a] /\ p \in row[a].peers
          BY <1>3, <1>4, <2>5
        <5> QED
          BY <2>1, <2>2, <1>3, <3>1, <4>1, <5>1
      <4>2. CASE c # a
        <5>1. c \in row[p].peers /\ row'[c] = row[c]
          BY <1>3, <1>7, <2>1, <2>2, <2>5, <3>1, <4>2
        <5>2. p \in row[c].peers
          BY <1>3, <2>3, <2>4, <3>1, <4>2, <5>1
        <5> QED
          BY <1>3, <2>1, <2>2, <3>1, <5>1, <5>2
      <4> QED
        BY <4>1, <4>2
    <3>2. CASE b # p
      BY <1>2, <1>3, <1>7, <2>1, <2>2, <2>3, <2>4, <2>5, <3>2
    <3> QED
      BY <3>1, <3>2
  <2>6. CASE p \notin adds[w]
    <3>1. CASE b = p
      BY <1>2, <1>3, <1>7, <2>1, <2>2, <2>3, <2>4, <2>6, <3>1
    <3>2. CASE b # p
      BY <1>2, <1>3, <1>4, <1>7, <2>1, <2>2, <2>3, <2>4, <2>6, <3>2
    <3> QED
      BY <3>1, <3>2
  <2> QED
    BY <2>5, <2>6
<1>8. WorldOf(w)'
  <2>1. ASSUME NEW b \in Agents, NEW c \in row'[b].peers, Foreign(w, b) /\ Foreign(w, c)
        PROVE  c # b /\ Exists(c)' /\ Each(w, b, c)'
    <3>1. b # p /\ row'[b] = row[b] /\ c \in Agents
      BY <1>1, <1>3, <1>f, <2>1, RowChanges, NoRowFields DEF WorldTypes
    <3> QED
      BY <1>3, <1>f, <2>1, <3>1 DEF WorldOf, PeersExist, Each
  <2>2. ASSUME NEW b \in Agents, NEW c \in Agents PROVE MutualBy(w, b, c)'
    BY <1>7, <2>1 DEF MutualBy, Each
  <2>3. PeersExist'
    BY <1>7, <2>1 DEF PeersExist
  <2> QED
    BY <1>5, <1>6, <2>2, <2>3 DEF WorldOf
<1>9. Syncing(w)'
  <2>1. a = at'[w] /\ row'[a] = row[a] /\ Exists(a)'
    BY <1>a, <1>2, <1>3, <1>4
  <2>2. a \notin adds'[w] \cup removes'[w] /\ adds'[w] \subseteq row'[a].peers
    BY <1>2, <1>4, <2>1
  <2>3. back'[w] = "delete" \/ removes'[w] \cap row'[a].peers = {}
    BY <1>2, <1>4, <2>1
  <2>4. back'[w] # "create" => snap'[w] = row'[a]
    BY <1>2, <1>4, <2>1
  <2> QED
    BY <1>2, <2>1, <2>2, <2>3, <2>4 DEF Syncing
<1>10. Deleting(w)'
  <2>1. ASSUME back[w] = "delete" PROVE adds[w] = {} /\ \A b \in Agents : a \in row[b].peers => b \in removes[w]
    BY <1>a, <2>1 DEF InTurn, Deleting
  <2>2. ASSUME back[w] = "delete" PROVE adds'[w] = {} /\ \A b \in Agents : a \in row'[b].peers => b \in removes'[w]
    BY <1>2, <1>3, <2>1, <2>2
  <2>3. a = at'[w] /\ row'[a] = row[a] /\ Exists(a)' /\ snap'[w] = snap[w]
    BY <1>a, <1>2, <1>3, <1>4
  <2>4. back[w] = "delete" => snap[w].peers = row[a].peers
    BY <1>a DEF InTurn, Deleting
  <2> QED
    BY <1>2, <2>2, <2>3, <2>4 DEF Deleting
<1>11. InTurn(w)'
  BY <1>2, <1>9, <1>10 DEF InTurn, Starting, Editing
<1> QED
  BY <1>8, <1>11

-----------------------------------------------------------------------------
(* What no worker does: the world moves while one may be at work.          *)

LEMMA FollowsFrame ==
  ASSUME UNCHANGED <<row, pc, at, back, snap>>, NEW a \in Agents, Follows(a),
         file'[a] = file[a], behind'[a] = behind[a]
  PROVE  Follows(a)'
BY DEF Follows, Regenerating, Exists

LEMMA SerialAround ==
  ASSUME Serial, UNCHANGED <<row, pc, jobVars, snap, syncVars>>,
         \A b \in Agents : /\ box'[b].id = box[b].id /\ box'[b].up = box[b].up
                           /\ ~box[b].there => ~box'[b].there
                           /\ Unowned(b) => Unowned(b)'
                           /\ Follows(b)'
  PROVE  Serial' \/ ~Typed
<1> SUFFICES ASSUME Typed PROVE Serial'
  OBVIOUS
<1>1. /\ row' = row /\ pc' = pc /\ at' = at /\ back' = back /\ snap' = snap
      /\ adds' = adds /\ removes' = removes /\ other' = other /\ copy' = copy
  BY DEF jobVars, syncVars
<1>2. World'
  <2>1. ASSUME NEW b \in Agents PROVE Owned(b)'
    <3>1. Owned(b)
      BY DEF Serial, World
    <3> QED
      BY <1>1, <3>1 DEF Owned, Unowned
  <2>2. \A b, c \in Agents : Mutual(b, c)'
    BY <1>1 DEF Serial, World, Mutual, Settling
  <2> QED
    BY <1>1, <2>1, <2>2 DEF Serial, World, PeersExist, Exists
<1>3. ASSUME NEW w \in Workers PROVE InTurn(w)'
  <2>1. InTurn(w) /\ Fit(w)
    BY DEF Serial, Typed
  <2>2. CASE pc[w] = "idle"
    BY <1>1, <2>1, <2>2 DEF Fit, Idle, InTurn, Starting, Editing, Syncing, Deleting
  <2>3. CASE pc[w] # "idle"
    <3>1. PICK a \in Agents : a = at[w]
      BY <2>1, <2>3 DEF Fit
    <3>2. /\ box'[a].id = box[a].id /\ box'[a].up = box[a].up /\ (~box[a].there => ~box'[a].there)
          /\ Unowned(a) => Unowned(a)'
      OBVIOUS
    <3>3. Starting(w)'
      <4>1. Starting(w) /\ at'[w] = a
        BY <1>1, <2>1, <3>1 DEF InTurn
      <4>2. /\ SameRow(w) <=> SameRow(w)'
            /\ SameButCid(w) <=> SameButCid(w)'
            /\ Docker(w) <=> Docker(w)'
            /\ Exists(a) <=> Exists(a)'
        BY <1>1, <3>1 DEF SameRow, SameButCid, Docker, Exists
      <4>3. Unowned(at[w]) => Unowned(at[w])'
        BY <3>1, <3>2, <4>1 DEF Unowned
      <4>4. Exists(at[w]) <=> Exists(at[w])'
        BY <1>1 DEF Exists
      <4> QED
        BY <1>1, <3>1, <3>2, <4>1, <4>2, <4>3, <4>4 DEF Starting
    <3>4. Editing(w)'
      BY <1>1, <2>1, <3>1, <3>2 DEF InTurn, Editing, Exists, Unowned
    <3>5. Syncing(w)'
      BY <1>1, <2>1 DEF InTurn, Syncing, SameRow, Exists, Pending, Changed
    <3>6. Deleting(w)'
      BY <1>1, <2>1, <3>1, <3>2 DEF InTurn, Deleting, Unowned, Exists
    <3> QED
      BY <3>3, <3>4, <3>5, <3>6 DEF InTurn
  <2> QED
    BY <2>2, <2>3
<1> QED
  BY <1>2, <1>3 DEF Serial

LEMMA SerialVanish ==
  ASSUME Typed, Serial, NEW a \in Agents, Vanish(a)
  PROVE  Serial'
<1>1. WorldTypes
  BY TypedParts
<1>2. /\ box[a].there /\ box' = [box EXCEPT ![a].there = FALSE]
      /\ leaked' = [leaked EXCEPT ![a] = FALSE]
      /\ UNCHANGED <<row, pc, jobVars, snap, syncVars>>
      /\ row' = row /\ file' = file /\ behind' = behind /\ pc' = pc /\ at' = at /\ back' = back
      /\ snap' = snap
  BY DEF Vanish, jobVars
<1>3. box'[a].id = box[a].id /\ box'[a].up = box[a].up /\ box'[a].there = FALSE
  <2>1. box[a] \in Boxes /\ NoBox.there = FALSE
    BY <1>1 DEF WorldTypes, NoBox
  <2>2. box[a] \in [id : Ids, up : BOOLEAN, there : BOOLEAN]
    BY <1>2, <2>1 DEF Boxes
  <2> QED
    BY <1>1, <1>2, <2>2 DEF WorldTypes
<1>4. \A b \in Agents \ {a} : box'[b] = box[b] /\ leaked'[b] = leaked[b]
  BY <1>1, <1>2 DEF WorldTypes
<1>5. \A b \in Agents : Follows(b)'
  BY <1>2, FollowsFrame DEF Serial, World
<1> QED
  BY <1>2, <1>3, <1>4, <1>5, SerialAround DEF Unowned

-----------------------------------------------------------------------------
(* The invariant of requests that stay apart.                              *)

LEMMA SerialInit == Init => Serial
<1> SUFFICES ASSUME Init PROVE Serial
  OBVIOUS
<1>1. \A a \in Agents : row[a] = NoRow /\ row[a].peers = {} /\ ~box[a].there
  BY NoRowFields DEF Init, NoBox
<1>2. World
  BY <1>1 DEF World, Owned, Unowned, Follows, Exists, Mutual, PeersExist
<1>3. \A w \in Workers : InTurn(w)
  BY DEF Init, InTurn, Starting, Editing, Syncing, Deleting
<1> QED
  BY <1>2, <1>3 DEF Serial

(* A worker takes steps only after a request, and moves nobody else.       *)
Mine(w) == \A v \in Workers \ {w} : Untouched(v)

LEMMA StepIsMine ==
  ASSUME Typed, NEW w \in Workers, Step(w)
  PROVE  Busy(w) /\ Mine(w)
<1>1. WorkerTypes /\ Fit(w)
  BY TypedParts
<1> USE <1>1
<1>2. Finish(w) \/ StartFails(w) => Mine(w)
  BY DEF Finish, StartFails, Go, jobVars, syncVars, WorkerTypes, Untouched, Mine
<1>3. ASSUME NEW there, Go(w, there), UNCHANGED jobVars, UNCHANGED <<snap, syncVars>>
      PROVE  Mine(w)
  BY <1>3 DEF Go, jobVars, syncVars, WorkerTypes, Untouched, Mine
<1>4. ASSUME NEW there, NEW r, Go(w, there), UNCHANGED jobVars, UNCHANGED syncVars,
             snap' = [snap EXCEPT ![w] = r]
      PROVE  Mine(w)
  BY <1>4 DEF Go, jobVars, syncVars, WorkerTypes, Untouched, Mine
<1>5. CASE NothingToStart(w) \/ CreateFails(w) \/ StartContainerFails(w)
  BY <1>2, <1>5 DEF NothingToStart, CreateFails, StartContainerFails, Busy
<1>6. CASE SayRunning(w) \/ SayStopped(w) \/ RegenerateOwn(w) \/ DeleteRow(w)
  BY <1>2, <1>6 DEF SayRunning, SayStopped, RegenerateOwn, DeleteRow, Busy
<1>7. CASE ReadForStart(w) \/ ContainerGone(w) \/ CreateContainer(w) \/ ReadForRecreate(w) \/ Discard(w)
  BY <1>4, <1>7 DEF ReadForStart, ContainerGone, CreateContainer, ReadForRecreate, Discard, At, Read, Busy
<1>8. CASE \/ ContainerExists(w) \/ ClearCid(w) \/ SaveCid(w) \/ StartContainer(w) \/ StopContainer(w)
           \/ SayRestarting(w) \/ RestartContainer(w) \/ RestartFails(w) \/ SayRecreating(w)
           \/ RemoveContainer(w) \/ RemoveFails(w) \/ ForgetContainer(w)
  BY <1>3, <1>8 DEF ContainerExists, ClearCid, SaveCid, StartContainer, StopContainer, SayRestarting,
                    RestartContainer, RestartFails, SayRecreating, RemoveContainer, RemoveFails,
                    ForgetContainer, At, Busy
<1>9. CASE ReadForStop(w)
  BY <1>2, <1>4, <1>9 DEF ReadForStop, At, Read, Busy
<1>10. CASE Save(w) \/ Synced(w)
  <2>1. pc[w] \in {"save", "sync"} /\ (Synced(w) => back[w] \in {"create", "peers", "delete"})
    BY <1>10 DEF Save, Synced, Fit
  <2> QED
    BY <1>2, <1>3, <1>10, <2>1 DEF Save, Synced, Busy
<1>11. CASE WritePeer(w) \/ \E p \in Agents : ReadPeer(w, p)
  BY <1>11 DEF WritePeer, ReadPeer, Drop, At, Go, jobVars, WorkerTypes, Untouched, Mine, Busy
<1> QED
  BY <1>5, <1>6, <1>7, <1>8, <1>9, <1>10, <1>11 DEF Step

(* What a step of w leaves of the agents that other requests are about.    *)
Mild(w) ==
  /\ \A a \in Agents : Foreign(w, a) =>
       /\ row'[a] = row[a] /\ box'[a] = box[a] /\ leaked'[a] = leaked[a]
       /\ file'[a] = file[a] /\ behind'[a] = behind[a]
  /\ \A a \in Agents : Exists(a) => Exists(a)' \/ \A b \in Agents : a \notin row[b].peers
  /\ \A a, q \in Agents : q \in row'[a].peers /\ Foreign(w, q) => q \in row[a].peers

LEMMA IdleInTurn ==
  ASSUME NEW v \in Workers, Fit(v)', pc'[v] = "idle"
  PROVE  InTurn(v)'
<1>1. back'[v] = "none"
  BY DEF Fit, Idle
<1> QED
  BY <1>1 DEF InTurn, Starting, Editing, Syncing, Deleting

LEMMA OthersInTurn ==
  ASSUME Typed, Typed', NEW w \in Workers, Mild(w), NEW v \in Workers \ {w}, Untouched(v), InTurn(v)
  PROVE  InTurn(v)'
<1>1. CASE pc[v] = "idle"
  BY <1>1, IdleInTurn DEF Untouched, Typed
<1>2. CASE pc[v] # "idle"
  <2>a. PICK a \in Agents : a = at[v]
    BY <1>2 DEF Typed, Fit
  <2>1. WorldTypes /\ WorkerTypes /\ Fit(v)
    BY TypedParts
  <2>2. \A p \in {a} \cup adds[v] \cup removes[v] : p \in Agents /\ Foreign(w, p)
    BY <1>2, <2>a, <2>1 DEF Foreign, Reach, Busy, WorkerTypes
  <2>3. \A p \in {a} \cup adds[v] \cup removes[v] :
           /\ row'[p] = row[p] /\ box'[p] = box[p] /\ (Exists(p) <=> Exists(p)')
           /\ Unowned(p) <=> Unowned(p)'
    BY <2>2 DEF Mild, Exists, Unowned
  <2>4. /\ at'[v] = a /\ pc'[v] = pc[v] /\ snap'[v] = snap[v] /\ back'[v] = back[v]
        /\ adds'[v] = adds[v] /\ removes'[v] = removes[v] /\ other'[v] = other[v]
        /\ copy'[v] = copy[v]
    BY <2>a DEF Untouched
  <2>5. row'[a] = row[a] /\ box'[a] = box[a] /\ (Exists(a) <=> Exists(a)') /\ (Unowned(a) <=> Unowned(a)')
    BY <2>3
  <2>6. Starting(v)'
    <3>1. /\ SameRow(v) <=> SameRow(v)'
          /\ SameButCid(v) <=> SameButCid(v)'
          /\ Docker(v) <=> Docker(v)'
      BY <2>a, <2>4, <2>5 DEF SameRow, SameButCid, Docker, Exists
    <3>2. /\ Exists(at[v]) <=> Exists(at[v])' 
          /\ Unowned(at[v]) <=> Unowned(at[v])'
      BY <2>a, <2>4, <2>5 DEF Exists, Unowned
    <3> QED
      BY <2>a, <2>4, <2>5, <3>1, <3>2 DEF InTurn, Starting
  <2>7. Editing(v)'
    <3>1. SUFFICES ASSUME pc[v] \in {"discard", "save"}, back[v] # "delete"
                   PROVE  Editing(v)'
      BY <2>4 DEF Editing
    <3>2. ASSUME NEW p \in snap[v].peers PROVE Exists(p)'
      <4>1. p \in Agents /\ Exists(p) /\ (p \in adds[v] \/ p \in row[a].peers)
        BY <2>a, <2>1, <3>1, RowChanges DEF InTurn, Editing, Fit, HasRow, Rows
      <4> QED
        BY <2>3, <4>1 DEF Mild
    <3> QED
      BY <2>a, <2>4, <2>5, <3>1, <3>2 DEF InTurn, Editing, Exists, Unowned
  <2>8. Syncing(v)'
    <3>1. CASE pc[v] \in {"sync", "regen"}
      BY <2>a, <2>4, <2>5, <3>1 DEF InTurn, Syncing, SameRow, Exists
    <3>2. CASE pc[v] = "write peer"
      <4>p. PICK p \in Agents : p = other[v]
        BY <2>1, <3>2 DEF Fit
      <4>1. /\ p \in Pending(v) /\ Pending(v)' = Pending(v) /\ p \in adds[v] \cup removes[v]
            /\ Exists(p) /\ copy[v] = [row[p] EXCEPT !.peers = Changed(v, p)]
        BY <2>4, <3>2, <4>p DEF InTurn, Syncing, Pending
      <4>2. row'[p] = row[p] /\ Exists(p)'
        BY <2>3, <4>1
      <4>3. Changed(v, p) = Changed(v, p)'
        BY <2>a, <2>4, <4>2 DEF Changed
      <4>4. p = other'[v] /\ p \in Pending(v)' /\ copy'[v] = [row'[p] EXCEPT !.peers = Changed(v, p)']
        BY <2>4, <4>p, <4>1, <4>2, <4>3
      <4> QED
        BY <2>a, <2>4, <2>5, <3>2, <4>2, <4>4 DEF InTurn, Syncing, Exists
    <3>3. CASE pc[v] \notin {"sync", "regen", "write peer"}
      BY <2>4, <3>3 DEF Syncing
    <3> QED
      BY <3>1, <3>2, <3>3
  <2>9. Deleting(v)'
    <3>1. \A b \in Agents : a \in row'[b].peers => a \in row[b].peers
      BY <2>2 DEF Mild
    <3> QED
      BY <2>a, <2>4, <2>5, <3>1 DEF InTurn, Deleting, Exists, Unowned
  <2> QED
    BY <2>6, <2>7, <2>8, <2>9 DEF InTurn
<1> QED
  BY <1>1, <1>2

(* What the world says, and what it says of w alone.                       *)
LEMMA WorldForOne ==
  ASSUME Typed, Serial, NEW w \in Workers
  PROVE  WorldOf(w) /\ InTurn(w)
<1>1. ASSUME NEW v \in Workers, NEW a \in Agents, NEW b \in Agents, b \in row[a].peers,
             Settling(v, a, b), v # w
      PROVE  Foreign(w, a) /\ Foreign(w, b)
  <2>1. InTurn(v)
    BY DEF Serial
  <2>2. Busy(v) /\ a \in Reach(v) /\ b \in Reach(v)
    BY <1>1, <2>1 DEF Settling, Busy, Reach, InTurn, Deleting
  <2> QED
    BY <1>1, <2>2 DEF Foreign
<1>2. ASSUME NEW v \in Workers \ {w}, pc[v] # "idle" PROVE Foreign(w, at[v])
  BY <1>2 DEF Foreign, Busy, Reach
<1>3. ASSUME NEW a \in Agents PROVE OwnedBy(w, a) /\ FollowsBy(w, a)
  <2>1. ASSUME NEW v \in Workers, at[v] = a, pc[v] = "save cid" \/ Regenerating(v)
        PROVE  v = w \/ Foreign(w, a)
    BY <1>2, <2>1 DEF Regenerating
  <2>2. Owned(a) /\ Follows(a)
    BY DEF Serial, World
  <2>3. OwnedBy(w, a)
    BY <2>1, <2>2 DEF Owned, OwnedBy
  <2>4. FollowsBy(w, a)
    BY <2>1, <2>2 DEF Follows, Follow, FollowsBy
  <2> QED
    BY <2>3, <2>4
<1>4. \A a, b \in Agents : MutualBy(w, a, b)
  BY <1>1 DEF Serial, World, Mutual, MutualBy, Each
<1> QED
  BY <1>3, <1>4 DEF Serial, World, WorldOf

LEMMA WorldForAll ==
  ASSUME Typed, Serial, NEW w \in Workers, Aside(w), Mine(w), Mild(w), WorldOf(w)'
  PROVE  World'
<1>1. \A a \in Agents : Foreign(w, a)' <=> Foreign(w, a)
  BY OwnAgents
<1>2. ASSUME NEW a \in Agents, Foreign(w, a)
      PROVE  /\ row'[a] = row[a] /\ box'[a] = box[a] /\ leaked'[a] = leaked[a]
             /\ file'[a] = file[a] /\ behind'[a] = behind[a]
             /\ (Exists(a) <=> Exists(a)') /\ (Unowned(a) <=> Unowned(a)')
  BY <1>2 DEF Mild, Exists, Unowned
<1>3. ASSUME NEW a \in Agents, Foreign(w, a), NEW v \in Workers, at[v] = a, pc[v] # "idle"
      PROVE  v \in Workers \ {w}
  BY <1>3, OwnAgents DEF Busy
<1>4. \A v \in Workers \ {w} : Untouched(v)
  BY DEF Mine
<1>5. ASSUME NEW a \in Agents, Foreign(w, a) PROVE Owned(a)'
  <2>1. Owned(a)
    BY DEF Serial, World
  <2>2. CASE Unowned(a) \/ row[a].cid = box[a].id
    BY <1>2, <1>5, <2>2 DEF Owned
  <2>3. ASSUME NEW v \in Workers, at[v] = a, pc[v] = "save cid", snap[v].cid = box[a].id
        PROVE  Owned(a)'
    <3>1. Untouched(v)
      BY <1>3, <1>4, <1>5, <2>3
    <3> QED
      BY <1>2, <1>5, <2>3, <3>1 DEF Owned, Untouched
  <2> QED
    BY <2>1, <2>2, <2>3 DEF Owned
<1>6. ASSUME NEW a \in Agents, Foreign(w, a) PROVE Follows(a)'
  <2>1. Follows(a)
    BY DEF Serial, World
  <2>2. CASE ~Exists(a) \/ behind[a] \/ file[a] = row[a].peers
    BY <1>2, <1>6, <2>2 DEF Follows
  <2>3. ASSUME NEW v \in Workers, at[v] = a, Regenerating(v) PROVE Follows(a)'
    <3>1. Untouched(v)
      BY <1>3, <1>4, <1>6, <2>3 DEF Regenerating
    <3> QED
      BY <2>3, <3>1 DEF Follows, Regenerating, Untouched
  <2> QED
    BY <2>1, <2>2, <2>3 DEF Follows
<1>7. ASSUME NEW a \in Agents, NEW b \in Agents, Foreign(w, a), Foreign(w, b) PROVE Mutual(a, b)'
  <2>1. Mutual(a, b) /\ row'[a] = row[a] /\ row'[b] = row[b]
    BY <1>2, <1>7 DEF Serial, World
  <2>2. ASSUME NEW v \in Workers, Settling(v, a, b) PROVE Settling(v, a, b)'
    <3>1. pc[v] # "idle"
      BY <2>2 DEF Settling, Typed, Fit, Idle
    <3>2. Untouched(v)
      BY <1>3, <1>4, <1>7, <2>2, <3>1 DEF Settling
    <3> QED
      BY <2>2, <3>2 DEF Settling, Untouched
  <2> QED
    BY <2>1, <2>2 DEF Mutual
<1>8. ASSUME NEW a \in Agents PROVE Owned(a)' /\ Follows(a)'
  <2>1. CASE Foreign(w, a)
    BY <1>5, <1>6, <2>1
  <2>2. CASE ~Foreign(w, a)
    <3>1. OwnedBy(w, a)' /\ FollowsBy(w, a)' /\ ~Foreign(w, a)'
      BY <1>1, <2>2 DEF WorldOf
    <3> QED
      BY <3>1 DEF OwnedBy, Owned, FollowsBy, Follow, Follows
  <2> QED
    BY <2>1, <2>2
<1>9. ASSUME NEW a \in Agents, NEW b \in Agents PROVE Mutual(a, b)'
  <2>1. CASE Foreign(w, a) /\ Foreign(w, b)
    BY <1>7, <2>1
  <2>2. CASE ~(Foreign(w, a) /\ Foreign(w, b))
    <3>1. MutualBy(w, a, b)' /\ ~(Foreign(w, a)' /\ Foreign(w, b)')
      BY <1>1, <2>2 DEF WorldOf
    <3> QED
      BY <3>1 DEF MutualBy, Each, Mutual
  <2> QED
    BY <2>1, <2>2
<1> QED
  BY <1>8, <1>9 DEF WorldOf, World

LEMMA SerialFrom ==
  ASSUME Typed, Typed', Serial, NEW w \in Workers, Aside(w), Mine(w), Mild(w), WorldOf(w)', InTurn(w)'
  PROVE  Serial'
<1>1. ASSUME NEW v \in Workers \ {w} PROVE InTurn(v)'
  BY OthersInTurn DEF Serial, Mine
<1> QED
  BY <1>1, WorldForAll DEF Serial

LEMMA AsideFrom ==
  ASSUME Apart, Apart', NEW w \in Workers, Mine(w)
  PROVE  Aside(w)
<1>1. \A v \in Workers \ {w} : (Busy(v)' <=> Busy(v)) /\ Reach(v)' = Reach(v)
  BY DEF Mine, Untouched, Busy, Reach
<1>2. \A a \in Agents : Foreign(w, a)' <=> Foreign(w, a)
  BY <1>1 DEF Foreign
<1>3. Busy(w) => \A a \in Reach(w) : ~Foreign(w, a)
  BY DEF Apart, Foreign
<1>4. Busy(w)' => \A a \in Reach(w)' : ~Foreign(w, a)
  BY <1>1 DEF Apart, Foreign
<1> QED
  BY <1>2, <1>3, <1>4 DEF Aside

LEMMA MildUnchanged ==
  ASSUME NEW w \in Workers, UNCHANGED worldVars
  PROVE  Mild(w)
BY DEF Mild, worldVars, Exists

LEMMA MildAt ==
  ASSUME NEW w \in Workers, NEW a \in Agents, ~Foreign(w, a),
         \A b \in Agents \ {a} : /\ row'[b] = row[b] /\ box'[b] = box[b] /\ leaked'[b] = leaked[b]
                                 /\ file'[b] = file[b] /\ behind'[b] = behind[b],
         Exists(a) => Exists(a)' \/ \A b \in Agents : a \notin row[b].peers,
         \A q \in row'[a].peers : q \in row[a].peers \/ ~Foreign(w, q)
  PROVE  Mild(w)
BY DEF Mild, Exists

(* Steps that leave the rows.                                              *)
LEMMA BoxIsMild ==
  ASSUME Typed, NEW w \in Workers, Aside(w), Busy(w),
         \/ CreateContainer(w) \/ CreateFails(w) \/ StartContainer(w) \/ StopContainer(w)
         \/ RestartContainer(w) \/ RestartFails(w) \/ RemoveContainer(w) \/ Discard(w)
         \/ RegenerateOwn(w)
  PROVE  Mild(w)
<1>1. WorldTypes
  BY TypedParts
<1>a. PICK a \in Agents : a = at[w]
  BY DEF Busy, Typed, Fit
<1>2. ~Foreign(w, a)
  BY <1>a, OwnAgents
<1>3. row' = row
  BY DEF CreateContainer, CreateFails, StartContainer, StopContainer, RestartContainer, RestartFails,
         RemoveContainer, Discard, RegenerateOwn
<1>4. \A b \in Agents \ {a} : box'[b] = box[b] /\ leaked'[b] = leaked[b]
  BY <1>1, <1>a DEF CreateContainer, CreateFails, StartContainer, StopContainer, RestartContainer,
         RestartFails, RemoveContainer, Discard, RegenerateOwn, WorldTypes
<1>5. \A b \in Agents \ {a} : file'[b] = file[b] /\ behind'[b] = behind[b]
  BY <1>1, <1>a DEF CreateContainer, CreateFails, StartContainer, StopContainer, RestartContainer,
         RestartFails, RemoveContainer, Discard, RegenerateOwn, WriteFile, WorldTypes
<1> QED
  BY <1>2, <1>3, <1>4, <1>5, MildAt DEF Exists

(* Steps that write the agent's own row, or its status.                    *)
LEMMA RowIsMild ==
  ASSUME Typed, NEW w \in Workers, Aside(w), WorldOf(w), InTurn(w), Busy(w),
         \/ ClearCid(w) \/ SaveCid(w) \/ ForgetContainer(w)
         \/ SayRunning(w) \/ SayStopped(w) \/ SayRestarting(w) \/ SayRecreating(w)
  PROVE  Mild(w)
<1>1. WorldTypes /\ Fit(w)
  BY TypedParts
<1>a. PICK a \in Agents : a = at[w]
  BY DEF Busy, Typed, Fit
<1>2. ~Foreign(w, a)
  BY <1>a, OwnAgents
<1>3. box' = box /\ leaked' = leaked /\ file' = file /\ behind' = behind
  BY DEF ClearCid, SaveCid, ForgetContainer, SayRunning, SayStopped, SayRestarting, SayRecreating
<1>4. SameShape /\ \A b \in Agents \ {a} : row'[b] = row[b]
  <2>1. CASE ClearCid(w) \/ SaveCid(w) \/ ForgetContainer(w)
    <3>1. pc[w] \in {"clear", "save cid", "forget"} /\ Update(a, snap[w])
      BY <1>a, <2>1 DEF ClearCid, SaveCid, ForgetContainer, At
    <3>2. snap[w] \in Rows /\ Exists(a) /\ row[a] = [snap[w] EXCEPT !.cid = row[a].cid]
      BY <1>1, <1>a, <3>1 DEF Fit, HasRow, InTurn, Starting, SameButCid
    <3>3. snap[w].peers = row[a].peers
      BY <3>2 DEF Rows
    <3> QED
      BY <1>1, <3>1, <3>2, <3>3, RowWritten
  <2>2. CASE SayRunning(w) \/ SayStopped(w) \/ SayRestarting(w) \/ SayRecreating(w)
    <3>1. \E x \in Statuses : UpdateStatus(a, x)
      BY <1>a, <2>2 DEF SayRunning, SayStopped, SayRestarting, SayRecreating, Statuses
    <3> QED
      BY <1>1, <3>1, StatusWritten
  <2> QED
    BY <2>1, <2>2
<1> QED
  BY <1>2, <1>3, <1>4, MildAt DEF SameShape

LEMMA SaveIsMild ==
  ASSUME Typed, NEW w \in Workers, Aside(w), InTurn(w), Busy(w), Save(w)
  PROVE  Mild(w)
<1>1. WorldTypes /\ Fit(w)
  BY TypedParts
<1>a. PICK a \in Agents : a = at[w]
  BY DEF Busy, Typed, Fit
<1>2. ~Foreign(w, a) /\ \A p \in adds[w] : ~Foreign(w, p)
  BY <1>a, OwnAgents
<1>3. /\ pc[w] = "save" /\ Update(a, snap[w]) /\ box' = box /\ leaked' = leaked /\ file' = file
      /\ behind' = [behind EXCEPT ![a] = @ \/ (snap[w].peers # row[a].peers /\ ~Due(snap[w]))]
  BY <1>a DEF Save
<1>4. snap[w] \in Rows /\ back[w] # "delete"
  BY <1>1, <1>3, LifecycleCalm DEF Fit, HasRow
<1>5. /\ Exists(a) /\ (back[w] = "peers" => adds[w] = snap[w].peers \ row[a].peers)
      /\ back[w] # "peers" => snap[w].peers = row[a].peers
  BY <1>a, <1>3, <1>4 DEF InTurn, Editing
<1>6. row' = [row EXCEPT ![a] = snap[w]] /\ snap[w] # NoRow
  BY <1>3, <1>4, <1>5, NoRowIsNoRow DEF Update
<1>7. row'[a] = snap[w] /\ Exists(a)' /\ \A b \in Agents \ {a} : row'[b] = row[b]
  BY <1>1, <1>6 DEF WorldTypes, Exists
<1>8. \A b \in Agents \ {a} : behind'[b] = behind[b]
  BY <1>1, <1>3 DEF WorldTypes
<1> QED
  BY <1>2, <1>3, <1>5, <1>7, <1>8, MildAt

LEMMA DeleteIsMild ==
  ASSUME Typed, NEW w \in Workers, Aside(w), InTurn(w), Busy(w), DeleteRow(w)
  PROVE  Mild(w)
<1>1. WorldTypes
  BY TypedParts
<1>a. PICK a \in Agents : a = at[w]
  BY DEF Busy, Typed, Fit
<1>2. ~Foreign(w, a)
  BY <1>a, OwnAgents
<1>3. \A b \in Agents : a \notin row[b].peers
  BY <1>a DEF DeleteRow, InTurn, Deleting
<1>4. /\ row'[a] = NoRow /\ \A b \in Agents \ {a} : row'[b] = row[b]
      /\ box' = box /\ leaked' = leaked /\ file' = file /\ behind' = behind
  BY <1>1, <1>a DEF DeleteRow, WorldTypes
<1> QED
  BY <1>2, <1>3, <1>4, MildAt, NoRowFields

LEMMA PeerIsMild ==
  ASSUME Typed, NEW w \in Workers, Aside(w), WorldOf(w), InTurn(w), Busy(w), WritePeer(w)
  PROVE  Mild(w)
<1>1. WorldTypes
  BY TypedParts
<1>a. PICK a \in Agents : a = at[w]
  BY PeerWritten
<1>p. PICK p \in Agents : p = other[w]
  BY PeerWritten
<1>2. /\ p \in adds[w] \cup removes[w] /\ copy[w].peers \subseteq row[p].peers \cup {a}
      /\ row'[p] = copy[w] /\ \A b \in Agents \ {p} : row'[b] = row[b]
      /\ Exists(p)' <=> Exists(p)
  BY <1>a, <1>p, PeerWritten
<1>3. ~Foreign(w, a) /\ ~Foreign(w, p)
  BY <1>a, <1>2, OwnAgents
<1>4. \A b \in Agents \ {p} : /\ box'[b] = box[b] /\ leaked'[b] = leaked[b]
                              /\ file'[b] = file[b] /\ behind'[b] = behind[b]
  BY <1>1, <1>p DEF WritePeer, WriteFile, WorldTypes
<1> QED
  BY <1>2, <1>3, <1>4, MildAt

LEMMA StepIsMild ==
  ASSUME Typed, NEW w \in Workers, Aside(w), WorldOf(w), InTurn(w), Step(w)
  PROVE  Mild(w)
<1>1. Busy(w)
  BY StepIsMine
<1>2. CASE \/ ReadForStart(w) \/ NothingToStart(w) \/ ContainerExists(w) \/ ContainerGone(w)
           \/ StartContainerFails(w) \/ ReadForStop(w) \/ RemoveFails(w) \/ ReadForRecreate(w)
           \/ (\E p \in Agents : ReadPeer(w, p)) \/ Synced(w)
  BY <1>2, MildUnchanged
  DEF ReadForStart, NothingToStart, ContainerExists, ContainerGone, StartContainerFails, ReadForStop,
      RemoveFails, ReadForRecreate, ReadPeer, Synced
<1> QED
  BY <1>1, <1>2, BoxIsMild, RowIsMild, SaveIsMild, DeleteIsMild, PeerIsMild DEF Step

LEMMA RequestIsMild ==
  ASSUME Typed, NEW w \in Workers, Aside(w), NEW a \in Agents, Request(w, a)
  PROVE  Mild(w)
<1>1. CASE \/ StartAgent(w, a) \/ StopAgent(w, a) \/ RestartAgent(w, a) \/ RecreateAgent(w, a)
           \/ DeleteAgent(w, a) \/ SyncPeers(w, a)
  BY <1>1, MildUnchanged DEF StartAgent, StopAgent, RestartAgent, RecreateAgent, DeleteAgent,
                              SyncPeers
<1>2. CASE \E type \in Types, fields \in BOOLEAN, peers \in Choices(a), given \in BOOLEAN :
             UpdateAgent(w, a, type, fields, peers, given)
  BY <1>2, MildUnchanged DEF UpdateAgent
<1>3. ASSUME NEW type \in Types, NEW peers \in Choices(a), CreateAgent(w, a, type, peers)
      PROVE  Mild(w)
  <2>1. WorldTypes /\ WorkerTypes
    BY TypedParts
  <2>2. /\ at'[w] = a /\ adds'[w] = peers /\ pc'[w] = "sync" /\ ~Exists(a)
        /\ row'[a].peers = peers /\ \A b \in Agents \ {a} : row'[b] = row[b]
        /\ box' = box /\ leaked' = leaked /\ file' = file
        /\ \A b \in Agents \ {a} : behind'[b] = behind[b]
    BY <1>3, <2>1 DEF CreateAgent, Begin, Go, WorldTypes, WorkerTypes
  <2>3. ~Foreign(w, a) /\ \A p \in peers : ~Foreign(w, p)
    BY <2>2, OwnAgents DEF Busy
  <2> QED
    BY <2>2, <2>3, MildAt
<1> QED
  BY <1>1, <1>2, <1>3 DEF Request

LEMMA RequestIsMine ==
  ASSUME Typed, NEW w \in Workers, NEW a \in Agents, Request(w, a)
  PROVE  Mine(w)
<1>1. WorkerTypes
  BY TypedParts
<1> USE <1>1 DEF Begin, Go, Read, syncVars, WorkerTypes, Untouched, Mine
<1>2. CASE \E type \in Types, peers \in Choices(a) : CreateAgent(w, a, type, peers)
  BY <1>2 DEF CreateAgent
<1>3. CASE StartAgent(w, a) \/ StopAgent(w, a) \/ RestartAgent(w, a) \/ RecreateAgent(w, a)
  BY <1>3 DEF StartAgent, StopAgent, RestartAgent, RecreateAgent
<1>4. CASE \E type \in Types, fields \in BOOLEAN, peers \in Choices(a), given \in BOOLEAN :
             UpdateAgent(w, a, type, fields, peers, given)
  BY <1>4 DEF UpdateAgent
<1>5. CASE DeleteAgent(w, a) \/ SyncPeers(w, a)
  BY <1>5 DEF DeleteAgent, SyncPeers
<1> QED
  BY <1>2, <1>3, <1>4, <1>5 DEF Request

LEMMA SerialStep ==
  ASSUME Typed, Typed', Apart, Apart', Serial, NEW w \in Workers, Step(w)
  PROVE  Serial'
<1>1. Mine(w) /\ Aside(w) /\ WorldOf(w) /\ InTurn(w)
  BY StepIsMine, AsideFrom, WorldForOne
<1>2. Mild(w)
  BY <1>1, StepIsMild
<1>3. WorldOf(w)' /\ InTurn(w)'
  BY <1>1, SerialReadForStart, SerialContainer, SerialWriteRow, SerialSay,
     SerialCreateContainer, SerialCreateFails, SerialBox, SerialReads, SerialDiscard, SerialSave,
     SerialRegenerate, SerialDeleteRow, SerialReadPeer, SerialWritePeer, SerialSynced DEF Step
<1> QED
  BY <1>1, <1>2, <1>3, SerialFrom

LEMMA SerialArrival ==
  ASSUME Typed, Typed', Apart, Apart', Serial, NEW w \in Workers, NEW a \in Agents, Request(w, a)
  PROVE  Serial'
<1>1. Mine(w)
  BY RequestIsMine
<1>2. Aside(w) /\ WorldOf(w) /\ InTurn(w)
  BY <1>1, AsideFrom, WorldForOne
<1>3. Mild(w)
  BY <1>2, RequestIsMild
<1>4. WorldOf(w)' /\ InTurn(w)'
  BY <1>2, SerialCreateAgent, SerialRequest, SerialUpdateAgent, SerialDeleteAgent DEF Request
<1> QED
  BY <1>1, <1>2, <1>3, <1>4, SerialFrom

LEMMA SerialNext ==
  ASSUME Typed, Typed', Apart, Apart', Serial, [Next]_vars
  PROVE  Serial'
<1>1. CASE UNCHANGED vars
  <2>1. UNCHANGED <<row, pc, jobVars, snap, syncVars>> /\ UNCHANGED <<box, file, behind, leaked>>
    BY <1>1 DEF vars, worldVars
  <2>2. \A b \in Agents : Follows(b)' /\ (Unowned(b) => Unowned(b)')
    BY <2>1 DEF jobVars, Serial, World, Follows, Regenerating, Exists, Unowned
  <2> QED
    BY <2>1, <2>2, SerialAround
<1> QED
  BY <1>1, SerialStep, SerialArrival, SerialVanish DEF Next

LEMMA SerialInvariant == Spec /\ []Apart => []Serial
<1>1. Typed /\ Typed' /\ Apart /\ Apart' /\ Serial /\ [Next]_vars => Serial'
  BY SerialNext
<1> QED
  BY <1>1, SerialInit, TypedInvariant, PTL DEF Spec

(* While requests stay apart, a container is in its agent's row            *)
(* whenever nothing is at work, whatever else Docker refuses: no failing   *)
(* create, start, stop, restart or remove orphans one, only the removal    *)
(* that updateAgent and deleteAgent do not look at.  An inspection that    *)
(* fails is taken for a container that is gone, hence the assumption.      *)
THEOREM NoContainerOrphaned ==
  ASSUME "inspect" \notin DockerFails
  PROVE  Spec /\ []Apart => []NoOrphan
<1>1. Serial => NoOrphan
  BY DEF Serial, World, Owned, Unowned, NoOrphan, AtRest
<1> QED
  BY <1>1, SerialInvariant, PTL

(* While requests stay apart, syncSymmetricPeers leaves no peer            *)
(* that is listed on one side only, after any creation, update or deletion *)
(* of any agent.                                                           *)
THEOREM PeersStaySymmetric == Spec /\ []Apart => []PeersSymmetric
<1>1. Typed /\ Serial => PeersSymmetric
  <2> SUFFICES ASSUME Typed, Serial, AtRest, NEW a \in Agents, NEW b \in Agents, b \in row[a].peers
               PROVE  a \in row[b].peers
    BY DEF PeersSymmetric
  <2>1. \A w \in Workers : pc[w] = "idle" /\ back[w] = "none"
    BY DEF Typed, Fit, Idle, AtRest
  <2> QED
    BY <2>1 DEF Serial, World, Mutual, Settling
<1> QED
  BY <1>1, SerialInvariant, TypedInvariant, PTL

(* While requests stay apart, the config file of a running agent           *)
(* lists the peers of its row once nothing is at work, whoever changed     *)
(* them, unless they were edited while it was down.                        *)
THEOREM FilesStayCurrent == Spec /\ []Apart => []FileCurrent
<1>1. Typed /\ Serial => FileCurrent
  <2> SUFFICES ASSUME Typed, Serial, AtRest, NEW a \in Agents, Owed(row[a]), ~behind[a]
               PROVE  file[a] = Listed(row[a])
    BY DEF FileCurrent
  <2>1. Exists(a)
    BY NoRowFields DEF Owed, Exists
  <2>2. file[a] = row[a].peers
    BY <2>1 DEF Serial, World, Follows, Regenerating, AtRest
  <2> QED
    BY <2>2, ListedAll DEF Serial, World
<1> QED
  BY <1>1, SerialInvariant, TypedInvariant, PTL

(* A busy portal need never come to rest: what the three theorems say of   *)
(* a portal at rest holds at any time of an agent that no request is about.*)
Quiet(a) == \A w \in Workers : Busy(w) => a \notin Reach(w)

InOrder(a) ==
  /\ Unowned(a) \/ row[a].cid = box[a].id
  /\ \A b \in Agents : b \in row[a].peers => a \in row[b].peers
  /\ Owed(row[a]) /\ ~behind[a] => file[a] = Listed(row[a])

(* Beside requests about other agents, an agent's container, peers and     *)
(* config file agree with its row, as syncSymmetricPeers, updateAgent and  *)
(* deleteAgent left them.                                                  *)
THEOREM QuietAgentsAreInOrder ==
  Spec /\ []Apart => [](\A a \in Agents : Quiet(a) => InOrder(a))
<1>1. Typed /\ Serial => \A a \in Agents : Quiet(a) => InOrder(a)
  <2> SUFFICES ASSUME Typed, Serial, NEW a \in Agents, Quiet(a)
               PROVE  InOrder(a)
    OBVIOUS
  <2>1. \A w \in Workers : at[w] = a => pc[w] = "idle" /\ back[w] = "none"
    BY DEF Typed, Fit, Idle, Quiet, Busy, Reach
  <2>2. Unowned(a) \/ row[a].cid = box[a].id
    BY <2>1 DEF Serial, World, Owned
  <2>3. ASSUME NEW b \in Agents, b \in row[a].peers PROVE a \in row[b].peers
    <3>1. ASSUME NEW w \in Workers PROVE ~Settling(w, a, b)
      BY <2>1 DEF Settling, Quiet, Busy, Reach
    <3> QED
      BY <2>3, <3>1 DEF Serial, World, Mutual
  <2>4. ASSUME Owed(row[a]), ~behind[a] PROVE file[a] = Listed(row[a])
    <3>1. Exists(a)
      BY <2>4, NoRowFields DEF Owed, Exists
    <3>2. file[a] = row[a].peers
      BY <2>1, <2>4, <3>1 DEF Serial, World, Follows, Regenerating
    <3> QED
      BY <3>2, ListedAll DEF Serial, World
  <2> QED
    BY <2>2, <2>3, <2>4 DEF InOrder
<1> QED
  BY <1>1, SerialInvariant, TypedInvariant, PTL

-----------------------------------------------------------------------------
(* Who calls an agent "running".                                           *)

Justified(a) ==
  (row'[a].status = "running" /\ row[a].status # "running" /\ row'[a].type = "docker") =>
    box[a].id = row'[a].cid /\ box[a].up

LEMMA JustifiedWhenWritten ==
  ASSUME Typed, NEW w \in Workers, InTurn(w), NEW a \in Agents,
         ClearCid(w) \/ SaveCid(w) \/ ForgetContainer(w)
  PROVE  Justified(a)
<1>1. WorldTypes /\ Fit(w)
  BY TypedParts
<1>2. pc[w] \in {"clear", "save cid", "forget"} /\ Update(at[w], snap[w])
  BY DEF ClearCid, SaveCid, ForgetContainer, At
<1>3. at[w] \in Agents /\ snap[w] \in Rows
  BY <1>1, <1>2 DEF Fit, HasRow
<1>4. Exists(at[w]) /\ row[at[w]] = [snap[w] EXCEPT !.cid = row[at[w]].cid]
  BY <1>2 DEF InTurn, Starting, SameButCid
<1>5. snap[w].status = row[at[w]].status
  BY <1>3, <1>4 DEF Rows
<1>6. row' = [row EXCEPT ![at[w]] = snap[w]]
  BY <1>2, <1>4 DEF Update
<1> QED
  BY <1>1, <1>3, <1>5, <1>6 DEF WorldTypes, Justified

LEMMA JustifiedWhenSaid ==
  ASSUME Typed, NEW w \in Workers, InTurn(w), NEW a \in Agents,
         SayRunning(w) \/ SayStopped(w) \/ SayRestarting(w) \/ SayRecreating(w)
  PROVE  Justified(a)
<1>1. WorldTypes /\ Fit(w)
  BY TypedParts
<1>2. PICK s \in Statuses : UpdateStatus(at[w], s) /\ (s = "running" => pc[w] = "running")
  BY DEF SayRunning, SayStopped, SayRestarting, SayRecreating, Statuses
<1>3. at[w] \in Agents
  BY <1>1 DEF SayRunning, SayStopped, SayRestarting, SayRecreating, At, Fit
<1>4. /\ row'[a].cid = row[a].cid /\ row'[a].type = row[a].type
      /\ row'[at[w]].status = s \/ ~Exists(at[w])
      /\ a # at[w] => row'[a] = row[a]
  BY <1>1, <1>2, <1>3, StatusWritten
<1>5. CASE a # at[w]
  BY <1>4, <1>5 DEF Justified
<1>6. CASE a = at[w] /\ ~Exists(a)
  BY <1>4, <1>6, NoRowFields DEF Exists, Justified
<1>7. CASE a = at[w] /\ Exists(a)
  <2>1. row'[a].status = s
    BY <1>4, <1>7
  <2>2. s = "running" /\ row[a].type = "docker" => box[a].id = row[a].cid /\ box[a].up
    BY <1>2, <1>7 DEF InTurn, Starting, Docker
  <2> QED
    BY <1>4, <2>1, <2>2 DEF Justified
<1> QED
  BY <1>5, <1>6, <1>7

LEMMA JustifiedWhenSaved ==
  ASSUME Typed, NEW w \in Workers, InTurn(w), NEW a \in Agents,
         Save(w) \/ DeleteRow(w) \/ WritePeer(w)
  PROVE  Justified(a)
<1>1. WorldTypes /\ Fit(w)
  BY TypedParts
<1>2. CASE Save(w)
  <2>1. pc[w] = "save" /\ Update(at[w], snap[w])
    BY <1>2 DEF Save
  <2>2. at[w] \in Agents /\ back[w] # "delete"
    BY <1>1, <2>1, LifecycleCalm DEF Fit
  <2>3. Exists(at[w]) /\ snap[w].status \in {row[at[w]].status, "stopped"}
    BY <2>1, <2>2 DEF InTurn, Editing
  <2>4. row' = [row EXCEPT ![at[w]] = snap[w]]
    BY <2>1, <2>3 DEF Update
  <2> QED
    BY <1>1, <2>2, <2>3, <2>4 DEF WorldTypes, Justified
<1>3. CASE DeleteRow(w)
  BY <1>1, <1>3, NoRowFields DEF DeleteRow, WorldTypes, Justified
<1>4. CASE WritePeer(w)
  <2>1. pc[w] = "write peer" /\ Update(other[w], copy[w])
    BY <1>4 DEF WritePeer, At
  <2>2. other[w] \in Agents
    BY <1>1, <2>1 DEF Fit
  <2>3. /\ Exists(other[w])
        /\ copy[w] = [row[other[w]] EXCEPT !.peers = Changed(w, other[w])]
    BY <2>1 DEF InTurn, Syncing
  <2>4. row[other[w]] \in Rows
    BY <1>1, <2>2, <2>3 DEF Exists, WorldTypes
  <2>5. copy[w].status = row[other[w]].status
    BY <2>3, <2>4 DEF Rows
  <2>6. row' = [row EXCEPT ![other[w]] = copy[w]]
    BY <2>1, <2>3 DEF Update
  <2> QED
    BY <1>1, <2>2, <2>5, <2>6 DEF WorldTypes, Justified
<1> QED
  BY <1>2, <1>3, <1>4

LEMMA JustifiedStep ==
  ASSUME Typed, NEW w \in Workers, InTurn(w), NEW a \in Agents, Step(w)
  PROVE  Justified(a)
<1>1. CASE \/ ClearCid(w) \/ SaveCid(w) \/ ForgetContainer(w)
           \/ SayRunning(w) \/ SayStopped(w) \/ SayRestarting(w) \/ SayRecreating(w)
           \/ Save(w) \/ DeleteRow(w) \/ WritePeer(w)
  BY <1>1, JustifiedWhenWritten, JustifiedWhenSaid, JustifiedWhenSaved
<1>2. row' = row => Justified(a)
  BY DEF Justified
<1>3. CASE \/ ReadForStart(w) \/ NothingToStart(w) \/ ContainerExists(w) \/ ContainerGone(w)
           \/ CreateContainer(w) \/ CreateFails(w) \/ StartContainer(w) \/ StartContainerFails(w)
  BY <1>2, <1>3 DEF ReadForStart, NothingToStart, ContainerExists, ContainerGone, CreateContainer,
                    CreateFails, StartContainer, StartContainerFails, worldVars
<1>4. CASE \/ ReadForStop(w) \/ StopContainer(w) \/ RestartContainer(w) \/ RestartFails(w)
           \/ RemoveContainer(w) \/ RemoveFails(w) \/ ReadForRecreate(w)
  BY <1>2, <1>4 DEF ReadForStop, StopContainer, RestartContainer, RestartFails, RemoveContainer,
                    RemoveFails, ReadForRecreate, worldVars
<1>5. CASE Discard(w) \/ RegenerateOwn(w) \/ Synced(w) \/ \E p \in Agents : ReadPeer(w, p)
  BY <1>2, <1>5 DEF Discard, RegenerateOwn, Synced, ReadPeer, worldVars
<1> QED
  BY <1>1, <1>3, <1>4, <1>5 DEF Step

LEMMA JustifiedNext ==
  ASSUME Typed, Serial, [Next]_vars, NEW a \in Agents
  PROVE  Justified(a)
<1>1. row' = row => Justified(a)
  BY DEF Justified
<1>2. ASSUME NEW w \in Workers, Step(w) PROVE Justified(a)
  BY <1>2, JustifiedStep DEF Serial
<1>3. ASSUME NEW w \in Workers, NEW b \in Agents, NEW type \in Types, NEW peers \in Choices(b),
             CreateAgent(w, b, type, peers)
      PROVE  Justified(a)
  <2>1. /\ row' = [row EXCEPT ![b] = [type |-> type, cid |-> 0, peers |-> peers,
                                      status |-> InitialStatus(type)]]
        /\ row \in [Agents -> Rows \cup {NoRow}]
    BY <1>3, TypedParts DEF CreateAgent, WorldTypes
  <2> QED
    BY <2>1 DEF InitialStatus, Justified
<1>4. ASSUME NEW w \in Workers, NEW b \in Agents, Request(w, b) PROVE Justified(a)
  <2>1. CASE row' = row
    BY <1>1, <2>1
  <2>2. CASE row' # row
    BY <1>3, <1>4, <2>2
    DEF Request, StartAgent, StopAgent, RestartAgent, RecreateAgent, UpdateAgent, DeleteAgent,
        SyncPeers, worldVars
  <2> QED
    BY <2>1, <2>2
<1> QED
  BY <1>1, <1>2, <1>4 DEF Next, Vanish, vars, worldVars

(* While requests stay apart, doStartAgent and restartAgent call a         *)
(* docker agent "running" only after Docker has said that the container in *)
(* its row is up; no saved copy of a row brings an old "running" back.     *)
THEOREM RunningOnlyWhenUp == Spec /\ []Apart => RunningJustified
<1>1. Typed /\ Serial /\ [Next]_vars =>
        [\A a \in Agents :
           (row'[a].status = "running" /\ row[a].status # "running" /\ row'[a].type = "docker") =>
             box[a].id = row'[a].cid /\ box[a].up]_vars
  BY JustifiedNext DEF Justified
<1> QED
  BY <1>1, SerialInvariant, TypedInvariant, PTL DEF Spec, RunningJustified

(* A portal that serves one request at a time keeps the hypothesis of the  *)
(* four theorems: it is not an empty one.                                  *)
LEMMA OneWorkerIsEnough ==
  ASSUME NEW w, Workers = {w}
  PROVE  Spec => []Apart
<1>1. Apart
  BY DEF Apart
<1> QED
  BY <1>1, PTL

=============================================================================
