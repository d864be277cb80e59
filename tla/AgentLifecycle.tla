--------------------------- MODULE AgentLifecycle ---------------------------
(***************************************************************************)
(* Agents: their rows, their containers and their config files.  Left out: *)
(* ports, tokens and the AGENTS.md written once, which no step reads.      *)
(*                                                                         *)
(* A worker is a request and the goroutine it leaves behind (restart and   *)
(* recreate answer first).  It works on copies of rows: AgentStore.GetByID *)
(* reads a whole row, Update writes a whole copy back, UpdateStatus writes *)
(* the status only; both do nothing for a row that is gone.                *)
(* Docker is external: an agent's container has a name of its own, so there*)
(* is at most one.  It is "up" from an acknowledged start or restart until *)
(* it is stopped: whether its process still lives changes no answer of     *)
(* Docker's.  An id is 0 for none; a new one is in no row and no copy.     *)
(***************************************************************************)
EXTENDS Naturals, FiniteSets

CONSTANTS
  Agents,
  Workers,
  DockerFails  \* Docker calls that may fail

Calls == {"inspect", "create", "start", "stop", "restart", "remove", "discard"}
Types == {"docker", "native"}
Statuses == {"stopped", "running", "restarting", "recreating"}
Ids == 1 .. 2 * Cardinality(Workers)

ASSUME AgentsAssumption == IsFiniteSet(Workers)
ASSUME FailsAssumption == DockerFails \subseteq Calls

Rows == [type : Types, status : Statuses, cid : {0} \cup Ids, peers : SUBSET Agents]
NoRow == [type |-> "none", status |-> "none", cid |-> 0, peers |-> {}]
NoBox == [id |-> 0, up |-> FALSE, there |-> FALSE]
Boxes == {NoBox} \cup [id : Ids, up : BOOLEAN, there : BOOLEAN]
NoAgent == "none"

VARIABLES
  row,      \* table agents
  box,      \* the container of each agent's name
  file,     \* peers in each agent's config.toml
  behind,   \* history: peers were edited while the agent was down
  leaked,   \* history: Docker did not remove a container that an update or a deletion dropped
  pc,       \* worker: next step
  at,       \* worker: the agent
  snap,     \* worker: its copy of the agent's row
  back,     \* worker: what it is doing
  adds,     \* worker: peers that still have to list the agent
  removes,  \* worker: peers that must not list it any more
  other,    \* worker: the peer whose row it has read
  copy      \* worker: its copy of that row

worldVars == <<row, box, file, behind, leaked>>
jobVars == <<at, back>>
syncVars == <<adds, removes, other, copy>>
vars == <<worldVars, pc, jobVars, snap, syncVars>>

Steps == {"idle", "start", "exists", "clear", "create", "save cid", "start box", "running",
          "stop", "stop box", "stopped", "restarting", "restart box", "recreating", "remove box",
          "reread", "forget", "discard", "save", "sync", "write peer", "regen", "delete"}
Jobs == {"none", "start", "stop", "restart", "recreate", "create", "update", "peers", "delete", "sync"}

TypeOK ==
  /\ row \in [Agents -> Rows \cup {NoRow}]
  /\ box \in [Agents -> Boxes]
  /\ file \in [Agents -> SUBSET Agents]
  /\ behind \in [Agents -> BOOLEAN]
  /\ leaked \in [Agents -> BOOLEAN]
  /\ pc \in [Workers -> Steps]
  /\ at \in [Workers -> Agents \cup {NoAgent}]
  /\ snap \in [Workers -> Rows \cup {NoRow}]
  /\ back \in [Workers -> Jobs]
  /\ adds \in [Workers -> SUBSET Agents]
  /\ removes \in [Workers -> SUBSET Agents]
  /\ other \in [Workers -> Agents \cup {NoAgent}]
  /\ copy \in [Workers -> Rows \cup {NoRow}]

Init ==
  /\ row = [a \in Agents |-> NoRow]
  /\ box = [a \in Agents |-> NoBox]
  /\ file = [a \in Agents |-> {}]
  /\ behind = [a \in Agents |-> FALSE]
  /\ leaked = [a \in Agents |-> FALSE]
  /\ pc = [w \in Workers |-> "idle"]
  /\ at = [w \in Workers |-> NoAgent]
  /\ snap = [w \in Workers |-> NoRow]
  /\ back = [w \in Workers |-> "none"]
  /\ adds = [w \in Workers |-> {}]
  /\ removes = [w \in Workers |-> {}]
  /\ other = [w \in Workers |-> NoAgent]
  /\ copy = [w \in Workers |-> NoRow]

-----------------------------------------------------------------------------
(* Rows, containers and files.                                             *)

Exists(a) == row[a] # NoRow

\* AgentStore.Update and UpdateStatus: WHERE id = ?.
Update(a, r) == row' = [row EXCEPT ![a] = IF Exists(a) THEN r ELSE NoRow]
UpdateStatus(a, s) == row' = [row EXCEPT ![a] = IF Exists(a) THEN [@ EXCEPT !.status = s] ELSE NoRow]

\* Peers that generateAgentConfig lists: those that have a row.
Listed(r) == {p \in r.peers : Exists(p)}

NewId(a) ==
  CHOOSE i \in Ids : i # row[a].cid /\ \A w \in Workers : i \notin {snap[w].cid, copy[w].cid}

HasBox(a, cid) == box[a].there /\ box[a].id = cid

Go(w, there) == pc' = [pc EXCEPT ![w] = there]

\* The request, or what it left in the background, is over.
Finish(w) ==
  /\ Go(w, "idle")
  /\ at' = [at EXCEPT ![w] = NoAgent]
  /\ back' = [back EXCEPT ![w] = "none"]
  /\ snap' = [snap EXCEPT ![w] = NoRow]
  /\ adds' = [adds EXCEPT ![w] = {}]
  /\ removes' = [removes EXCEPT ![w] = {}]
  /\ other' = [other EXCEPT ![w] = NoAgent]
  /\ copy' = [copy EXCEPT ![w] = NoRow]

\* A request for agent a arrives.
Begin(w, a, job, there) ==
  /\ pc[w] = "idle"
  /\ Go(w, there)
  /\ at' = [at EXCEPT ![w] = a]
  /\ back' = [back EXCEPT ![w] = job]

At(w, here, there) == pc[w] = here /\ Go(w, there) /\ UNCHANGED jobVars

Read(w, a) == snap' = [snap EXCEPT ![w] = row[a]]

-----------------------------------------------------------------------------
(* createAgent, and the peers of the new agent.                            *)

BadInitialStatus(type) == IF type = "native" THEN "running" ELSE "none"
InitialStatus(type) == IF type = "native" THEN "running" ELSE "stopped"

CreateAgent(w, a, type, peers) ==
  /\ ~Exists(a)
  /\ Begin(w, a, "create", "sync")
  /\ row' = [row EXCEPT ![a] = [type |-> type, cid |-> 0, peers |-> peers,
                                status |-> InitialStatus(type)]]
  /\ behind' = [behind EXCEPT ![a] = TRUE]
  /\ adds' = [adds EXCEPT ![w] = peers]
  /\ UNCHANGED <<box, file, leaked, snap, removes, other, copy>>

-----------------------------------------------------------------------------
(* startAgent and doStartAgent.                                            *)

StartAgent(w, a) ==
  /\ Begin(w, a, "start", "start")
  /\ UNCHANGED <<worldVars, snap, syncVars>>

AfterReadForStart(r) ==
  CASE r.type = "native" -> "running"
    [] r.type = "docker" /\ r.cid # 0 -> "exists"
    [] r.type = "docker" /\ r.cid = 0 -> "create"

ReadForStart(w) ==
  /\ pc[w] = "start" /\ Exists(at[w])
  /\ At(w, "start", AfterReadForStart(row[at[w]]))
  /\ Read(w, at[w])
  /\ UNCHANGED <<worldVars, syncVars>>

\* doStartAgent returns an error; recreateAgent's goroutine then says "stopped".
StartFails(w) ==
  IF back[w] = "recreate"
  THEN Go(w, "stopped") /\ UNCHANGED <<jobVars, snap, syncVars>>
  ELSE Finish(w)

NothingToStart(w) ==
  /\ pc[w] = "start" /\ ~Exists(at[w])
  /\ StartFails(w)
  /\ UNCHANGED worldVars

(* Any failure of the inspection counts as "no longer exists".             *)
ContainerExists(w) ==
  /\ At(w, "exists", "start box")
  /\ HasBox(at[w], snap[w].cid)
  /\ UNCHANGED <<worldVars, snap, syncVars>>

ContainerGone(w) ==
  /\ At(w, "exists", "clear")
  /\ ~HasBox(at[w], snap[w].cid) \/ "inspect" \in DockerFails
  /\ snap' = [snap EXCEPT ![w].cid = 0]
  /\ UNCHANGED <<worldVars, syncVars>>

ClearCid(w) ==
  /\ At(w, "clear", "create")
  /\ Update(at[w], snap[w])
  /\ UNCHANGED <<box, file, behind, leaked, snap, syncVars>>

WriteFile(a, r) ==
  /\ file' = [file EXCEPT ![a] = Listed(r)]
  /\ behind' = [behind EXCEPT ![a] = FALSE]

\* The name must be free.
CreateContainer(w) ==
  /\ At(w, "create", "save cid")
  /\ ~box[at[w]].there
  /\ WriteFile(at[w], snap[w])
  /\ box' = [box EXCEPT ![at[w]] = [id |-> NewId(at[w]), up |-> FALSE, there |-> TRUE]]
  /\ snap' = [snap EXCEPT ![w].cid = NewId(at[w])]
  /\ UNCHANGED <<row, leaked, syncVars>>

\* The model or auth config cannot be read, or Docker refuses.
CreateFails(w) ==
  /\ pc[w] = "create"
  /\ "create" \in DockerFails \/ box[at[w]].there
  /\ WriteFile(at[w], snap[w]) \/ UNCHANGED <<file, behind>>
  /\ StartFails(w)
  /\ UNCHANGED <<row, box, leaked>>

SaveCid(w) ==
  /\ At(w, "save cid", "start box")
  /\ Update(at[w], snap[w])
  /\ UNCHANGED <<box, file, behind, leaked, snap, syncVars>>

StartContainer(w) ==
  /\ At(w, "start box", "running")
  /\ HasBox(at[w], snap[w].cid)
  /\ box' = [box EXCEPT ![at[w]].up = TRUE]
  /\ UNCHANGED <<row, file, behind, leaked, snap, syncVars>>

StartContainerFails(w) ==
  /\ pc[w] = "start box"
  /\ "start" \in DockerFails \/ ~HasBox(at[w], snap[w].cid)
  /\ StartFails(w)
  /\ UNCHANGED worldVars

\* The last UpdateStatus of doStartAgent and of restartAgent's goroutine.
SayRunning(w) ==
  /\ pc[w] = "running"
  /\ UpdateStatus(at[w], "running")
  /\ Finish(w)
  /\ UNCHANGED <<box, file, behind, leaked>>

SayStopped(w) ==
  /\ pc[w] = "stopped"
  /\ UpdateStatus(at[w], "stopped")
  /\ Finish(w)
  /\ UNCHANGED <<box, file, behind, leaked>>

-----------------------------------------------------------------------------
(* stopAgent and doStopAgent.                                              *)

StopAgent(w, a) ==
  /\ Exists(a) /\ row[a].type = "docker"
  /\ Begin(w, a, "stop", "stop")
  /\ UNCHANGED <<worldVars, snap, syncVars>>

\* The agent may have become native, or be gone, since stopAgent looked.
ReadForStop(w) ==
  /\ pc[w] = "stop"
  /\ IF row[at[w]].type = "native"
     THEN Finish(w)
     ELSE /\ At(w, "stop", IF row[at[w]].cid # 0 THEN "stop box" ELSE "stopped")
          /\ Read(w, at[w])
          /\ UNCHANGED syncVars
  /\ UNCHANGED worldVars

\* The error of StopContainer is ignored.
StopContainer(w) ==
  /\ At(w, "stop box", "stopped")
  /\ \/ /\ HasBox(at[w], snap[w].cid)
        /\ box' = [box EXCEPT ![at[w]].up = FALSE]
     \/ /\ "stop" \in DockerFails \/ ~HasBox(at[w], snap[w].cid)
        /\ UNCHANGED box
  /\ UNCHANGED <<row, file, behind, leaked, snap, syncVars>>

-----------------------------------------------------------------------------
(* restartAgent.                                                           *)

HasContainer(a) == Exists(a) /\ row[a].type = "docker" /\ row[a].cid # 0

RestartAgent(w, a) ==
  /\ HasContainer(a)
  /\ Begin(w, a, "restart", "restarting")
  /\ Read(w, a)
  /\ UNCHANGED <<worldVars, syncVars>>

SayRestarting(w) ==
  /\ At(w, "restarting", "restart box")
  /\ UpdateStatus(at[w], "restarting")
  /\ UNCHANGED <<box, file, behind, leaked, snap, syncVars>>

RestartContainer(w) ==
  /\ At(w, "restart box", "running")
  /\ HasBox(at[w], snap[w].cid)
  /\ box' = [box EXCEPT ![at[w]].up = TRUE]
  /\ UNCHANGED <<row, file, behind, leaked, snap, syncVars>>

\* It may have stopped the container before it failed.
BadRestartFails(w) ==
  /\ At(w, "restart box", "running")
  /\ "restart" \in DockerFails \/ ~HasBox(at[w], snap[w].cid)
  /\ \/ HasBox(at[w], snap[w].cid) /\ box' = [box EXCEPT ![at[w]].up = FALSE]
     \/ UNCHANGED box
  /\ UNCHANGED <<row, file, behind, leaked, snap, syncVars>>

RestartFails(w) ==
  /\ At(w, "restart box", "stopped")
  /\ "restart" \in DockerFails \/ ~HasBox(at[w], snap[w].cid)
  /\ \/ HasBox(at[w], snap[w].cid) /\ box' = [box EXCEPT ![at[w]].up = FALSE]
     \/ UNCHANGED box
  /\ UNCHANGED <<row, file, behind, leaked, snap, syncVars>>

-----------------------------------------------------------------------------
(* recreateAgent.                                                          *)

RecreateAgent(w, a) ==
  /\ HasContainer(a)
  /\ Begin(w, a, "recreate", "recreating")
  /\ Read(w, a)
  /\ UNCHANGED <<worldVars, syncVars>>

SayRecreating(w) ==
  /\ At(w, "recreating", "remove box")
  /\ UpdateStatus(at[w], "recreating")
  /\ UNCHANGED <<box, file, behind, leaked, snap, syncVars>>

RemoveContainer(w) ==
  /\ At(w, "remove box", "reread")
  /\ HasBox(at[w], snap[w].cid)
  /\ box' = [box EXCEPT ![at[w]] = NoBox]
  /\ UNCHANGED <<row, file, behind, leaked, snap, syncVars>>

BadGoOn(w) ==
  /\ At(w, "remove box", "reread")
  /\ "remove" \in DockerFails \/ ~HasBox(at[w], snap[w].cid)
  /\ UNCHANGED <<worldVars, snap, syncVars>>

BadRemoveFails(w) ==
  /\ pc[w] = "remove box"
  /\ "remove" \in DockerFails \/ ~HasBox(at[w], snap[w].cid)
  /\ Finish(w)
  /\ UNCHANGED worldVars

RemoveFails(w) ==
  /\ At(w, "remove box", "stopped")
  /\ "remove" \in DockerFails \/ ~HasBox(at[w], snap[w].cid)
  /\ UNCHANGED <<worldVars, snap, syncVars>>

ReadForRecreate(w) ==
  /\ pc[w] = "reread"
  /\ At(w, "reread", IF Exists(at[w]) THEN "forget" ELSE "stopped")
  /\ snap' = [snap EXCEPT ![w] = [row[at[w]] EXCEPT !.cid = 0]]
  /\ UNCHANGED <<worldVars, syncVars>>

ForgetContainer(w) ==
  /\ At(w, "forget", "start")
  /\ Update(at[w], snap[w])
  /\ UNCHANGED <<box, file, behind, leaked, snap, syncVars>>

-----------------------------------------------------------------------------
(* updateAgent and deleteAgent.                                            *)

Changes(r, type, fields) == fields \/ (type = "docker" /\ r.type # "docker")

\* applyAgentUpdates on a copy; fields: image, endpoint, model or auth config.
UpdateAgent(w, a, type, fields, peers, peersGiven) ==
  LET r == row[a]
      drop == Changes(r, type, fields) /\ r.cid # 0
  IN  /\ Exists(a)
      /\ Begin(w, a, IF peersGiven THEN "peers" ELSE "update", IF drop THEN "discard" ELSE "save")
      /\ snap' = [snap EXCEPT ![w] = [r EXCEPT !.type = type, !.peers = IF peersGiven THEN peers ELSE @]]
      /\ adds' = [adds EXCEPT ![w] = IF peersGiven THEN peers \ r.peers ELSE {}]
      /\ removes' = [removes EXCEPT ![w] = IF peersGiven THEN r.peers \ peers ELSE {}]
      /\ UNCHANGED <<worldVars, other, copy>>

\* StopContainer and RemoveContainer; their errors are ignored, so is all that
\* follows of the copy in a deletion.  (Whether a forgotten container is still
\* up is left out.)
Discard(w) ==
  /\ At(w, "discard", IF back[w] = "delete" THEN "delete" ELSE "save")
  /\ \/ /\ HasBox(at[w], snap[w].cid)
        /\ box' = [box EXCEPT ![at[w]] = NoBox]
     \/ /\ "discard" \in DockerFails /\ HasBox(at[w], snap[w].cid)
        /\ box' = [box EXCEPT ![at[w]].up = FALSE]
     \/ ~HasBox(at[w], snap[w].cid) /\ UNCHANGED box
  /\ snap' = [snap EXCEPT ![w].cid = 0, ![w].status = "stopped"]
  /\ leaked' = [leaked EXCEPT ![at[w]] = box'[at[w]].there]
  /\ UNCHANGED <<row, file, behind, syncVars>>

\* Regeneration is due for a copy that says so.
Due(r) == r.status = "running" /\ r.cid # 0

Save(w) ==
  LET a == at[w]
  IN  /\ pc[w] = "save"
      /\ Update(a, snap[w])
      /\ behind' = [behind EXCEPT ![a] = @ \/ (snap[w].peers # row[a].peers /\ ~Due(snap[w]))]
      /\ IF back[w] = "peers"
         THEN Go(w, "sync") /\ UNCHANGED <<jobVars, snap, syncVars>>
         ELSE Finish(w)
      /\ UNCHANGED <<box, file, leaked>>

RegenerateOwn(w) ==
  /\ pc[w] = "regen"
  /\ IF Due(snap[w]) THEN WriteFile(at[w], snap[w]) ELSE UNCHANGED <<file, behind>>
  /\ Finish(w)
  /\ UNCHANGED <<row, box, leaked>>

BadFormerPeers(r) == {}
FormerPeers(r) == r.peers

DeleteAgent(w, a) ==
  /\ Exists(a)
  /\ Begin(w, a, "delete", "sync")
  /\ Read(w, a)
  /\ removes' = [removes EXCEPT ![w] = FormerPeers(row[a])]
  /\ UNCHANGED <<worldVars, adds, other, copy>>

DeleteRow(w) ==
  /\ pc[w] = "delete"
  /\ row' = [row EXCEPT ![at[w]] = NoRow]
  /\ Finish(w)
  /\ UNCHANGED <<box, file, behind, leaked>>

-----------------------------------------------------------------------------
(* syncSymmetricPeers: every peer's row is read, changed and written back, *)
(* and its config file follows if it is up.                                *)

Pending(w) == IF adds[w] # {} THEN adds[w] ELSE removes[w]

Changed(w, p) ==
  IF p \in adds[w] THEN row[p].peers \cup {at[w]} ELSE row[p].peers \ {at[w]}

Drop(w, p) ==
  /\ adds' = [adds EXCEPT ![w] = @ \ {p}]
  /\ removes' = [removes EXCEPT ![w] = IF p \in adds[w] THEN @ ELSE @ \ {p}]

ReadPeer(w, p) ==
  /\ p \in Pending(w)
  /\ IF Exists(p) /\ Changed(w, p) # row[p].peers
     THEN /\ At(w, "sync", "write peer")
          /\ other' = [other EXCEPT ![w] = p]
          /\ copy' = [copy EXCEPT ![w] = [row[p] EXCEPT !.peers = Changed(w, p)]]
          /\ UNCHANGED <<adds, removes>>
     ELSE /\ At(w, "sync", "sync")
          /\ Drop(w, p)
          /\ UNCHANGED <<other, copy>>
  /\ UNCHANGED <<worldVars, snap>>

\* Whether a changed peer's file is written, and when it is owed that.
BadDueForPeer(r) == r.type = "docker" /\ r.status = "running" /\ r.cid = 0
DueForPeer(r) == r.type = "docker" /\ Due(r)
Owed(r) == r.type = "docker" /\ Due(r)

WritePeer(w) ==
  LET p == other[w]
      r == copy[w]
  IN  /\ At(w, "write peer", "sync")
      /\ Update(p, r)
      /\ IF DueForPeer(r)
         THEN WriteFile(p, r)
         ELSE behind' = [behind EXCEPT ![p] = @ \/ ~Owed(r)] /\ UNCHANGED file
      /\ Drop(w, p)
      /\ other' = [other EXCEPT ![w] = NoAgent]
      /\ copy' = [copy EXCEPT ![w] = NoRow]
      /\ UNCHANGED <<box, leaked, snap>>

\* All peers are done: what comes next depends on the request.
Synced(w) ==
  /\ pc[w] = "sync" /\ Pending(w) = {}
  /\ CASE back[w] = "create" -> Finish(w)
       [] back[w] = "peers" -> Go(w, "regen") /\ UNCHANGED <<jobVars, snap, syncVars>>
       [] back[w] = "delete" ->
            /\ Go(w, IF snap[w].cid # 0 THEN "discard" ELSE "delete")
            /\ UNCHANGED <<jobVars, snap, syncVars>>
  /\ UNCHANGED worldVars

\* syncAgentPeers reads the row; RegenerateOwn is the rest of it.
SyncPeers(w, a) ==
  /\ Exists(a) /\ row[a].type = "docker" /\ Due(row[a])
  /\ Begin(w, a, "sync", "regen")
  /\ Read(w, a)
  /\ UNCHANGED <<worldVars, syncVars>>

-----------------------------------------------------------------------------
AtRest == \A w \in Workers : pc[w] = "idle"

(* Somebody removes a container behind the portal's back.                  *)
Vanish(a) ==
  /\ box[a].there
  /\ box' = [box EXCEPT ![a].there = FALSE]
  /\ leaked' = [leaked EXCEPT ![a] = FALSE]
  /\ UNCHANGED <<row, file, behind, pc, jobVars, snap, syncVars>>

(* The frontend offers the other agents that exist as peers.               *)
Choices(a) == SUBSET {p \in Agents \ {a} : Exists(p)}

Request(w, a) ==
  \/ \E type \in Types, peers \in Choices(a) : CreateAgent(w, a, type, peers)
  \/ StartAgent(w, a) \/ StopAgent(w, a) \/ RestartAgent(w, a) \/ RecreateAgent(w, a)
  \/ \E type \in Types, fields \in BOOLEAN, peers \in Choices(a), given \in BOOLEAN :
       UpdateAgent(w, a, type, fields, peers, given)
  \/ DeleteAgent(w, a) \/ SyncPeers(w, a)

Step(w) ==
  \/ ReadForStart(w) \/ NothingToStart(w) \/ ContainerExists(w) \/ ContainerGone(w) \/ ClearCid(w)
  \/ CreateContainer(w) \/ CreateFails(w) \/ SaveCid(w) \/ StartContainer(w) \/ StartContainerFails(w)
  \/ SayRunning(w) \/ SayStopped(w)
  \/ ReadForStop(w) \/ StopContainer(w)
  \/ SayRestarting(w) \/ RestartContainer(w) \/ RestartFails(w)
  \/ SayRecreating(w) \/ RemoveContainer(w) \/ RemoveFails(w) \/ ReadForRecreate(w) \/ ForgetContainer(w)
  \/ Discard(w) \/ Save(w) \/ RegenerateOwn(w) \/ DeleteRow(w)
  \/ (\E p \in Agents : ReadPeer(w, p)) \/ WritePeer(w) \/ Synced(w)

Next ==
  \/ \E w \in Workers : Step(w) \/ \E a \in Agents : Request(w, a)
  \/ \E a \in Agents : Vanish(a)

Spec == Init /\ [][Next]_vars
FairSpec == Spec /\ \A w \in Workers : WF_vars(Step(w))

-----------------------------------------------------------------------------
(* Properties.                                                             *)

(* Whenever no request is at work, a container exists only if its agent's  *)
(* row names it: otherwise nobody would ever remove it, and its name would *)
(* keep every later start of the agent from creating one.  No failing call *)
(* of Docker's comes to that, but for the one the code does not look at: an*)
(* update or a deletion forgets the container it failed to remove.         *)
NoOrphan ==
  AtRest => \A a \in Agents : box[a].there => (row[a].cid = box[a].id \/ leaked[a])

(* Peers list each other, also after updates and deletions.                *)
PeersSymmetric ==
  AtRest => \A a, b \in Agents : b \in row[a].peers => a \in row[b].peers

(* A docker agent is called "running" only after Docker has said that the  *)
(* container its row names is up, and nothing has stopped it since.        *)
RunningJustified ==
  [][\A a \in Agents :
       (row'[a].status = "running" /\ row[a].status # "running" /\ row'[a].type = "docker") =>
         box[a].id = row'[a].cid /\ box[a].up]_vars

(* "restarting" and "recreating" do not last, whatever Docker answers.     *)
Settles ==
  \A a \in Agents :
    (row[a].status \in {"restarting", "recreating"}) ~> (row[a].status \in {"running", "stopped", "none"})

(* The config file of a running agent lists exactly its peers, unless they *)
(* were edited while it was down: starting an existing container does not  *)
(* write the file.                                                         *)
FileCurrent ==
  AtRest => \A a \in Agents :
    (Owed(row[a]) /\ ~behind[a]) => file[a] = Listed(row[a])

=============================================================================
