------------------------ MODULE IdentityFilesProofs ------------------------
(***************************************************************************)
(* Proofs about IdentityFiles, for any savers and texts: a text that was   *)
(* stored and copied without an overlap stays what the agent works with,   *)
(* and the default replaces only a text that came in late.                 *)
(***************************************************************************)
EXTENDS IdentityFiles, TLAPS

(* The last writer's copy is due exactly while it is on its way from the   *)
(* row to the container; without an overlap nobody else is on that way.    *)
Order ==
  /\ fate = "open" <=> BetweenRowAndCopy(owner)
  /\ fate = "open" => row = text[owner]
  /\ ~overlapped => \A w \in Writers \ {owner} : ~BetweenRowAndCopy(w)

(* The injection writes the default, and over a user's text only if late.  *)
Injection ==
  /\ text[Starter] = Default
  /\ \A s \in Savers : pc[s] \in {"find", "store"} => text[s] # Default
  /\ pc[Starter] \in {"find", "store"} /\ ~late => row \notin Texts

IInv == TypeOK /\ Order /\ SyncedStays /\ Injection

LEMMA Constants ==
  /\ Starter \in Writers /\ Savers = Writers \ {Starter}
  /\ Default \in Contents /\ Default \notin Texts /\ NoText \notin Texts /\ Empty \notin Texts
  /\ Texts \cup {Empty} \subseteq Contents
BY WritersAssumption, ContentsAssumption DEF Writers, Contents

LEMMA InvInit == Init => IInv
<1> SUFFICES ASSUME Init PROVE IInv
  OBVIOUS
<1>1. TypeOK
  BY Constants DEF Init, TypeOK, NoAgent, Agent
<1>2. Order /\ SyncedStays /\ Injection
  BY Constants DEF Init, Order, SyncedStays, Injection, BetweenRowAndCopy
<1> QED
  BY <1>1, <1>2 DEF IInv

-----------------------------------------------------------------------------
(* Steps of a writer: what each does to the writers' way to the container. *)

LEMMA InvPut ==
  ASSUME IInv, NEW s \in Savers, NEW t \in Texts \cup {Empty}, Put(s, t)
  PROVE  IInv'
<1> USE Constants DEF IInv, Put, Goto, files
<1>1. TypeOK'
  BY DEF TypeOK, Contents
<1>2. Order'
  BY DEF TypeOK, Order, BetweenRowAndCopy
<1>3. SyncedStays'
  BY DEF TypeOK, Order, SyncedStays, BetweenRowAndCopy
<1>4. Injection'
  BY ContentsAssumption DEF TypeOK, Injection
<1> QED
  BY <1>1, <1>2, <1>3, <1>4

LEMMA InvFind ==
  ASSUME IInv, NEW w \in Writers, Find(w)
  PROVE  IInv'
<1> USE Constants DEF IInv, Find, Goto, files
<1>1. TypeOK'
  BY DEF TypeOK, Contents
<1>2. Order'
  BY DEF TypeOK, Order, BetweenRowAndCopy
<1>3. SyncedStays'
  BY DEF TypeOK, Order, SyncedStays, BetweenRowAndCopy
<1>4. Injection'
  BY ContentsAssumption DEF TypeOK, Injection
<1> QED
  BY <1>1, <1>2, <1>3, <1>4

LEMMA InvStore ==
  ASSUME IInv, NEW w \in Writers, Store(w)
  PROVE  IInv'
<1> USE Constants DEF IInv, Store, Goto, own
<1>1. TypeOK'
  BY DEF TypeOK, Contents
<1>2. Order'
  BY DEF TypeOK, Order, BetweenRowAndCopy
<1>3. SyncedStays'
  BY DEF TypeOK, Order, SyncedStays, BetweenRowAndCopy
<1>4. Injection'
  BY ContentsAssumption DEF TypeOK, Injection
<1> QED
  BY <1>1, <1>2, <1>3, <1>4

LEMMA InvStoreFails ==
  ASSUME IInv, NEW w \in Writers, StoreFails(w)
  PROVE  IInv'
<1> USE Constants DEF IInv, StoreFails, Leave, files, own
<1>1. TypeOK'
  BY DEF TypeOK, Contents
<1>2. Order'
  BY DEF TypeOK, Order, BetweenRowAndCopy
<1>3. SyncedStays'
  BY DEF TypeOK, Order, SyncedStays, BetweenRowAndCopy
<1>4. Injection'
  BY ContentsAssumption DEF TypeOK, Injection
<1> QED
  BY <1>1, <1>2, <1>3, <1>4

LEMMA InvCopy ==
  ASSUME IInv, NEW w \in Writers, Copy(w)
  PROVE  IInv'
<1> USE Constants DEF IInv, Copy, Leave, Settle, own
<1>1. TypeOK'
  BY DEF TypeOK, Contents
<1>2. Order'
  BY DEF TypeOK, Order, BetweenRowAndCopy
<1>3. SyncedStays'
  BY DEF TypeOK, Order, SyncedStays, BetweenRowAndCopy
<1>4. Injection'
  BY ContentsAssumption DEF TypeOK, Injection
<1> QED
  BY <1>1, <1>2, <1>3, <1>4

LEMMA InvCopyFails ==
  ASSUME IInv, NEW w \in Writers, CopyFails(w)
  PROVE  IInv'
<1> USE Constants DEF IInv, CopyFails, Leave, Settle, own
<1>1. TypeOK'
  BY DEF TypeOK, Contents
<1>2. Order'
  BY DEF TypeOK, Order, BetweenRowAndCopy
<1>3. SyncedStays'
  BY DEF TypeOK, Order, SyncedStays, BetweenRowAndCopy
<1>4. Injection'
  BY ContentsAssumption DEF TypeOK, Injection
<1> QED
  BY <1>1, <1>2, <1>3, <1>4

LEMMA InvReread ==
  ASSUME IInv, NEW s \in Savers, Reread(s)
  PROVE  IInv'
<1> USE Constants DEF IInv, Reread, Goto, files, own
<1>1. TypeOK'
  BY DEF TypeOK, Contents
<1>2. Order'
  BY DEF TypeOK, Order, BetweenRowAndCopy
<1>3. SyncedStays'
  BY DEF TypeOK, Order, SyncedStays, BetweenRowAndCopy
<1>4. Injection'
  BY ContentsAssumption DEF TypeOK, Injection
<1> QED
  BY <1>1, <1>2, <1>3, <1>4

LEMMA InvSkipCopy ==
  ASSUME IInv, NEW s \in Savers, SkipCopy(s)
  PROVE  IInv'
<1> USE Constants DEF IInv, SkipCopy, Goto, Settle, own
<1>1. TypeOK'
  BY DEF TypeOK, Contents
<1>2. Order'
  BY DEF TypeOK, Order, BetweenRowAndCopy
<1>3. SyncedStays'
  BY DEF TypeOK, Order, SyncedStays, BetweenRowAndCopy
<1>4. Injection'
  BY ContentsAssumption DEF TypeOK, Injection
<1> QED
  BY <1>1, <1>2, <1>3, <1>4

-----------------------------------------------------------------------------
(* The agent's lifecycle.                                                  *)

LEMMA InvCrash ==
  ASSUME IInv, Crash
  PROVE  IInv'
<1> USE Constants DEF IInv, Crash, own
<1>1. TypeOK'
  BY DEF TypeOK, Contents
<1>2. Order'
  BY DEF TypeOK, Order, BetweenRowAndCopy
<1>3. SyncedStays'
  BY DEF TypeOK, Order, SyncedStays, BetweenRowAndCopy
<1>4. Injection'
  BY ContentsAssumption DEF TypeOK, Injection
<1> QED
  BY <1>1, <1>2, <1>3, <1>4

LEMMA InvInject ==
  ASSUME IInv, InjectDefault \/ LookFails
  PROVE  IInv'
<1> USE Constants DEF IInv, InjectDefault, LookFails, Goto
<1>1. TypeOK'
  BY DEF TypeOK, Contents
<1>2. Order'
  BY DEF TypeOK, Order, BetweenRowAndCopy
<1>3. SyncedStays'
  BY DEF TypeOK, Order, SyncedStays, BetweenRowAndCopy
<1>4. Injection'
  BY ContentsAssumption DEF TypeOK, Injection
<1> QED
  BY <1>1, <1>2, <1>3, <1>4

LEMMA InvLifecycle ==
  ASSUME IInv, NEW here, NEW there, Lifecycle(here, there),
         {here, there} \subseteq {"idle", "create", "boot", "check", "running", "restart", "remove"},
         agent' \in Agent, box' \in BOOLEAN, again' \in BOOLEAN
  PROVE  IInv'
<1> USE Constants DEF IInv, Lifecycle, Goto, files, own
<1>1. TypeOK'
  BY DEF TypeOK
<1>2. Order'
  BY DEF TypeOK, Order, BetweenRowAndCopy
<1>3. SyncedStays'
  BY DEF SyncedStays
<1>4. Injection'
  BY DEF TypeOK, Injection
<1> QED
  BY <1>1, <1>2, <1>3, <1>4

LEMMA InvStartFails ==
  ASSUME IInv, StartFails
  PROVE  IInv'
<1> USE Constants DEF IInv, StartFails, files, own
<1>1. TypeOK'
  BY DEF TypeOK, Agent
<1>2. Order'
  BY DEF TypeOK, Order, BetweenRowAndCopy
<1>3. SyncedStays'
  BY DEF SyncedStays
<1>4. Injection'
  BY DEF TypeOK, Injection
<1> QED
  BY <1>1, <1>2, <1>3, <1>4

LEMMA InvAgent ==
  ASSUME IInv,
         \/ CreateAgent \/ StartAgent \/ CreateContainer \/ StartContainer
         \/ KeepContent \/ SayRunning \/ StopAgent
         \/ RestartAgent \/ (\E status \in {"running", "stopped"} : Restarted(status))
         \/ RecreateAgent \/ RemoveContainer \/ RemoveFails \/ UpdateAgent \/ DeleteAgent
  PROVE  IInv'
<1>1. PICK here, there \in {"idle", "create", "boot", "check", "running", "restart", "remove"} :
        Lifecycle(here, there)
  BY DEF CreateAgent, StartAgent, CreateContainer, StartContainer, KeepContent, SayRunning,
         StopAgent, RestartAgent, Restarted, RecreateAgent, RemoveContainer, RemoveFails,
         UpdateAgent, DeleteAgent, DropContainer
<1>2. agent \in Agent /\ box \in BOOLEAN /\ again \in BOOLEAN
  BY DEF IInv, TypeOK
<1>3. agent' \in Agent /\ box' \in BOOLEAN /\ again' \in BOOLEAN
  <2>1. CASE CreateAgent \/ StartAgent \/ CreateContainer \/ StartContainer
    <3>1. CASE CreateAgent
      BY <1>2, <3>1 DEF CreateAgent, NoAgent, Agent
    <3>2. CASE StartAgent
      <4>1. [agent EXCEPT !.cid = FALSE] \in Agent
        BY <1>2 DEF Agent
      <4> QED
        BY <1>2, <3>2, <4>1 DEF StartAgent
    <3>3. CASE CreateContainer \/ StartContainer
      BY <1>2, <3>3 DEF CreateContainer, StartContainer, Agent
    <3> QED
      BY <2>1, <3>1, <3>2, <3>3
  <2>2. CASE KeepContent \/ SayRunning \/ StopAgent \/ RestartAgent
    BY <1>2, <2>2 DEF KeepContent, SayRunning, StopAgent, RestartAgent, Agent
  <2>3. CASE \E status \in {"running", "stopped"} : Restarted(status)
    BY <1>2, <2>3 DEF Restarted, Agent
  <2>4. CASE RecreateAgent \/ RemoveContainer \/ RemoveFails
    BY <1>2, <2>4 DEF RecreateAgent, RemoveContainer, RemoveFails, Agent
  <2>5. CASE UpdateAgent \/ DeleteAgent
    <3>1. NoAgent \in Agent /\ [agent EXCEPT !.cid = FALSE, !.status = "stopped"] \in Agent
      BY <1>2 DEF NoAgent, Agent
    <3>2. agent' \in {agent, NoAgent, [agent EXCEPT !.cid = FALSE, !.status = "stopped"]}
      BY <2>5 DEF UpdateAgent, DeleteAgent, DropContainer
    <3>3. box' \in BOOLEAN /\ again' = again
      BY <1>2, <2>5 DEF UpdateAgent, DeleteAgent, DropContainer
    <3> QED
      BY <1>2, <3>1, <3>2, <3>3
  <2> QED
    BY <2>1, <2>2, <2>3, <2>4, <2>5
<1> QED
  BY <1>1, <1>3, InvLifecycle

-----------------------------------------------------------------------------
(* The results.                                                            *)

LEMMA InvNext ==
  ASSUME IInv, [Next]_vars
  PROVE  IInv'
<1>1. CASE UNCHANGED vars
  BY <1>1 DEF vars, files, own, IInv, TypeOK, Order, SyncedStays, Injection, BetweenRowAndCopy
<1>2. CASE \E s \in Savers :
             (\E t \in Texts \cup {Empty} : Put(s, t)) \/ Reread(s) \/ SkipCopy(s)
  BY <1>2, InvPut, InvReread, InvSkipCopy
<1>3. CASE \E w \in Writers : Find(w) \/ Store(w) \/ StoreFails(w) \/ Copy(w) \/ CopyFails(w)
  BY <1>3, InvFind, InvStore, InvStoreFails, InvCopy, InvCopyFails
<1>4. CASE InjectDefault \/ LookFails \/ StartFails \/ Crash
  BY <1>4, InvInject, InvStartFails, InvCrash
<1> QED
  BY <1>1, <1>2, <1>3, <1>4, InvAgent DEF Next

THEOREM Inductive == Spec => []IInv
<1>1. IInv /\ [Next]_vars => IInv'
  BY InvNext
<1> QED
  BY <1>1, InvInit, PTL DEF Spec

THEOREM TypeCorrect == Spec => []TypeOK
BY Inductive, PTL DEF IInv

(* A text stored and copied without an overlap stays in force.             *)
THEOREM SyncedStaysSynced == Spec => []SyncedStays
BY Inductive, PTL DEF IInv

(* The default never replaces a text that the injection saw.               *)
THEOREM DefaultYieldsToTexts == Spec => DefaultYields
<1>1. IInv /\ [Next]_vars => [(row \in Texts /\ row' = Default) => late]_row
  <2> SUFFICES ASSUME IInv, [Next]_vars, row' # row, row \in Texts, row' = Default
               PROVE  late
    OBVIOUS
  <2>1. PICK w \in Writers : Store(w)
    <3>1. CASE UNCHANGED vars
      BY <3>1 DEF vars, files
    <3>2. CASE \E s \in Savers :
                 (\E t \in Texts \cup {Empty} : Put(s, t)) \/ Reread(s) \/ SkipCopy(s)
      BY <3>2 DEF Put, Reread, SkipCopy, files
    <3>3. CASE \E v \in Writers : Find(v) \/ Store(v) \/ StoreFails(v) \/ Copy(v) \/ CopyFails(v)
      BY <3>3 DEF Find, StoreFails, Copy, CopyFails, files
    <3>4. CASE InjectDefault \/ LookFails \/ StartFails \/ Crash
      BY <3>4 DEF InjectDefault, LookFails, StartFails, Crash, files
    <3>5. CASE \/ CreateAgent \/ StartAgent \/ CreateContainer \/ StartContainer
               \/ KeepContent \/ SayRunning \/ StopAgent
               \/ RestartAgent \/ (\E status \in {"running", "stopped"} : Restarted(status))
               \/ RecreateAgent \/ RemoveContainer \/ RemoveFails \/ UpdateAgent \/ DeleteAgent
      BY <3>5 DEF CreateAgent, StartAgent, CreateContainer, StartContainer, KeepContent,
                  SayRunning, StopAgent, RestartAgent, Restarted, RecreateAgent,
                  RemoveContainer, RemoveFails, UpdateAgent, DeleteAgent, DropContainer,
                  Lifecycle, files
    <3> QED
      BY <3>1, <3>2, <3>3, <3>4, <3>5 DEF Next
  <2>2. text[w] = Default /\ pc[w] = "store"
    BY <2>1 DEF Store, Goto
  <2>3. w = Starter
    BY <2>2, Constants DEF IInv, Injection
  <2> QED
    BY <2>2, <2>3 DEF IInv, Injection
<1> QED
  BY <1>1, Inductive, PTL DEF Spec, DefaultYields

=============================================================================
