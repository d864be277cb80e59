------------------------- MODULE TaskForwardProofs -------------------------
(***************************************************************************)
(* The safety of task forwarding for any set of tasks and of agents, any   *)
(* number of slots and any bound on updates: every invariant of TaskForward*)
(* that TLC checks, and SentOnce.                                          *)
(***************************************************************************)
EXTENDS TaskForward, FiniteSetTheorems, TLAPS

Phases == {"none", "done"} \cup Sending \cup Following

(* The types, free apart: that it never exceeds SemCap is SlotsAccounted.  *)
Shaped ==
  /\ LogTypeOK
  /\ fpc \in [TaskIds -> {"none", "list", "loop", "done"}]
  /\ channel \in [TaskIds -> ChannelIds]
  /\ from \in [TaskIds -> Agents]
  /\ todo \in [TaskIds -> SUBSET Agents]
  /\ free \in Nat
  /\ dpc \in [Deliveries -> Phases]
  /\ ev \in [Deliveries -> Updates]
  /\ nev \in [Deliveries -> 0 .. MaxEvents]
  /\ sent \in SUBSET Deliveries
  /\ \A d \in Deliveries :
       dpc[d] \in {"statusRead", "statusWrite"} => ev[d].status # "none"
  /\ \A d \in sent : dpc[d] # "none"

(* Deliveries are started by the loop of their task, which has a row, for  *)
(* agents the loop has come to, and never for the sender.                  *)
Started ==
  /\ \A t \in TaskIds : fpc[t] # "none" => HasRow(t)
  /\ \A t \in TaskIds, a \in Agents :
       dpc[<<t, a>>] # "none" => fpc[t] \in {"loop", "done"} /\ a # from[t]
  /\ \A t \in TaskIds : \A a \in todo[t] : dpc[<<t, a>>] = "none"

Senders == {d \in Deliveries : dpc[d] \in Sending}

Slots == IsFiniteSet(Senders) /\ SlotsAccounted

(* What RequestKept says of a row, for the rows in the table and for those *)
(* that a goroutine has read and will write back.                          *)
KeepsRequest(r) ==
  /\ r.messages # <<>> /\ r.messages[1] = Ask
  /\ \A i \in 2 .. Len(r.messages) : r.messages[i] = Answer

Kept ==
  /\ \A t \in TaskIds : fpc[t] # "none" => KeepsRequest(row[t])
  /\ \A d \in Deliveries : snap[d] # NoRow => KeepsRequest(snap[d])

Sound == Shaped /\ Started

IInv == Sound /\ Slots /\ Kept /\ GeneralReachesAll

-----------------------------------------------------------------------------
(* The task log.                                                           *)

LEMMA RowOf ==
  ASSUME NEW s \in Statuses, NEW ms \in Seq(Messages)
  PROVE  [status |-> s, messages |-> ms] \in Rows
  BY DEF Rows

(* Each operation keeps the types and never removes a row.                 *)
RowsStay == \A t \in TaskIds : HasRow(t) => HasRow(t)'

LEMMA CreateTyped ==
  ASSUME LogTypeOK, NEW t \in TaskIds, CreateTask(t, Ask)
  PROVE  LogTypeOK' /\ HasRow(t)' /\ RowsStay
<1>1. <<Ask>> \in Seq(Messages) /\ "pending" \in Statuses
  BY ForwardMessagesAssumption DEF Statuses
<1>2. [status |-> "pending", messages |-> <<Ask>>] \in Rows
  BY <1>1, RowOf
<1> QED
  BY <1>2, NoRowAssumption DEF LogTypeOK, CreateTask, HasRow, RowsStay

LEMMA ReadTyped ==
  ASSUME LogTypeOK, NEW d \in Deliveries, ReadTask(d, d[1])
  PROVE  LogTypeOK' /\ RowsStay
  BY ForwardActorsAssumption DEF LogTypeOK, ReadTask, Deliveries, HasRow, RowsStay

LEMMA WriteStatusTyped ==
  ASSUME LogTypeOK, NEW d \in Deliveries, NEW s \in Statuses, WriteStatus(d, d[1], s)
  PROVE  LogTypeOK' /\ RowsStay
<1>1. snap[d] \in Rows \cup {NoRow} /\ d[1] \in TaskIds
  BY ForwardActorsAssumption DEF LogTypeOK, Deliveries
<1>2. snap' \in [Actors -> Rows \cup {NoRow}]
  BY DEF LogTypeOK, WriteStatus
<1>3. CASE snap[d] = NoRow
  BY <1>2, <1>3 DEF LogTypeOK, WriteStatus, HasRow, RowsStay
<1>4. CASE snap[d] # NoRow
  <2>1. StatusRow(snap[d], s) \in Rows
    BY <1>1, <1>4 DEF StatusRow, Rows
  <2> QED
    BY <1>1, <1>2, <1>4, <2>1, NoRowAssumption DEF LogTypeOK, WriteStatus, HasRow, RowsStay
<1> QED
  BY <1>3, <1>4

(* AppendMessage runs on a row that exists once one was read.              *)
LEMMA MessagesRowTyped ==
  ASSUME NEW now \in Rows, NEW old \in Rows
  PROVE  MessagesRow(now, old, Answer) \in Rows
<1>1. Append(old.messages, Answer) \in Seq(Messages)
  BY ForwardMessagesAssumption DEF Rows
<1> QED
  BY <1>1 DEF MessagesRow, Rows

LEMMA WriteMessagesTyped ==
  ASSUME LogTypeOK, NEW d \in Deliveries, WriteMessages(d, d[1], Answer), HasRow(d[1])
  PROVE  LogTypeOK' /\ RowsStay
<1>1. /\ snap[d] \in Rows \cup {NoRow}
      /\ d[1] \in TaskIds
      /\ row[d[1]] \in Rows
  BY ForwardActorsAssumption DEF LogTypeOK, Deliveries, HasRow
<1>2. snap' \in [Actors -> Rows \cup {NoRow}]
  BY DEF LogTypeOK, WriteMessages
<1>3. CASE snap[d] = NoRow
  BY <1>2, <1>3 DEF LogTypeOK, WriteMessages, HasRow, RowsStay
<1>4. CASE snap[d] # NoRow
  <2>1. MessagesRow(row[d[1]], snap[d], Answer) \in Rows
    BY <1>1, <1>4, MessagesRowTyped
  <2> QED
    BY <1>1, <1>2, <1>4, <2>1, NoRowAssumption DEF LogTypeOK, WriteMessages, HasRow, RowsStay
<1> QED
  BY <1>3, <1>4

LEMMA KeepsRequestAppend ==
  ASSUME NEW now \in Rows, NEW old \in Rows, KeepsRequest(old)
  PROVE  KeepsRequest(MessagesRow(now, old, Answer))
<1> DEFINE ms == old.messages
           r == MessagesRow(now, old, Answer)
<1>1. ms \in Seq(Messages) /\ Answer \in Messages /\ Len(ms) \in Nat /\ Len(ms) # 0
  BY ForwardMessagesAssumption DEF Rows, KeepsRequest
<1>2. r.messages = Append(ms, Answer)
  BY DEF MessagesRow, Rows
<1>3. /\ Len(Append(ms, Answer)) = Len(ms) + 1
      /\ \A i \in 1 .. Len(ms) : Append(ms, Answer)[i] = ms[i]
      /\ Append(ms, Answer)[Len(ms) + 1] = Answer
  BY <1>1
<1>4. r.messages # <<>> /\ r.messages[1] = Ask
  BY <1>1, <1>2, <1>3 DEF KeepsRequest
<1>5. ASSUME NEW i \in 2 .. Len(r.messages) PROVE r.messages[i] = Answer
  BY <1>1, <1>2, <1>3, <1>5 DEF KeepsRequest
<1> QED
  BY <1>4, <1>5 DEF KeepsRequest

-----------------------------------------------------------------------------
(* Types, and who starts a delivery.                                       *)

LEMMA GotoMoves ==
  ASSUME dpc \in [Deliveries -> Phases], NEW d \in Deliveries,
         NEW here \in Phases \ {"none"}, NEW there \in Phases \ {"none"},
         Goto(d, here, there)
  PROVE  /\ dpc' \in [Deliveries -> Phases]
         /\ dpc[d] = here /\ dpc'[d] = there
         /\ \A e \in Deliveries \ {d} : dpc'[e] = dpc[e]
         /\ \A e \in Deliveries : dpc'[e] = "none" <=> dpc[e] = "none"
  BY DEF Goto

LEMMA StartedKept ==
  ASSUME Started, UNCHANGED loopVars, RowsStay,
         \A e \in Deliveries : dpc'[e] = "none" <=> dpc[e] = "none",
         Shaped
  PROVE  Started'
<1>1. ASSUME NEW t \in TaskIds, NEW a \in Agents
      PROVE  dpc'[<<t, a>>] = "none" <=> dpc[<<t, a>>] = "none"
  BY DEF Deliveries
<1>2. \A t \in TaskIds : todo[t] \subseteq Agents
  BY DEF Shaped
<1> QED
  BY <1>1, <1>2 DEF Started, loopVars, RowsStay

LEMMA SoundInit == Init => Sound
<1> SUFFICES ASSUME Init PROVE Sound
  OBVIOUS
<1>1. General \in ChannelIds
  BY DEF ChannelIds
<1>2. free \in Nat
  BY SemCapAssumption DEF Init
<1>3. ev \in [Deliveries -> Updates]
  BY DEF Init, NoUpdate, Updates
<1>4. nev \in [Deliveries -> 0 .. MaxEvents]
  BY MaxEventsAssumption DEF Init
<1>5. Shaped
  BY <1>1, <1>2, <1>3, <1>4 DEF Init, Shaped, LogInit, LogTypeOK, Phases
<1>6. Started
  BY DEF Init, Started, Deliveries
<1> QED
  BY <1>5, <1>6 DEF Sound

LEMMA SoundCreate ==
  ASSUME Sound, NEW t \in TaskIds, NEW ch \in ChannelIds, HandleTaskCreate(t, ch)
  PROVE  Sound'
<1>1. LogTypeOK' /\ HasRow(t)' /\ RowsStay
  BY CreateTyped DEF Sound, Shaped, HandleTaskCreate
<1>2. Shaped'
  BY <1>1 DEF Sound, Shaped, HandleTaskCreate, sendVars
<1>3. Started'
  BY <1>1 DEF Sound, Started, Shaped, RowsStay, HandleTaskCreate, sendVars
<1> QED
  BY <1>2, <1>3 DEF Sound

LEMMA SoundLoop ==
  ASSUME Sound, NEW t \in TaskIds, LoopStep(t)
  PROVE  Sound'
<1> USE DEF Sound, Shaped, Started, sendVars
<1>1. CASE ListAgents(t)
  <2>1. \A a \in Agents : dpc[<<t, a>>] = "none"
    BY <1>1 DEF ListAgents
  <2>2. LogTypeOK' /\ \A u \in TaskIds : HasRow(u)' <=> HasRow(u)
    BY <1>1 DEF ListAgents, logVars, LogTypeOK, HasRow
  <2> QED
    BY <1>1, <2>1, <2>2 DEF ListAgents
<1>2. CASE \E a \in Agents : Skip(t, a)
  BY <1>2 DEF Skip, logVars, LogTypeOK, HasRow
<1>3. CASE \E a \in Agents : StartSend(t, a)
  <2>1. PICK a \in Agents : StartSend(t, a)
    BY <1>3
  <2>2. <<t, a>> \in Deliveries
    BY DEF Deliveries
  <2>3. LogTypeOK' /\ \A u \in TaskIds : HasRow(u)' <=> HasRow(u)
    BY <2>1 DEF StartSend, logVars, LogTypeOK, HasRow
  <2>4. /\ dpc' \in [Deliveries -> Phases]
        /\ \A e \in Deliveries : dpc'[e] = IF e = <<t, a>> THEN "post" ELSE dpc[e]
    BY <2>1, <2>2 DEF StartSend, Phases, Sending
  <2>5. todo' \in [TaskIds -> SUBSET Agents] /\ free' \in Nat
    BY <2>1 DEF StartSend, SlotFree
  <2>6. Shaped'
    BY <2>1, <2>3, <2>4, <2>5 DEF StartSend
  <2>7. a # from[t]
    BY <2>1 DEF StartSend, PassedOver
  <2>8. ASSUME NEW u \in TaskIds, NEW b \in Agents
        PROVE  dpc'[<<u, b>>] = IF u = t /\ b = a THEN "post" ELSE dpc[<<u, b>>]
    BY <2>4 DEF Deliveries
  <2>9. ASSUME NEW u \in TaskIds, NEW b \in Agents, dpc'[<<u, b>>] # "none"
        PROVE  fpc'[u] \in {"loop", "done"} /\ b # from'[u]
    BY <2>1, <2>7, <2>8, <2>9 DEF StartSend
  <2>10. ASSUME NEW u \in TaskIds, NEW b \in todo'[u]
         PROVE  dpc'[<<u, b>>] = "none"
    BY <2>1, <2>5, <2>8 DEF StartSend
  <2> QED
    BY <2>1, <2>3, <2>6, <2>9, <2>10 DEF StartSend
<1>4. CASE FinishLoop(t)
  BY <1>4 DEF FinishLoop, logVars, LogTypeOK, HasRow
<1> QED
  BY <1>1, <1>2, <1>3, <1>4 DEF LoopStep

LEMMA SoundSend ==
  ASSUME Sound, NEW d \in Deliveries, SendStep(d)
  PROVE  /\ Sound' /\ UNCHANGED loopVars
         /\ dpc[d] \in Sending /\ dpc'[d] \in Sending \cup {"connect", "done"}
         /\ \A e \in Deliveries \ {d} : dpc'[e] = dpc[e]
<1> USE DEF Sound
<1>1. dpc \in [Deliveries -> Phases] /\ LogTypeOK /\ Shaped
  BY DEF Shaped
<1>2. {"post", "failRead", "failWrite", "connect", "done"} \subseteq Phases \ {"none"}
  BY DEF Phases, Sending, Following
<1>3. /\ LogTypeOK' /\ RowsStay /\ free' \in Nat
      /\ sent' \in {sent, sent \cup {d}} /\ UNCHANGED <<loopVars, ev, nev>>
      /\ \E here \in {"post", "failRead", "failWrite"} :
         \E there \in {"failRead", "failWrite", "connect", "done"} : Goto(d, here, there)
  <2> USE DEF Shaped, logVars, LogTypeOK, RowsStay, HasRow
  <2>1. CASE PostUnanswered(d)
    BY <2>1 DEF PostUnanswered
  <2>2. CASE PostRefused(d)
    BY <2>2 DEF PostRefused
  <2>3. CASE PostAccepted(d)
    BY <2>3 DEF PostAccepted
  <2>4. CASE FailRead(d)
    BY <1>1, <2>4, ReadTyped DEF FailRead
  <2>5. CASE FailWrite(d)
    <3>1. "failed" \in Statuses
      BY DEF Statuses
    <3> QED
      BY <1>1, <2>5, <3>1, WriteStatusTyped DEF FailWrite
  <2> QED
    BY <2>1, <2>2, <2>3, <2>4, <2>5 DEF SendStep
<1>4. PICK here \in {"post", "failRead", "failWrite"},
           there \in {"failRead", "failWrite", "connect", "done"} : Goto(d, here, there)
  BY <1>3
<1>5. /\ dpc' \in [Deliveries -> Phases]
      /\ dpc'[d] = there
      /\ \A e \in Deliveries \ {d} : dpc'[e] = dpc[e]
      /\ \A e \in Deliveries : dpc'[e] = "none" <=> dpc[e] = "none"
  BY <1>1, <1>2, <1>4, GotoMoves
<1>6. Shaped'
  BY <1>3, <1>5 DEF Shaped, loopVars
<1>7. Started'
  BY <1>3, <1>5, StartedKept
<1> QED
  BY <1>1, <1>3, <1>4, <1>5, <1>6, <1>7 DEF Sending, Goto

LEMMA SoundFollow ==
  ASSUME Sound, NEW d \in Deliveries, FollowStep(d)
  PROVE  /\ Sound' /\ UNCHANGED <<loopVars, free, sent>>
         /\ dpc[d] \in Following /\ dpc'[d] \in Following \cup {"done"}
         /\ \A e \in Deliveries \ {d} : dpc'[e] = dpc[e]
<1> USE DEF Sound
<1>1. dpc \in [Deliveries -> Phases] /\ LogTypeOK /\ Shaped
  BY DEF Shaped
<1>2. Following \cup {"done"} \subseteq Phases \ {"none"}
  BY DEF Phases, Following
<1>3. /\ LogTypeOK' /\ RowsStay /\ UNCHANGED <<loopVars, free, sent>>
      /\ ev' \in [Deliveries -> Updates] /\ nev' \in [Deliveries -> 0 .. MaxEvents]
      /\ \A e \in Deliveries \ {d} : ev'[e] = ev[e]
      /\ \E here \in Following, there \in Following \cup {"done"} :
           /\ Goto(d, here, there)
           /\ there \in {"statusRead", "statusWrite"} => ev'[d].status # "none"
  <2> USE DEF Shaped, logVars, LogTypeOK, RowsStay, HasRow, Following
  <2>1. CASE Connect(d)
    BY <2>1 DEF Connect
  <2>2. CASE StreamEnds(d)
    BY <2>2 DEF StreamEnds
  <2>3. CASE \E u \in Updates : Event(d, u)
    <3>1. PICK u \in Updates : Event(d, u)
      BY <2>3
    <3>2. nev' \in [Deliveries -> 0 .. MaxEvents]
      BY <3>1, MaxEventsAssumption DEF Event
    <3>3. /\ ev' \in [Deliveries -> Updates] /\ ev'[d] = u
          /\ \A e \in Deliveries \ {d} : ev'[e] = ev[e]
      BY <3>1 DEF Event
    <3>4. AfterStatus(u) \in {"appendRead", "stream", "done"}
      BY DEF AfterStatus, AfterUpdate
    <3> QED
      BY <3>1, <3>2, <3>3, <3>4 DEF Event
  <2>4. CASE StatusRead(d)
    BY <1>1, <2>4, ReadTyped DEF StatusRead, Goto
  <2>5. CASE StatusWrite(d)
    <3>1. dpc[d] = "statusWrite"
      BY <2>5 DEF StatusWrite, Goto
    <3>2. ev[d].status \in Statuses
      BY <3>1 DEF Updates, Statuses
    <3>3. AfterStatus(ev[d]) \in {"appendRead", "stream", "done"}
      BY DEF AfterStatus, AfterUpdate
    <3> QED
      BY <1>1, <2>5, <3>2, <3>3, WriteStatusTyped DEF StatusWrite
  <2>6. CASE AppendRead(d)
    BY <1>1, <2>6, ReadTyped DEF AppendRead
  <2>7. CASE AppendWrite(d)
    <3>1. d = <<d[1], d[2]>> /\ d[1] \in TaskIds /\ d[2] \in Agents
      BY DEF Deliveries
    <3>2. dpc[<<d[1], d[2]>>] # "none"
      BY <2>7, <3>1 DEF AppendWrite, Goto
    <3>3. HasRow(d[1])
      BY <3>1, <3>2 DEF Started
    <3>4. AfterUpdate(ev[d]) \in {"stream", "done"}
      BY DEF AfterUpdate
    <3> QED
      BY <1>1, <2>7, <3>3, <3>4, WriteMessagesTyped DEF AppendWrite
  <2> QED
    BY <2>1, <2>2, <2>3, <2>4, <2>5, <2>6, <2>7 DEF FollowStep
<1>4. PICK here \in Following, there \in Following \cup {"done"} :
        /\ Goto(d, here, there)
        /\ there \in {"statusRead", "statusWrite"} => ev'[d].status # "none"
  BY <1>3
<1>5. /\ dpc' \in [Deliveries -> Phases]
      /\ dpc'[d] = there
      /\ \A e \in Deliveries \ {d} : dpc'[e] = dpc[e]
      /\ \A e \in Deliveries : dpc'[e] = "none" <=> dpc[e] = "none"
  BY <1>1, <1>2, <1>4, GotoMoves
<1>6. Shaped'
  BY <1>3, <1>4, <1>5 DEF Shaped, loopVars
<1>7. Started'
  BY <1>3, <1>5, StartedKept
<1> QED
  BY <1>1, <1>3, <1>4, <1>5, <1>6, <1>7 DEF Goto

LEMMA SoundNext == Sound /\ [Next]_vars => Sound'
<1> SUFFICES ASSUME Sound, [Next]_vars PROVE Sound'
  OBVIOUS
<1>1. CASE UNCHANGED vars
  BY <1>1 DEF vars, logVars, loopVars, sendVars, Sound, Shaped, Started, LogTypeOK, HasRow
<1>2. CASE Next
  BY <1>2, SoundCreate, SoundLoop, SoundSend, SoundFollow DEF Next
<1> QED
  BY <1>1, <1>2

-----------------------------------------------------------------------------
(* Slots.                                                                  *)

LEMMA SlotsKept ==
  ASSUME Slots, Senders' = Senders, free' = free
  PROVE  Slots'
  BY DEF Slots, SlotsAccounted, Senders

LEMMA SlotTaken ==
  ASSUME Slots, Shaped, NEW d, d \notin Senders, Senders' = Senders \cup {d}, free' = free - 1
  PROVE  Slots'
<1>1. IsFiniteSet(Senders') /\ Cardinality(Senders') = Cardinality(Senders) + 1
  BY FS_AddElement DEF Slots
<1>2. Cardinality(Senders) \in Nat /\ free \in Nat
  BY FS_CardinalityType DEF Slots, Shaped
<1>3. free + Cardinality(Senders) = SemCap
  BY DEF Slots, SlotsAccounted, Senders
<1>4. free' + Cardinality(Senders') = SemCap
  BY <1>1, <1>2, <1>3
<1> QED
  BY <1>1, <1>4 DEF Slots, SlotsAccounted, Senders

LEMMA SlotReturned ==
  ASSUME Slots, Shaped, NEW d, d \in Senders, Senders' = Senders \ {d}, free' = free + 1
  PROVE  Slots'
<1>1. IsFiniteSet(Senders') /\ Cardinality(Senders') = Cardinality(Senders) - 1
  BY FS_RemoveElement DEF Slots
<1>2. Cardinality(Senders) \in Nat /\ free \in Nat
  BY FS_CardinalityType DEF Slots, Shaped
<1>3. free + Cardinality(Senders) = SemCap
  BY DEF Slots, SlotsAccounted, Senders
<1>4. free' + Cardinality(Senders') = SemCap
  BY <1>1, <1>2, <1>3
<1> QED
  BY <1>1, <1>4 DEF Slots, SlotsAccounted, Senders

LEMMA SlotsInit == Init => Slots
<1> SUFFICES ASSUME Init PROVE Slots
  OBVIOUS
<1>1. Senders = {}
  BY DEF Init, Senders, Sending
<1>2. IsFiniteSet(Senders) /\ Cardinality(Senders) = 0
  BY <1>1, FS_EmptySet
<1> QED
  BY <1>2, SemCapAssumption DEF Init, Slots, SlotsAccounted, Senders

LEMMA SlotsLoop ==
  ASSUME Sound, Slots, NEW t \in TaskIds, LoopStep(t)
  PROVE  Slots'
<1>1. CASE \E a \in Agents : StartSend(t, a)
  <2>1. PICK a \in Agents : StartSend(t, a)
    BY <1>1
  <2>2. <<t, a>> \in Deliveries /\ dpc[<<t, a>>] = "none"
    BY <2>1 DEF Deliveries, Sound, Started, StartSend
  <2>3. dpc' = [dpc EXCEPT ![<<t, a>>] = "post"] /\ free' = free - 1
    BY <2>1 DEF StartSend
  <2>4. <<t, a>> \notin Senders /\ Senders' = Senders \cup {<<t, a>>}
    BY <2>2, <2>3 DEF Sound, Shaped, Senders, Sending
  <2> QED
    BY <2>3, <2>4, SlotTaken DEF Sound
<1>2. CASE ~ \E a \in Agents : StartSend(t, a)
  <2>1. UNCHANGED <<dpc, free>>
    BY <1>2 DEF LoopStep, ListAgents, Skip, FinishLoop, sendVars
  <2> QED
    BY <2>1, SlotsKept DEF Senders
<1> QED
  BY <1>1, <1>2

LEMMA SlotsSend ==
  ASSUME Sound, Slots, NEW d \in Deliveries, SendStep(d)
  PROVE  Slots'
<1>1. /\ dpc[d] \in Sending
      /\ \A e \in Deliveries \ {d} : dpc'[e] = dpc[e]
  BY SoundSend
<1>2. dpc \in [Deliveries -> Phases]
  BY DEF Sound, Shaped
<1>3. \/ dpc'[d] \in Sending /\ free' = free
      \/ dpc'[d] \notin Sending /\ free' = free + 1
  BY <1>2 DEF SendStep, PostUnanswered, PostRefused, PostAccepted, FailRead, FailWrite, Goto, Sending
<1>4. CASE dpc'[d] \in Sending /\ free' = free
  BY <1>1, <1>4, SlotsKept DEF Senders
<1>5. CASE dpc'[d] \notin Sending /\ free' = free + 1
  <2>1. d \in Senders /\ Senders' = Senders \ {d}
    BY <1>1, <1>5 DEF Senders
  <2> QED
    BY <1>5, <2>1, SlotReturned DEF Sound
<1> QED
  BY <1>3, <1>4, <1>5

LEMMA SlotsNext == Sound /\ Slots /\ [Next]_vars => Slots'
<1> SUFFICES ASSUME Sound, Slots, [Next]_vars PROVE Slots'
  OBVIOUS
<1>1. CASE \E t \in TaskIds, ch \in ChannelIds : HandleTaskCreate(t, ch)
  BY <1>1, SlotsKept DEF HandleTaskCreate, sendVars, Senders
<1>2. CASE \E t \in TaskIds : LoopStep(t)
  BY <1>2, SlotsLoop
<1>3. CASE \E d \in Deliveries : SendStep(d)
  BY <1>3, SlotsSend
<1>4. CASE \E d \in Deliveries : FollowStep(d)
  <2>1. PICK d \in Deliveries : FollowStep(d)
    BY <1>4
  <2>2. /\ dpc[d] \in Following /\ dpc'[d] \in Following \cup {"done"}
        /\ \A e \in Deliveries \ {d} : dpc'[e] = dpc[e]
        /\ free' = free
    BY <2>1, SoundFollow
  <2>3. Senders' = Senders
    BY <2>2 DEF Senders, Sending, Following
  <2> QED
    BY <2>2, <2>3, SlotsKept
<1>5. CASE UNCHANGED vars
  BY <1>5, SlotsKept DEF vars, sendVars, Senders
<1> QED
  BY <1>1, <1>2, <1>3, <1>4, <1>5 DEF Next

-----------------------------------------------------------------------------
(* Rows keep the request.                                                  *)

LEMMA KeptCreate ==
  ASSUME Sound, Kept, NEW t \in TaskIds, NEW ch \in ChannelIds, HandleTaskCreate(t, ch)
  PROVE  Kept'
<1> DEFINE new == [status |-> "pending", messages |-> <<Ask>>]
<1>1. KeepsRequest(new)
  BY DEF KeepsRequest
<1>2. row'[t] = new /\ \A u \in TaskIds \ {t} : row'[u] = row[u] /\ fpc'[u] = fpc[u]
  BY DEF Sound, Shaped, LogTypeOK, HandleTaskCreate, CreateTask
<1>3. \A u \in TaskIds : fpc'[u] # "none" => KeepsRequest(row'[u])
  BY <1>1, <1>2 DEF Kept
<1>4. snap' = snap
  BY DEF HandleTaskCreate, CreateTask
<1> QED
  BY <1>3, <1>4 DEF Kept

LEMMA KeptRead ==
  ASSUME Sound, Kept, NEW d \in Deliveries, fpc[d[1]] # "none", fpc' = fpc, ReadTask(d, d[1])
  PROVE  Kept'
<1>1. KeepsRequest(row[d[1]])
  BY DEF Kept, Deliveries
<1>2. \A e \in Deliveries : snap'[e] = IF e = d THEN row[d[1]] ELSE snap[e]
  BY ForwardActorsAssumption DEF Sound, Shaped, LogTypeOK, ReadTask
<1> QED
  BY <1>1, <1>2 DEF Kept, ReadTask

(* Both writes put a row that keeps the request in place of one that did.  *)
LEMMA KeptWrite ==
  ASSUME Sound, Kept, NEW d \in Deliveries, fpc' = fpc, NEW new, KeepsRequest(new),
         \/ row' = row
         \/ row' = [row EXCEPT ![d[1]] = new],
         snap' = [snap EXCEPT ![d] = NoRow]
  PROVE  Kept'
<1>1. \A t \in TaskIds : row'[t] \in {row[t], new}
  BY DEF Sound, Shaped, LogTypeOK, Deliveries
<1>2. \A e \in Deliveries : snap'[e] \in {snap[e], NoRow}
  BY ForwardActorsAssumption DEF Sound, Shaped, LogTypeOK
<1> QED
  BY <1>1, <1>2 DEF Kept

LEMMA KeptWriteStatus ==
  ASSUME Sound, Kept, NEW d \in Deliveries, fpc' = fpc, fpc[d[1]] # "none",
         NEW s \in Statuses, WriteStatus(d, d[1], s)
  PROVE  Kept'
<1>1. snap[d] \in Rows \cup {NoRow}
  BY ForwardActorsAssumption DEF Sound, Shaped, LogTypeOK
<1>2. CASE snap[d] = NoRow
  <2>1. KeepsRequest(row[d[1]])
    BY DEF Kept, Deliveries
  <2> QED
    BY <1>2, <2>1, KeptWrite DEF WriteStatus
<1>3. CASE snap[d] # NoRow
  <2>1. KeepsRequest(StatusRow(snap[d], s))
    BY <1>3 DEF Kept, KeepsRequest, StatusRow
  <2> QED
    BY <1>3, <2>1, KeptWrite DEF WriteStatus
<1> QED
  BY <1>2, <1>3

LEMMA KeptWriteMessages ==
  ASSUME Sound, Kept, NEW d \in Deliveries, fpc' = fpc, fpc[d[1]] # "none",
         WriteMessages(d, d[1], Answer)
  PROVE  Kept'
<1>1. snap[d] \in Rows \cup {NoRow} /\ row[d[1]] \in Rows
  BY ForwardActorsAssumption DEF Sound, Shaped, Started, LogTypeOK, HasRow, Deliveries
<1>2. CASE snap[d] = NoRow
  <2>1. KeepsRequest(row[d[1]])
    BY DEF Kept, Deliveries
  <2> QED
    BY <1>2, <2>1, KeptWrite DEF WriteMessages
<1>3. CASE snap[d] # NoRow
  <2>1. KeepsRequest(MessagesRow(row[d[1]], snap[d], Answer))
    BY <1>1, <1>3, KeepsRequestAppend DEF Kept
  <2> QED
    BY <1>3, <2>1, KeptWrite DEF WriteMessages
<1> QED
  BY <1>2, <1>3

LEMMA KeptDelivery ==
  ASSUME Sound, Kept, NEW d \in Deliveries, SendStep(d) \/ FollowStep(d)
  PROVE  Kept'
<1>1. dpc[d] # "none" /\ fpc' = fpc
  BY SoundSend, SoundFollow DEF Sending, Following, loopVars
<1>2. fpc[d[1]] # "none"
  <2>1. d = <<d[1], d[2]>> /\ d[1] \in TaskIds /\ d[2] \in Agents
    BY DEF Deliveries
  <2>2. dpc[<<d[1], d[2]>>] # "none"
    BY <1>1, <2>1
  <2> QED
    BY <2>1, <2>2 DEF Sound, Started
<1>3. CASE FailRead(d) \/ StatusRead(d) \/ AppendRead(d)
  BY <1>1, <1>2, <1>3, KeptRead DEF FailRead, StatusRead, AppendRead
<1>4. CASE FailWrite(d)
  <2>1. "failed" \in Statuses
    BY DEF Statuses
  <2> QED
    BY <1>1, <1>2, <1>4, <2>1, KeptWriteStatus DEF FailWrite
<1>5. CASE StatusWrite(d)
  <2>1. ev[d].status \in Statuses
    BY <1>5 DEF Sound, Shaped, StatusWrite, Goto, Updates, Statuses
  <2> QED
    BY <1>1, <1>2, <1>5, <2>1, KeptWriteStatus DEF StatusWrite
<1>6. CASE AppendWrite(d)
  BY <1>1, <1>2, <1>6, KeptWriteMessages DEF AppendWrite
<1>7. CASE UNCHANGED logVars
  BY <1>1, <1>7 DEF Kept, logVars
<1> QED
  BY <1>3, <1>4, <1>5, <1>6, <1>7
  DEF SendStep, FollowStep, PostUnanswered, PostRefused, PostAccepted, Connect, StreamEnds, Event

LEMMA KeptNext == Sound /\ Kept /\ [Next]_vars => Kept'
<1> SUFFICES ASSUME Sound, Kept, [Next]_vars PROVE Kept'
  OBVIOUS
<1>1. CASE \E t \in TaskIds, ch \in ChannelIds : HandleTaskCreate(t, ch)
  BY <1>1, KeptCreate
<1>2. CASE \E t \in TaskIds : LoopStep(t)
  <2>1. PICK t \in TaskIds : LoopStep(t)
    BY <1>2
  <2>2. row' = row /\ snap' = snap
    BY <2>1 DEF LoopStep, ListAgents, Skip, StartSend, FinishLoop, logVars
  <2>3. \A u \in TaskIds : fpc'[u] # "none" => fpc[u] # "none"
    BY <2>1 DEF LoopStep, ListAgents, Skip, StartSend, FinishLoop, Sound, Shaped
  <2> QED
    BY <2>2, <2>3 DEF Kept
<1>3. CASE \E d \in Deliveries : SendStep(d) \/ FollowStep(d)
  BY <1>3, KeptDelivery
<1>4. CASE UNCHANGED vars
  BY <1>4 DEF vars, logVars, loopVars, Kept
<1> QED
  BY <1>1, <1>2, <1>3, <1>4 DEF Next

-----------------------------------------------------------------------------
(* General tasks reach every agent but the sender.                         *)

LEMMA GeneralLoop ==
  ASSUME Sound, GeneralReachesAll, NEW t \in TaskIds, LoopStep(t)
  PROVE  GeneralReachesAll'
<1> USE DEF Sound, Shaped
<1>1. channel' = channel /\ from' = from
  BY DEF LoopStep, ListAgents, Skip, StartSend, FinishLoop
<1> SUFFICES ASSUME NEW u \in TaskIds, fpc'[u] = "loop", channel[u] = General
             PROVE  {a \in Agents : dpc'[<<u, a>>] # "none"} = (Agents \ {from[u]}) \ todo'[u]
  BY <1>1 DEF GeneralReachesAll
<1>2. ~IsDirectChannel(channel[u])
  BY DEF IsDirectChannel
<1>3. CASE ListAgents(t)
  <2>1. CASE u = t
    <3>1. \A a \in Agents : dpc'[<<u, a>>] = "none"
      BY <1>3, <2>1 DEF ListAgents, sendVars, Started
    <3>2. todo'[u] = Agents
      BY <1>3, <2>1 DEF ListAgents
    <3> QED
      BY <3>1, <3>2
  <2>2. CASE u # t
    BY <1>3, <2>2 DEF ListAgents, sendVars, GeneralReachesAll
  <2> QED
    BY <2>1, <2>2
<1>4. CASE \E a \in Agents : Skip(t, a)
  <2>1. PICK a \in Agents : Skip(t, a)
    BY <1>4
  <2>2. u = t => a = from[u]
    BY <1>2, <2>1 DEF Skip, PassedOver
  <2> QED
    BY <2>1, <2>2 DEF Skip, sendVars, GeneralReachesAll
<1>5. CASE \E a \in Agents : StartSend(t, a)
  <2>1. PICK a \in Agents : StartSend(t, a)
    BY <1>5
  <2>2. a # from[t]
    BY <2>1 DEF StartSend, PassedOver
  <2>3. \A b \in Agents : dpc'[<<u, b>>] = IF u = t /\ b = a THEN "post" ELSE dpc[<<u, b>>]
    BY <2>1 DEF StartSend, Deliveries
  <2>4. todo'[u] = IF u = t THEN todo[u] \ {a} ELSE todo[u]
    BY <2>1 DEF StartSend
  <2>5. {b \in Agents : dpc[<<u, b>>] # "none"} = (Agents \ {from[u]}) \ todo[u]
    BY <2>1 DEF StartSend, GeneralReachesAll
  <2> QED
    BY <2>2, <2>3, <2>4, <2>5
<1>6. CASE FinishLoop(t)
  BY <1>6 DEF FinishLoop, sendVars, GeneralReachesAll
<1> QED
  BY <1>3, <1>4, <1>5, <1>6 DEF LoopStep

LEMMA GeneralDelivery ==
  ASSUME Sound, GeneralReachesAll, NEW d \in Deliveries, SendStep(d) \/ FollowStep(d)
  PROVE  GeneralReachesAll'
<1>1. UNCHANGED loopVars
  BY SoundSend, SoundFollow
<1>2. \A e \in Deliveries : dpc'[e] # "none" <=> dpc[e] # "none"
  BY SoundSend, SoundFollow DEF Sending, Following
<1>3. \A t \in TaskIds, a \in Agents : dpc'[<<t, a>>] # "none" <=> dpc[<<t, a>>] # "none"
  BY <1>2 DEF Deliveries
<1> QED
  BY <1>1, <1>3 DEF loopVars, GeneralReachesAll

LEMMA GeneralNext == Sound /\ GeneralReachesAll /\ [Next]_vars => GeneralReachesAll'
<1> SUFFICES ASSUME Sound, GeneralReachesAll, [Next]_vars PROVE GeneralReachesAll'
  OBVIOUS
<1>1. CASE \E t \in TaskIds, ch \in ChannelIds : HandleTaskCreate(t, ch)
  BY <1>1 DEF HandleTaskCreate, sendVars, GeneralReachesAll, Sound, Shaped
<1>2. CASE \E t \in TaskIds : LoopStep(t)
  BY <1>2, GeneralLoop
<1>3. CASE \E d \in Deliveries : SendStep(d) \/ FollowStep(d)
  BY <1>3, GeneralDelivery
<1>4. CASE UNCHANGED vars
  BY <1>4 DEF vars, loopVars, sendVars, GeneralReachesAll
<1> QED
  BY <1>1, <1>2, <1>3, <1>4 DEF Next

-----------------------------------------------------------------------------
(* The theorems.                                                           *)

LEMMA KeptInit == Init => Kept
  BY ForwardActorsAssumption DEF Init, LogInit, Kept

LEMMA Inductive == Spec => []IInv
<1>1. Init => IInv
  <2>1. Init => GeneralReachesAll
    BY DEF Init, GeneralReachesAll
  <2> QED
    BY <2>1, SoundInit, SlotsInit, KeptInit DEF IInv
<1>2. IInv /\ [Next]_vars => IInv'
  BY SoundNext, SlotsNext, KeptNext, GeneralNext DEF IInv
<1> QED
  BY <1>1, <1>2, PTL DEF Spec

(* The variables have their types: no slot is returned that was not taken  *)
(* (forwardTask's sendSem), and only known statuses reach task_logs.       *)
THEOREM ForwardTypes == Spec => []TypeOK
<1>1. IInv => TypeOK
  <2> SUFFICES ASSUME IInv PROVE TypeOK
    OBVIOUS
  <2>1. free \in Nat /\ Cardinality(Senders) \in Nat
    BY FS_CardinalityType DEF IInv, Sound, Shaped, Slots
  <2>2. free + Cardinality(Senders) = SemCap
    BY DEF IInv, Slots, SlotsAccounted, Senders
  <2>3. free \in 0 .. SemCap
    BY <2>1, <2>2, SemCapAssumption
  <2> QED
    BY <2>3 DEF IInv, Sound, Shaped, TypeOK, Phases
<1> QED
  BY <1>1, Inductive, PTL

(* Taken slots of sendSem and running sendTaskToAgent goroutines agree in  *)
(* number, for any capacity and any number of tasks forwarded at once.     *)
THEOREM SlotsAreAccounted == Spec => []SlotsAccounted
<1>1. IInv => SlotsAccounted
  BY DEF IInv, Slots
<1> QED
  BY <1>1, Inductive, PTL

(* forwardTask sends a task on "general" to everyone but its sender.       *)
THEOREM GeneralIsBroadcast == Spec => []GeneralReachesAll
<1>1. IInv => GeneralReachesAll
  BY DEF IInv
<1> QED
  BY <1>1, Inductive, PTL

(* However many followers interleave updateTaskStatus and appendMessage on *)
(* a row, it keeps the request it was created with, followed by answers.   *)
THEOREM RequestsAreKept == Spec => []RequestKept
<1>1. IInv => RequestKept
  BY DEF IInv, Kept, RequestKept, KeepsRequest
<1> QED
  BY <1>1, Inductive, PTL

(* forwardTask starts sendTaskToAgent at most once for an agent, and never *)
(* for the agent that sent the task.                                       *)
THEOREM SentAtMostOnce == Spec => SentOnce
<1>1. IInv /\ [Next]_vars =>
        [\A d \in Deliveries :
           (dpc[d] # "post" /\ dpc'[d] = "post") => d \notin sent /\ d[2] # from[d[1]]]_vars
  <2> SUFFICES ASSUME IInv, Next, NEW d \in Deliveries, dpc[d] # "post", dpc'[d] = "post"
               PROVE  d \notin sent /\ d[2] # from[d[1]]
    OBVIOUS
  <2> USE DEF IInv
  <2>1. CASE \E t \in TaskIds, ch \in ChannelIds : HandleTaskCreate(t, ch)
    BY <2>1 DEF HandleTaskCreate, sendVars
  <2>2. CASE \E t \in TaskIds : LoopStep(t)
    <3>1. PICK t \in TaskIds, a \in Agents : StartSend(t, a)
      BY <2>2 DEF LoopStep, ListAgents, Skip, FinishLoop, sendVars
    <3>2. d = <<t, a>>
      BY <3>1 DEF StartSend, Sound, Shaped
    <3>3. a # from[t] /\ dpc[<<t, a>>] = "none"
      BY <3>1 DEF StartSend, PassedOver, Sound, Started
    <3> QED
      BY <3>2, <3>3 DEF Sound, Shaped
  <2>3. CASE \E e \in Deliveries : FollowStep(e)
    <3>1. PICK e \in Deliveries : FollowStep(e)
      BY <2>3
    <3>2. dpc'[e] # "post" /\ \A x \in Deliveries \ {e} : dpc'[x] = dpc[x]
      BY <3>1, SoundFollow DEF Following
    <3> QED
      BY <3>2
  <2>4. CASE \E e \in Deliveries : SendStep(e)
    BY <2>4 DEF SendStep, PostUnanswered, PostRefused, PostAccepted, FailRead, FailWrite,
       Goto, Sound, Shaped
  <2> QED
    BY <2>1, <2>2, <2>3, <2>4 DEF Next
<1> QED
  BY <1>1, Inductive, PTL DEF Spec, SentOnce

=============================================================================
