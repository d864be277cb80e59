-------------------------- MODULE TaskRelayProofs --------------------------
(***************************************************************************)
(* The safety of exchanges for any flows, handlers and viewers, any buffer *)
(* capacity and any bounds, statements that fail and restarts included:    *)
(* every invariant of TaskRelay that TLC checks, and EndIsFinal.           *)
(***************************************************************************)
EXTENDS TaskRelay, TLAPS

(* Where a flow is, and what it therefore knows.                           *)
FlowVarsOK ==
  /\ pc \in [Flows -> Active \cup {"idle", "done", "lost"}]
  /\ sender \in [Flows -> {"nil", "noEndpoint", "reachable"}]
  /\ ev \in [Flows -> Updates]
  /\ lastMsg \in [Flows -> Messages \cup {NoMessage}]
  /\ nev \in [Flows -> 0 .. MaxEvents]
  /\ due \in [Flows -> Statuses]
  /\ dbErr \in SUBSET Flows
  /\ delivered \in SUBSET Flows

Unsent == {"idle", "lookup", "post", "chatCreate", "connect"}
Failing == {"failRead", "failWrite"}
Answering == {"forwardCreate", "forwardPost", "doneRead", "doneWrite"}

FlowAt(f) ==
  /\ ev[f].status # "none" => due[f] = ev[f].status
  /\ pc[f] \in Unsent \cup Failing => ev[f].status = "none"
  /\ pc[f] \in Unsent => due[f] = "pending"
  /\ pc[f] \in Failing => due[f] = "failed"
  /\ pc[f] = "stream" => ev[f].status \notin EndStatuses
  /\ pc[f] \in {"statusRead", "statusWrite"} => ev[f].status # "none"
  /\ pc[f] \in {"appendRead", "appendWrite"} => ev[f].message # NoMessage
  /\ pc[f] \in Answering =>
       ev[f].status = "completed" /\ sender[f] = "reachable" /\ lastMsg[f] # NoMessage
  /\ pc[f] \in {"doneRead", "doneWrite"} => f \in delivered

FlowInv == FlowVarsOK /\ \A f \in Flows : FlowAt(f)

(* The same of a handler.                                                  *)
HandlerVarsOK ==
  /\ hpc \in [Handlers ->
               {"idle", "appendRead", "appendWrite", "statusRead", "statusWrite", "done"}]
  /\ job \in [Handlers -> Jobs \cup {NoJob}]
  /\ touched \in SUBSET TaskIds
  /\ restarts \in 0 .. MaxRestarts

HandlerAt(h) ==
  /\ hpc[h] \notin {"idle", "done"} => job[h] \in Jobs
  /\ hpc[h] \in {"appendRead", "appendWrite"} => job[h].message # NoMessage
  /\ hpc[h] \in {"statusRead", "statusWrite"} => job[h].status # "none"

HandlerInv == HandlerVarsOK /\ \A h \in Handlers : HandlerAt(h)

(* Rows, and the rows that goroutines have read and will write back, begin *)
(* with the message of their creation.                                     *)
First(id) == IF id[2] = "request" THEN Ask ELSE lastMsg[id[1]]
Begins(r, m) == r.messages # <<>> /\ r.messages[1] = m

Recorded == \A id \in TaskIds : HasRow(id) => Begins(row[id], First(id))

Holding(a) ==
  IF a \in Handlers THEN hpc[a] \in {"appendWrite", "statusWrite"}
  ELSE pc[a] \in {"failWrite", "statusWrite", "appendWrite", "doneWrite"}

TaskOf(a) ==
  IF a \in Handlers THEN job[a].id
  ELSE IF pc[a] = "doneWrite" THEN Response(a) ELSE Request(a)

Copied(a) == snap[a] # NoRow => Holding(a) /\ HasRow(TaskOf(a)) /\ Begins(snap[a], First(TaskOf(a)))

(* Which flows have logged their request, and which their answer.          *)
Logged(f) ==
  /\ pc[f] \in Active \ {"chatCreate"} \/ ev[f].status # "none" => HasRow(Request(f))
  /\ HasRow(Response(f)) =>
       pc[f] \in {"forwardPost", "doneRead", "doneWrite", "done", "lost"} /\ lastMsg[f] # NoMessage
  /\ pc[f] \in {"failWrite", "statusWrite"} => snap[f] # NoRow

LogInv ==
  /\ LogTypeOK /\ Recorded
  /\ \A a \in Actors : Copied(a)
  /\ \A f \in Flows : Logged(f)

(* A viewer's buffer ends with an end, if there is one in it, and nothing  *)
(* comes after an end that it has shown: the flow has told its last.       *)
Watching(v) ==
  /\ vst[v] = "off" => watch[v] = NoTask /\ buf[v] = <<>> /\ ~lossy[v]
  /\ vst[v] # "off" => watch[v] \in TaskIds
  /\ vst[v] \in {"off", "opening"} => shown[v] = Nothing
  /\ \A i \in DOMAIN buf[v] : buf[v][i].status \in EndStatuses =>
       i = Len(buf[v]) /\ \E f \in Flows : watch[v] = Request(f) /\ EndTold(f)
  /\ vst[v] = "live" /\ shown[v].status \in EndStatuses =>
       buf[v] = <<>> /\ \E f \in Flows : watch[v] = Request(f) /\ EndTold(f)

ViewInv == StreamTypeOK /\ \A v \in Viewers : Watching(v)

IInv ==
  /\ FlowInv /\ HandlerInv
  /\ LogInv /\ StatusFollowsAgent /\ AnswerJustified
  /\ ViewInv /\ NoMissedEnd

-----------------------------------------------------------------------------
(* Flows.                                                                  *)

LEMMA TaskNames ==
  /\ \A f \in Flows : Request(f) \in TaskIds /\ Response(f) \in TaskIds
  /\ \A f, g \in Flows : Request(f) # Response(g)
  /\ \A f, g \in Flows : Request(f) = Request(g) => f = g
  /\ \A f, g \in Flows : Response(f) = Response(g) => f = g
  BY TaskIdsAssumption DEF Request, Response

(* A step of the exchanges alone moves one flow.                           *)
OneMoves(f) ==
  \A g \in Flows \ {f} :
    /\ pc'[g] = pc[g] /\ sender'[g] = sender[g] /\ ev'[g] = ev[g]
    /\ lastMsg'[g] = lastMsg[g] /\ due'[g] = due[g]
    /\ g \in dbErr' <=> g \in dbErr
    /\ g \in delivered' <=> g \in delivered

LEMMA OneFlow ==
  ASSUME FlowInv, NEW f \in Flows, FlowVarsOK', FlowAt(f)', OneMoves(f)
  PROVE  FlowInv'
<1> SUFFICES ASSUME NEW g \in Flows PROVE FlowAt(g)'
  BY DEF FlowInv
<1>1. CASE g = f
  BY <1>1
<1>2. CASE g # f
  <2> pc'[g] = pc[g] /\ sender'[g] = sender[g] /\ ev'[g] = ev[g]
      /\ lastMsg'[g] = lastMsg[g] /\ due'[g] = due[g]
      /\ (g \in delivered' <=> g \in delivered)
    BY <1>2 DEF OneMoves
  <2> QED
    BY DEF FlowInv, FlowAt
<1> QED
  BY <1>1, <1>2

LEMMA FlowStart == Init => FlowInv
  BY BoundsAssumption DEF Init, FlowInv, FlowVarsOK, FlowAt, Active, Writing, Updates, Nothing,
     Statuses, Unsent, Failing, Answering

LEMMA FlowStepKeeps ==
  ASSUME FlowInv, NEW f \in Flows, FlowStep(f) \/ AgentStep(f)
  PROVE  FlowInv' /\ OneMoves(f) /\ UNCHANGED serverVars
<1> SUFFICES FlowVarsOK' /\ FlowAt(f)' /\ OneMoves(f) /\ UNCHANGED serverVars
  BY OneFlow
<1> USE DEF FlowInv, FlowVarsOK, FlowAt, OneMoves, Goto, Active, Writing, Unsent, Failing, Answering
<1>1. CASE RelayRequest(f)
  BY <1>1 DEF RelayRequest, localVars, serverVars, jobVars
<1>2. CASE LookupSender(f)
  BY <1>2 DEF LookupSender, serverVars, jobVars
<1>3. CASE PostFails(f)
  BY <1>3 DEF PostFails, serverVars, jobVars, Statuses
<1>4. CASE PostSucceeds(f)
  BY <1>4 DEF PostSucceeds, localVars, serverVars, jobVars
<1>5. CASE ChatAccepted(f)
  BY <1>5 DEF ChatAccepted, localVars, serverVars, jobVars
<1>6. CASE ChatCreate(f)
  BY <1>6 DEF ChatCreate, localVars, serverVars, jobVars
<1>7. CASE FailRead(f)
  BY <1>7 DEF FailRead, localVars, serverVars, jobVars
<1>8. CASE FailWrite(f)
  BY <1>8 DEF FailWrite, localVars, serverVars, jobVars
<1>9. CASE StreamEnds(f)
  BY <1>9 DEF StreamEnds, localVars, serverVars, jobVars
<1>10. CASE Connect(f)
  BY <1>10 DEF Connect, localVars, serverVars, jobVars, EndStatuses
<1>11. CASE StatusRead(f)
  BY <1>11 DEF StatusRead, localVars, serverVars, jobVars
<1>12. CASE StatusWrite(f)
  BY <1>12 DEF StatusWrite, localVars, serverVars, jobVars, AfterStatus
<1>13. CASE AppendRead(f)
  BY <1>13 DEF AppendRead, localVars, serverVars, jobVars
<1>14. CASE AppendWrite(f)
  BY <1>14 DEF AppendWrite, localVars, serverVars, jobVars
<1>15. CASE Tell(f)
  BY <1>15 DEF Tell, localVars, serverVars, jobVars, AfterTell, MustForward, EndStatuses
<1>16. CASE ForwardCreate(f)
  BY <1>16 DEF ForwardCreate, localVars, serverVars, jobVars
<1>17. CASE ForwardFails(f)
  BY <1>17 DEF ForwardFails, localVars, serverVars, jobVars
<1>18. CASE ForwardSucceeds(f)
  BY <1>18 DEF ForwardSucceeds, localVars, serverVars, jobVars
<1>19. CASE DoneRead(f)
  BY <1>19 DEF DoneRead, localVars, serverVars, jobVars
<1>20. CASE DoneWrite(f)
  BY <1>20 DEF DoneWrite, localVars, serverVars, jobVars
<1>21. CASE StatementFails(f)
  BY <1>21 DEF StatementFails, localVars, serverVars, jobVars, AfterStatus
<1>22. ASSUME NEW s \in EventStatuses, NEW m \in AgentMessages \cup {NoMessage},
             Event(f, [status |-> s, message |-> m])
      PROVE  FlowVarsOK' /\ FlowAt(f)' /\ OneMoves(f) /\ UNCHANGED serverVars
  <2> DEFINE u == [status |-> s, message |-> m]
  <2>1. u \in Updates /\ (s # "none" => s \in Statuses)
    BY MessagesAssumption DEF Updates, Statuses, EventStatuses
  <2>2. nev' \in [Flows -> 0 .. MaxEvents]
    <3>1. nev[f] \in 0 .. MaxEvents /\ nev[f] + 1 \in 0 .. MaxEvents
      BY <1>22, BoundsAssumption DEF Event
    <3> QED
      BY <1>22, <3>1 DEF Event
  <2>3. pc' \in [Flows -> Active \cup {"idle", "done", "lost"}]
    BY <1>22 DEF Event, AfterStatus
  <2>4. ev' \in [Flows -> Updates] /\ lastMsg' \in [Flows -> Messages \cup {NoMessage}]
    BY <1>22, <2>1, MessagesAssumption DEF Event
  <2>5. due' \in [Flows -> Statuses]
    BY <1>22, <2>1 DEF Event
  <2>6. OneMoves(f) /\ UNCHANGED <<serverVars, sender, dbErr, delivered>>
    BY <1>22 DEF Event, serverVars, jobVars
  <2>7. FlowAt(f)'
    BY <1>22, <2>1 DEF Event, AfterStatus, EndStatuses
  <2> QED
    BY <2>2, <2>3, <2>4, <2>5, <2>6, <2>7
<1> QED
  BY <1>1, <1>2, <1>3, <1>4, <1>5, <1>6, <1>7, <1>8, <1>9, <1>10, <1>11, <1>12, <1>13, <1>14,
     <1>15, <1>16, <1>17, <1>18, <1>19, <1>20, <1>21, <1>22 DEF FlowStep, AgentStep

LEMMA RestartFlows ==
  ASSUME FlowInv, Restart
  PROVE  FlowInv'
  BY DEF FlowInv, FlowVarsOK, FlowAt, Restart, Active, Writing, Unsent, Failing, Answering

-----------------------------------------------------------------------------
(* Handlers.                                                               *)

LEMMA HandlerStart == Init => HandlerInv
  BY BoundsAssumption DEF Init, HandlerInv, HandlerVarsOK, HandlerAt

LEMMA HandlersRest ==
  ASSUME HandlerInv, UNCHANGED serverVars
  PROVE  HandlerInv'
  BY DEF HandlerInv, HandlerVarsOK, HandlerAt, serverVars, jobVars

OneHandles(h) ==
  /\ \A k \in Handlers \ {h} : hpc'[k] = hpc[k] /\ job'[k] = job[k]
  /\ touched \subseteq touched'

LEMMA JobShape ==
  ASSUME NEW j \in Jobs
  PROVE  /\ j.id \in TaskIds
         /\ j.message \in PostedMessages \cup {NoMessage}
         /\ j.status \in Statuses \cup {"none"}
         /\ j.message = NoMessage => j.status # "none"
  BY DEF Jobs, PostedStatuses, Statuses

LEMMA HandlerStepKeeps ==
  ASSUME HandlerInv, NEW h \in Handlers, HandlerStep(h) \/ \E j \in Jobs : Arrive(h, j)
  PROVE  HandlerInv' /\ OneHandles(h) /\ UNCHANGED <<viewVars, flowVars>>
<1> USE DEF HandlerInv, HandlerVarsOK, HandlerAt, OneHandles, HandlerGoto
<1>1. CASE HandlerAppendRead(h)
  BY <1>1 DEF HandlerAppendRead
<1>2. CASE HandlerAppendWrite(h)
  BY <1>2 DEF HandlerAppendWrite, AfterAppend
<1>3. CASE HandlerStatusRead(h)
  BY <1>3 DEF HandlerStatusRead
<1>4. CASE HandlerStatusWrite(h)
  <2>1. job[h].id \in TaskIds
    BY <1>4, JobShape DEF HandlerStatusWrite
  <2> QED
    BY <1>4, <2>1 DEF HandlerStatusWrite
<1>5. CASE HandlerFails(h)
  BY <1>5 DEF HandlerFails
<1>6. ASSUME NEW j \in Jobs, Arrive(h, j)
      PROVE  HandlerInv' /\ OneHandles(h) /\ UNCHANGED <<viewVars, flowVars>>
  BY <1>6, JobShape DEF Arrive
<1> QED
  BY <1>1, <1>2, <1>3, <1>4, <1>5, <1>6 DEF HandlerStep

LEMMA RestartHandlers ==
  ASSUME HandlerInv, Restart
  PROVE  HandlerInv'
  BY BoundsAssumption DEF HandlerInv, HandlerVarsOK, HandlerAt, Restart

-----------------------------------------------------------------------------
(* The operations of the task log, by what they do to rows and to copies.  *)

OtherCopies(a) == \A b \in Actors \ {a} : snap'[b] = snap[b]
OtherRows(id) == \A t \in TaskIds \ {id} : row'[t] = row[t]

(* A write that follows a read: the row keeps its beginning, the copy goes.*)
Rewrote(a, id, m) ==
  /\ LogTypeOK' /\ OtherCopies(a) /\ OtherRows(id)
  /\ snap'[a] = NoRow
  /\ HasRow(id)' <=> HasRow(id)
  /\ HasRow(id) => Begins(row'[id], m)

LEMMA ReadDone ==
  ASSUME LogTypeOK, NEW a \in Actors, NEW id \in TaskIds, ReadTask(a, id)
  PROVE  LogTypeOK' /\ UNCHANGED row /\ snap'[a] = row[id] /\ OtherCopies(a)
  BY DEF LogTypeOK, ReadTask, OtherCopies

LEMMA DropDone ==
  ASSUME LogTypeOK, NEW a \in Actors, DropRead(a)
  PROVE  LogTypeOK' /\ UNCHANGED row /\ snap'[a] = NoRow /\ OtherCopies(a)
  BY DEF LogTypeOK, DropRead, OtherCopies

LEMMA CreateDone ==
  ASSUME LogTypeOK, NEW id \in TaskIds, NEW m \in Messages, CreateTask(id, m)
  PROVE  /\ LogTypeOK' /\ UNCHANGED snap /\ OtherRows(id)
         /\ HasRow(id)' /\ Begins(row'[id], m) /\ row'[id].status = "pending"
<1> DEFINE r == [status |-> "pending", messages |-> <<m>>]
<1>1. r \in Rows /\ Begins(r, m) /\ r.status = "pending"
  BY DEF Rows, Statuses, Begins
<1>2. row'[id] = r
  BY DEF LogTypeOK, CreateTask
<1> QED
  BY <1>1, <1>2, NoRowAssumption DEF LogTypeOK, CreateTask, HasRow, OtherRows

LEMMA StatusWritten ==
  ASSUME LogTypeOK, NEW a \in Actors, NEW id \in TaskIds, NEW s \in Statuses, NEW m,
         WriteStatus(a, id, s),
         HasRow(id) => Begins(row[id], m),
         snap[a] # NoRow => HasRow(id) /\ Begins(snap[a], m)
  PROVE  /\ Rewrote(a, id, m)
         /\ IF snap[a] = NoRow THEN row' = row ELSE row'[id].status = s
<1>1. /\ snap[a] \in Rows \cup {NoRow}
      /\ snap' \in [Actors -> Rows \cup {NoRow}]
      /\ snap'[a] = NoRow /\ OtherCopies(a)
  BY DEF LogTypeOK, WriteStatus, OtherCopies
<1>2. CASE snap[a] = NoRow
  BY <1>1, <1>2 DEF LogTypeOK, WriteStatus, Rewrote, HasRow, OtherRows
<1>3. CASE snap[a] # NoRow
  <2> DEFINE r == StatusRow(snap[a], s)
  <2>1. r \in Rows /\ r.status = s /\ Begins(r, m)
    BY <1>1, <1>3 DEF StatusRow, Rows, Begins
  <2>2. row' = [row EXCEPT ![id] = r]
    BY <1>3 DEF WriteStatus
  <2>3. row' \in [TaskIds -> Rows \cup {NoRow}] /\ row'[id] = r /\ OtherRows(id)
    BY <2>1, <2>2 DEF LogTypeOK, OtherRows
  <2> QED
    BY <1>1, <1>3, <2>1, <2>3, NoRowAssumption DEF LogTypeOK, Rewrote, HasRow
<1> QED
  BY <1>2, <1>3

LEMMA MessageWritten ==
  ASSUME LogTypeOK, NEW a \in Actors, NEW id \in TaskIds, NEW x \in Messages, NEW m,
         WriteMessages(a, id, x),
         HasRow(id) => Begins(row[id], m),
         snap[a] # NoRow => HasRow(id) /\ Begins(snap[a], m)
  PROVE  Rewrote(a, id, m) /\ (HasRow(id) => row'[id].status = row[id].status)
<1>1. /\ snap[a] \in Rows \cup {NoRow}
      /\ snap' \in [Actors -> Rows \cup {NoRow}]
      /\ snap'[a] = NoRow /\ OtherCopies(a)
  BY DEF LogTypeOK, WriteMessages, OtherCopies
<1>2. CASE snap[a] = NoRow
  BY <1>1, <1>2 DEF LogTypeOK, WriteMessages, Rewrote, HasRow, OtherRows
<1>3. CASE snap[a] # NoRow
  <2> DEFINE ms == Append(snap[a].messages, x)
             r == MessagesRow(row[id], snap[a], x)
  <2>1. row[id] \in Rows /\ snap[a] \in Rows
    BY <1>1, <1>3 DEF LogTypeOK, HasRow
  <2>2. ms \in Seq(Messages) /\ ms # <<>> /\ ms[1] = m
    <3>1. snap[a].messages \in Seq(Messages) /\ snap[a].messages # <<>> /\ snap[a].messages[1] = m
      BY <1>3, <2>1 DEF Rows, Begins
    <3> QED
      BY <3>1
  <2>3. r \in Rows /\ r.status = row[id].status /\ r.messages = ms
    BY <2>1, <2>2 DEF MessagesRow, Rows
  <2>4. Begins(r, m)
    BY <2>2, <2>3 DEF Begins
  <2>5. row' = [row EXCEPT ![id] = r]
    BY <1>3 DEF WriteMessages
  <2>6. row' \in [TaskIds -> Rows \cup {NoRow}] /\ row'[id] = r /\ OtherRows(id)
    BY <2>3, <2>5 DEF LogTypeOK, OtherRows
  <2> QED
    BY <1>1, <1>3, <2>3, <2>4, <2>6, NoRowAssumption DEF LogTypeOK, Rewrote, HasRow
<1> QED
  BY <1>2, <1>3

-----------------------------------------------------------------------------
(* What the log says of one flow.                                          *)

Follows(f) ==
  /\ HasRow(Request(f)) /\ pc[f] \notin Writing \cup {"lost"}
  /\ Request(f) \notin touched /\ f \notin dbErr
  => row[Request(f)].status = due[f]

Justified(f) ==
  /\ HasRow(Response(f)) => due[f] = "completed" /\ sender[f] = "reachable"
  /\ HasRow(Response(f)) /\ row[Response(f)].status = "completed"
       => f \in delivered \/ Response(f) \in touched

TaskInv == LogInv /\ StatusFollowsAgent /\ AnswerJustified

LEMMA PerFlow ==
  /\ StatusFollowsAgent <=> \A f \in Flows : Follows(f)
  /\ AnswerJustified <=> \A f \in Flows : Justified(f)
  BY DEF StatusFollowsAgent, Follows, AnswerJustified, Justified

LEMMA FirstOf ==
  ASSUME NEW f \in Flows
  PROVE  First(Request(f)) = Ask /\ First(Response(f)) = lastMsg[f]
  BY DEF First, Request, Response

LEMMA FlowActor ==
  ASSUME NEW f \in Flows
  PROVE  /\ f \in Actors /\ f \notin Handlers
         /\ TaskOf(f) = IF pc[f] = "doneWrite" THEN Response(f) ELSE Request(f)
         /\ Holding(f) <=> pc[f] \in {"failWrite", "statusWrite", "appendWrite", "doneWrite"}
  BY ActorsAssumption DEF TaskOf, Holding

LEMMA LogStart == Init => TaskInv
<1> SUFFICES ASSUME Init PROVE TaskInv
  OBVIOUS
<1>1. \A id \in TaskIds : ~HasRow(id)
  BY DEF Init, LogInit, HasRow
<1>2. LogTypeOK /\ Recorded /\ \A a \in Actors : Copied(a)
  BY <1>1 DEF Init, LogInit, LogTypeOK, Recorded, Copied
<1>3. \A f \in Flows : Logged(f) /\ Follows(f) /\ Justified(f)
  BY <1>1, TaskNames DEF Init, Logged, Follows, Justified, Active, Writing, Nothing
<1> QED
  BY <1>2, <1>3, PerFlow DEF TaskInv, LogInv

(* What a step of one flow owes to the log.                                *)
OwnTasks(f) == {Request(f), Response(f)}

Owed(f) ==
  /\ LogTypeOK' /\ OtherCopies(f)
  /\ \A t \in TaskIds \ OwnTasks(f) : row'[t] = row[t]
  /\ \A t \in OwnTasks(f) : HasRow(t) => HasRow(t)'
  /\ HasRow(Request(f))' => Begins(row'[Request(f)], Ask)
  /\ HasRow(Response(f))' => Begins(row'[Response(f)], lastMsg'[f])
  /\ HasRow(Response(f)) => lastMsg'[f] = lastMsg[f]
  /\ Copied(f)' /\ Logged(f)' /\ Follows(f)' /\ Justified(f)'

LEMMA OneFlowLogs ==
  ASSUME HandlerInv, TaskInv, NEW f \in Flows, OneMoves(f), UNCHANGED serverVars, Owed(f)
  PROVE  TaskInv'
<1> USE DEF serverVars, jobVars
<1>1. \A id \in TaskIds : HasRow(id) => HasRow(id)' /\ First(id)' = First(id)
  <2> SUFFICES ASSUME NEW id \in TaskIds, HasRow(id) PROVE HasRow(id)' /\ First(id)' = First(id)
    OBVIOUS
  <2>1. HasRow(id)'
    BY DEF Owed, HasRow
  <2>2. PICK g \in Flows : id = Request(g) \/ id = Response(g)
    BY TaskIdsAssumption DEF Request, Response
  <2>3. CASE id = Request(g)
    BY <2>1, <2>3, FirstOf DEF First, Request
  <2>4. CASE id = Response(g)
    <3>1. lastMsg'[g] = lastMsg[g]
      BY <2>4 DEF Owed, OneMoves
    <3> QED
      BY <2>1, <2>4, <3>1 DEF First, Response
  <2> QED
    BY <2>2, <2>3, <2>4
<1>2. Recorded'
  <2> SUFFICES ASSUME NEW id \in TaskIds, HasRow(id)' PROVE Begins(row'[id], First(id)')
    BY DEF Recorded, Begins
  <2>1. CASE id \in OwnTasks(f)
    BY <2>1 DEF Owed, OwnTasks, First, Request, Response
  <2>2. CASE id \notin OwnTasks(f)
    BY <1>1, <2>2 DEF Owed, HasRow, TaskInv, LogInv, Recorded, Begins
  <2> QED
    BY <2>1, <2>2
<1>3. ASSUME NEW a \in Actors PROVE Copied(a)'
  <2>1. CASE a = f
    BY <2>1 DEF Owed
  <2>2. CASE a # f
    <3>1. snap'[a] = snap[a] /\ Copied(a)
      BY <2>2 DEF Owed, OtherCopies, TaskInv, LogInv
    <3>2. CASE a \in Handlers
      <4>1. Holding(a)' = Holding(a) /\ TaskOf(a)' = TaskOf(a)
        BY <3>2 DEF Holding, TaskOf
      <4>2. Holding(a) => TaskOf(a) \in TaskIds
        BY <3>2, JobShape DEF Holding, TaskOf, HandlerInv, HandlerAt
      <4> QED
        BY <1>1, <3>1, <4>1, <4>2 DEF Copied, Begins
    <3>3. CASE a \in Flows
      <4>1. pc'[a] = pc[a]
        BY <2>2, <3>3 DEF OneMoves
      <4>2. Holding(a)' = Holding(a) /\ TaskOf(a)' = TaskOf(a) /\ TaskOf(a) \in TaskIds
        BY <3>3, <4>1, FlowActor, TaskNames DEF Holding, TaskOf
      <4> QED
        BY <1>1, <3>1, <4>2 DEF Copied, Begins
    <3> QED
      BY <3>2, <3>3, ActorsAssumption
  <2> QED
    BY <2>1, <2>2
<1>4. ASSUME NEW g \in Flows PROVE Logged(g)' /\ Follows(g)' /\ Justified(g)'
  <2>1. CASE g = f
    BY <2>1 DEF Owed
  <2>2. CASE g # f
    <3>1. /\ pc'[g] = pc[g] /\ sender'[g] = sender[g] /\ ev'[g] = ev[g] /\ lastMsg'[g] = lastMsg[g]
          /\ due'[g] = due[g]
          /\ (g \in dbErr' <=> g \in dbErr) /\ (g \in delivered' <=> g \in delivered)
      BY <2>2 DEF OneMoves
    <3>2. row'[Request(g)] = row[Request(g)] /\ row'[Response(g)] = row[Response(g)]
      BY <2>2, TaskNames DEF Owed, OwnTasks
    <3>3. snap'[g] = snap[g]
      BY <2>2, FlowActor DEF Owed, OtherCopies
    <3>4. Logged(g) /\ Follows(g) /\ Justified(g)
      BY PerFlow DEF TaskInv, LogInv
    <3>5. Logged(g)'
      BY <3>1, <3>2, <3>3, <3>4 DEF Logged, HasRow
    <3>6. Follows(g)'
      BY <3>1, <3>2, <3>4 DEF Follows, HasRow
    <3>7. Justified(g)'
      BY <3>1, <3>2, <3>4 DEF Justified, HasRow
    <3> QED
      BY <3>5, <3>6, <3>7
  <2> QED
    BY <2>1, <2>2
<1>5. LogInv'
  BY <1>2, <1>3, <1>4 DEF LogInv, Owed
<1>6. StatusFollowsAgent' /\ AnswerJustified'
  BY <1>4 DEF StatusFollowsAgent, Follows, AnswerJustified, Justified
<1> QED
  BY <1>5, <1>6 DEF TaskInv

(* What is known of a flow, its rows and its copy before a step of its own.*)
Known(f) ==
  /\ LogTypeOK /\ FlowAt(f) /\ Logged(f) /\ Follows(f) /\ Justified(f)
  /\ HasRow(Request(f)) => Begins(row[Request(f)], Ask)
  /\ HasRow(Response(f)) => Begins(row[Response(f)], lastMsg[f])
  /\ snap[f] # NoRow => pc[f] \in {"failWrite", "statusWrite", "appendWrite", "doneWrite"}
  /\ snap[f] # NoRow /\ pc[f] \in {"failWrite", "statusWrite", "appendWrite"} =>
       HasRow(Request(f)) /\ Begins(snap[f], Ask)
  /\ snap[f] # NoRow /\ pc[f] = "doneWrite" => HasRow(Response(f)) /\ Begins(snap[f], lastMsg[f])

LEMMA KnownOf ==
  ASSUME FlowInv, TaskInv, NEW f \in Flows
  PROVE  Known(f)
<1>1. LogTypeOK /\ FlowAt(f) /\ Logged(f) /\ Follows(f) /\ Justified(f) /\ Copied(f)
  BY PerFlow, FlowActor DEF FlowInv, TaskInv, LogInv
<1>2. /\ HasRow(Request(f)) => Begins(row[Request(f)], Ask)
      /\ HasRow(Response(f)) => Begins(row[Response(f)], lastMsg[f])
  BY TaskNames, FirstOf DEF TaskInv, LogInv, Recorded
<1> QED
  BY <1>1, <1>2, FlowActor, FirstOf DEF Known, Copied

(* A step that leaves the log alone, and one that changes the rows.        *)
LEMMA QuietOwes ==
  ASSUME NEW f \in Flows, Known(f), UNCHANGED logVars, snap[f] = NoRow,
         HasRow(Response(f)) => lastMsg'[f] = lastMsg[f],
         Logged(f)', Follows(f)', Justified(f)'
  PROVE  Owed(f)
<1>1. Copied(f)'
  BY DEF Copied, logVars
<1> QED
  BY <1>1 DEF Known, Owed, logVars, LogTypeOK, OtherCopies, OwnTasks, HasRow, Begins

LEMMA QuietSteps ==
  ASSUME FlowInv, TaskInv, NEW f \in Flows,
         \/ LookupSender(f) \/ PostFails(f) \/ PostSucceeds(f) \/ ChatAccepted(f)
         \/ Connect(f) \/ StreamEnds(f) \/ Tell(f) \/ ForwardFails(f) \/ ForwardSucceeds(f)
  PROVE  Owed(f)
<1> Known(f) /\ FlowVarsOK
  BY KnownOf DEF FlowInv
<1>1. UNCHANGED logVars /\ UNCHANGED touched
  BY DEF LookupSender, PostFails, PostSucceeds, ChatAccepted, Connect, StreamEnds, Tell,
     ForwardFails, ForwardSucceeds, serverVars, jobVars
<1>2. lastMsg'[f] = lastMsg[f] /\ ev'[f] = ev[f]
  BY DEF LookupSender, PostFails, PostSucceeds, ChatAccepted, Connect, StreamEnds, Tell,
     ForwardFails, ForwardSucceeds, localVars
<1> SUFFICES snap[f] = NoRow /\ Logged(f)' /\ Follows(f)' /\ Justified(f)'
  BY <1>1, <1>2, QuietOwes
<1> USE <1>1, <1>2 DEF FlowVarsOK, FlowAt, Known, Goto, Logged, Follows, Justified, HasRow,
   logVars, Active, Writing, Unsent, Failing, Answering
<1>3. CASE LookupSender(f)
  BY <1>3 DEF LookupSender
<1>4. CASE PostFails(f)
  BY <1>4 DEF PostFails
<1>5. CASE PostSucceeds(f)
  BY <1>5 DEF PostSucceeds, localVars
<1>6. CASE ChatAccepted(f)
  BY <1>6 DEF ChatAccepted, localVars
<1>7. CASE StreamEnds(f)
  BY <1>7 DEF StreamEnds, localVars
<1>8. CASE Connect(f)
  BY <1>8 DEF Connect, localVars
<1>9. CASE Tell(f)
  BY <1>9 DEF Tell, localVars, AfterTell, MustForward, EndStatuses
<1>10. CASE ForwardFails(f)
  BY <1>10 DEF ForwardFails, localVars
<1>11. CASE ForwardSucceeds(f)
  BY <1>11 DEF ForwardSucceeds, localVars
<1> QED
  BY <1>3, <1>4, <1>5, <1>6, <1>7, <1>8, <1>9, <1>10, <1>11

LEMMA EventStep ==
  ASSUME FlowInv, TaskInv, NEW f \in Flows, NEW s \in EventStatuses,
         NEW m \in AgentMessages \cup {NoMessage}, Event(f, [status |-> s, message |-> m])
  PROVE  Owed(f)
<1> DEFINE u == [status |-> s, message |-> m]
<1>1. Known(f) /\ FlowVarsOK
  BY KnownOf DEF FlowInv
<1>2. /\ UNCHANGED <<logVars, sender, dbErr, delivered, touched>>
      /\ pc[f] = "stream" /\ ev'[f] = u
      /\ pc'[f] \in {"statusRead", "appendRead", "broadcast", "stream"}
      /\ s # "none" => pc'[f] = "statusRead"
      /\ s = "none" => due'[f] = due[f]
  BY <1>1, BoundsAssumption DEF Event, AfterStatus, Goto, FlowVarsOK, serverVars, jobVars
<1>3. HasRow(Request(f)) /\ ~HasRow(Response(f)) /\ snap[f] = NoRow
  BY <1>1, <1>2 DEF Known, Logged, Active, Writing
<1>4. Logged(f)' /\ Justified(f)'
  BY <1>2, <1>3 DEF Logged, Justified, HasRow, logVars
<1>5. Follows(f)'
  BY <1>1, <1>2, <1>3 DEF Known, Follows, HasRow, logVars, Writing
<1> QED
  BY <1>1, <1>2, <1>3, <1>4, <1>5, QuietOwes

(* The first halves: a copy of the row is taken.                           *)
LEMMA ReadSteps ==
  ASSUME FlowInv, TaskInv, NEW f \in Flows,
         FailRead(f) \/ StatusRead(f) \/ AppendRead(f) \/ DoneRead(f)
  PROVE  Owed(f)
<1> DEFINE id == IF pc[f] = "doneRead" THEN Response(f) ELSE Request(f)
<1>1. Known(f) /\ FlowVarsOK /\ f \in Actors /\ f \notin Handlers
  BY KnownOf, FlowActor DEF FlowInv
<1>2. /\ ReadTask(f, id) /\ id \in TaskIds
      /\ UNCHANGED <<sender, ev, lastMsg, due, dbErr, delivered, touched>>
      /\ \/ pc[f] = "failRead" /\ pc'[f] = "failWrite"
         \/ pc[f] = "statusRead" /\ pc'[f] = "statusWrite"
         \/ pc[f] = "appendRead" /\ pc'[f] = "appendWrite"
         \/ pc[f] = "doneRead" /\ pc'[f] = "doneWrite"
  BY <1>1, TaskNames DEF FailRead, StatusRead, AppendRead, DoneRead, Goto, FlowVarsOK, localVars,
     serverVars, jobVars
<1>3. LogTypeOK' /\ UNCHANGED row /\ snap'[f] = row[id] /\ OtherCopies(f)
  BY <1>1, <1>2, ReadDone DEF Known
<1>4. pc[f] # "doneRead" => HasRow(Request(f))
  BY <1>1, <1>2 DEF Known, Logged, Active, Writing
<1>5. Copied(f)'
  BY <1>1, <1>2, <1>3 DEF Known, Copied, Holding, TaskOf, HasRow, Begins, First, Request, Response
<1>6. Logged(f)'
  BY <1>1, <1>2, <1>3, <1>4 DEF Known, Logged, HasRow, Active, Writing
<1>7. Follows(f)'
  BY <1>1, <1>2, <1>3 DEF Known, Follows, HasRow, Writing
<1>8. Justified(f)'
  BY <1>1, <1>2, <1>3 DEF Known, Justified, HasRow
<1> QED
  BY <1>1, <1>2, <1>3, <1>5, <1>6, <1>7, <1>8 DEF Known, Owed, HasRow, Begins

(* The row of an exchange is created while it says "pending", its answer's *)
(* when the agent has completed.                                           *)
LEMMA CreateSteps ==
  ASSUME FlowInv, TaskInv, NEW f \in Flows, RelayRequest(f) \/ ChatCreate(f) \/ ForwardCreate(f)
  PROVE  Owed(f)
<1>1. Known(f) /\ FlowVarsOK /\ f \in Actors
  BY KnownOf, FlowActor DEF FlowInv
<1>2. pc[f] = "forwardCreate" => lastMsg[f] \in Messages
  BY <1>1 DEF Known, FlowAt, Answering, FlowVarsOK
<1>3. PICK id \in TaskIds, m \in Messages :
        /\ CreateTask(id, m)
        /\ id = IF pc[f] = "forwardCreate" THEN Response(f) ELSE Request(f)
        /\ m = IF pc[f] = "forwardCreate" THEN lastMsg[f] ELSE Ask
        /\ UNCHANGED <<sender, ev, lastMsg, due, dbErr, delivered, touched>>
        /\ \/ pc[f] = "idle" /\ pc'[f] = "lookup"
           \/ pc[f] = "chatCreate" /\ pc'[f] = "connect"
           \/ pc[f] = "forwardCreate" /\ pc'[f] = "forwardPost"
  BY <1>1, <1>2, TaskNames, MessagesAssumption
     DEF RelayRequest, ChatCreate, ForwardCreate, Goto, FlowVarsOK, localVars, serverVars, jobVars
<1>4. /\ LogTypeOK' /\ UNCHANGED snap /\ OtherRows(id)
      /\ row'[id] # NoRow /\ Begins(row'[id], m) /\ row'[id].status = "pending"
  BY <1>1, <1>3, CreateDone DEF Known, HasRow
<1>5. snap[f] = NoRow
  BY <1>1, <1>3 DEF Known
<1>6. Copied(f)' /\ OtherCopies(f)
  BY <1>4, <1>5 DEF Copied, OtherCopies
<1>7. CASE pc[f] # "forwardCreate"
  <2>1. row'[Response(f)] = row[Response(f)]
    BY <1>3, <1>4, <1>7, TaskNames DEF OtherRows
  <2>2. ~HasRow(Response(f))
    BY <1>1, <1>3, <1>7 DEF Known, Logged
  <2>3. Logged(f)' /\ Justified(f)'
    BY <1>3, <1>4, <1>7, <2>1, <2>2 DEF Logged, Justified, HasRow
  <2>4. Follows(f)'
    BY <1>1, <1>3, <1>4, <1>7 DEF Known, FlowAt, Follows, Unsent
  <2> QED
    BY <1>3, <1>4, <1>6, <1>7, <2>1, <2>2, <2>3, <2>4 DEF Owed, OtherRows, OwnTasks, HasRow
<1>8. CASE pc[f] = "forwardCreate"
  <2>1. row'[Request(f)] = row[Request(f)]
    BY <1>3, <1>4, <1>8, TaskNames DEF OtherRows
  <2>2. HasRow(Request(f)) /\ lastMsg[f] # NoMessage
    BY <1>1, <1>8 DEF Known, FlowAt, Logged, Answering, Active
  <2>3. Logged(f)'
    BY <1>3, <1>4, <1>8, <2>1, <2>2 DEF Logged, HasRow
  <2>4. Follows(f)'
    BY <1>1, <1>3, <1>8, <2>1 DEF Known, Follows, HasRow, Writing
  <2>5. Justified(f)'
    BY <1>1, <1>3, <1>4, <1>8 DEF Known, FlowAt, Justified, Answering
  <2> QED
    BY <1>1, <1>3, <1>4, <1>6, <1>8, <2>1, <2>2, <2>3, <2>4, <2>5 DEF Known, Owed, OtherRows,
       OwnTasks, HasRow
<1> QED
  BY <1>7, <1>8

(* The second halves.                                                      *)
LEMMA StatusSteps ==
  ASSUME FlowInv, TaskInv, NEW f \in Flows, FailWrite(f) \/ StatusWrite(f)
  PROVE  Owed(f)
<1>1. Known(f) /\ FlowVarsOK /\ f \in Actors /\ Request(f) \in TaskIds
  BY KnownOf, FlowActor, TaskNames DEF FlowInv
<1>2. PICK s \in Statuses :
        /\ WriteStatus(f, Request(f), s) /\ s = due[f]
        /\ UNCHANGED <<sender, ev, lastMsg, due, dbErr, delivered, touched>>
        /\ \/ pc[f] = "failWrite" /\ pc'[f] = "done"
           \/ pc[f] = "statusWrite" /\ pc'[f] \in {"appendRead", "broadcast"}
  <2>1. CASE FailWrite(f)
    BY <1>1, <2>1 DEF FailWrite, Goto, Known, FlowAt, FlowVarsOK, Failing, localVars, serverVars,
       jobVars, Statuses
  <2>2. CASE StatusWrite(f)
    <3>1. pc[f] = "statusWrite" /\ due[f] = ev[f].status /\ due[f] \in Statuses
      BY <1>1, <2>2 DEF StatusWrite, Goto, Known, FlowAt, FlowVarsOK
    <3> QED
      BY <1>1, <2>2, <3>1 DEF StatusWrite, AfterStatus, Goto, FlowVarsOK, localVars, serverVars,
         jobVars
  <2> QED
    BY <2>1, <2>2
<1>3. snap[f] # NoRow /\ HasRow(Request(f)) /\ Begins(snap[f], Ask)
  BY <1>1, <1>2 DEF Known, Logged
<1>4. Rewrote(f, Request(f), Ask) /\ row'[Request(f)].status = due[f]
  BY <1>1, <1>2, <1>3, StatusWritten DEF Known
<1>5. row'[Response(f)] = row[Response(f)] /\ snap'[f] = NoRow /\ row'[Request(f)] # NoRow
  BY <1>3, <1>4, TaskNames DEF Rewrote, OtherRows, HasRow
<1>6. HasRow(Response(f)) => FALSE
  BY <1>1, <1>2 DEF Known, Logged
<1>7. Copied(f)' /\ Logged(f)' /\ Justified(f)'
  BY <1>2, <1>3, <1>5, <1>6 DEF Copied, Logged, Justified, HasRow
<1>8. Follows(f)'
  BY <1>2, <1>4 DEF Follows
<1> QED
  BY <1>2, <1>3, <1>4, <1>5, <1>6, <1>7, <1>8 DEF Owed, Rewrote, OtherRows, OwnTasks, HasRow

LEMMA AppendStep ==
  ASSUME FlowInv, TaskInv, NEW f \in Flows, AppendWrite(f)
  PROVE  Owed(f)
<1>1. Known(f) /\ FlowVarsOK /\ f \in Actors /\ Request(f) \in TaskIds
  BY KnownOf, FlowActor, TaskNames DEF FlowInv
<1>2. /\ WriteMessages(f, Request(f), ev[f].message)
      /\ UNCHANGED <<sender, ev, lastMsg, due, dbErr, delivered, touched>>
      /\ pc[f] = "appendWrite" /\ pc'[f] = "broadcast"
  BY <1>1 DEF AppendWrite, Goto, FlowVarsOK, localVars, serverVars, jobVars
<1>3. ev[f].message \in Messages
  BY <1>1, <1>2 DEF Known, FlowAt, FlowVarsOK, Updates
<1>4. /\ HasRow(Request(f)) => Begins(row[Request(f)], Ask)
      /\ snap[f] # NoRow => HasRow(Request(f)) /\ Begins(snap[f], Ask)
  BY <1>1, <1>2 DEF Known
<1>5. /\ Rewrote(f, Request(f), Ask)
      /\ HasRow(Request(f)) => row'[Request(f)].status = row[Request(f)].status
  BY <1>1, <1>2, <1>3, <1>4, MessageWritten DEF Known
<1>6. /\ row'[Response(f)] = row[Response(f)] /\ snap'[f] = NoRow
      /\ row'[Request(f)] # NoRow <=> row[Request(f)] # NoRow
  BY <1>5, TaskNames DEF Rewrote, OtherRows, HasRow
<1>7. HasRow(Request(f)) /\ ~HasRow(Response(f))
  BY <1>1, <1>2 DEF Known, Logged, Active
<1>8. Copied(f)' /\ Logged(f)' /\ Justified(f)'
  BY <1>2, <1>6, <1>7 DEF Copied, Logged, Justified, HasRow
<1>9. Follows(f)'
  BY <1>1, <1>2, <1>5, <1>7 DEF Known, Follows, Writing
<1> QED
  BY <1>2, <1>5, <1>6, <1>7, <1>8, <1>9 DEF Owed, Rewrote, OtherRows, OwnTasks, HasRow

LEMMA DoneStep ==
  ASSUME FlowInv, TaskInv, NEW f \in Flows, DoneWrite(f)
  PROVE  Owed(f)
<1>1. Known(f) /\ FlowVarsOK /\ f \in Actors /\ Response(f) \in TaskIds
  BY KnownOf, FlowActor, TaskNames DEF FlowInv
<1>2. /\ WriteStatus(f, Response(f), "completed")
      /\ UNCHANGED <<sender, ev, lastMsg, due, dbErr, delivered, touched>>
      /\ pc[f] = "doneWrite" /\ pc'[f] = "done"
  BY <1>1 DEF DoneWrite, Goto, FlowVarsOK, localVars, serverVars, jobVars
<1>3. PICK m : m = lastMsg[f]
  OBVIOUS
<1>4. /\ HasRow(Response(f)) => Begins(row[Response(f)], m)
      /\ snap[f] # NoRow => HasRow(Response(f)) /\ Begins(snap[f], m)
  BY <1>1, <1>2, <1>3 DEF Known
<1>5. Rewrote(f, Response(f), m)
  BY <1>1, <1>2, <1>4, StatusWritten DEF Known, Statuses
<1>6. /\ row'[Request(f)] = row[Request(f)] /\ snap'[f] = NoRow
      /\ row'[Response(f)] # NoRow <=> row[Response(f)] # NoRow
  BY <1>5, TaskNames DEF Rewrote, OtherRows, HasRow
<1>7. HasRow(Request(f)) /\ f \in delivered /\ lastMsg[f] # NoMessage
  BY <1>1, <1>2 DEF Known, FlowAt, Logged, Active, Answering
<1>8. Copied(f)' /\ Logged(f)' /\ Justified(f)'
  BY <1>1, <1>2, <1>6, <1>7 DEF Known, Copied, Logged, Justified, HasRow
<1>9. Follows(f)'
  BY <1>1, <1>2, <1>6, <1>7 DEF Known, Follows, HasRow, Writing
<1>10. HasRow(Response(f))' => Begins(row'[Response(f)], lastMsg'[f])
  BY <1>2, <1>3, <1>5, <1>6 DEF Rewrote, HasRow
<1> QED
  BY <1>1, <1>2, <1>5, <1>6, <1>7, <1>8, <1>9, <1>10 DEF Known, Owed, Rewrote, OtherRows,
     OwnTasks, HasRow

LEMMA FailSteps ==
  ASSUME FlowInv, TaskInv, NEW f \in Flows, StatementFails(f)
  PROVE  Owed(f)
<1>1. Known(f) /\ FlowVarsOK /\ f \in Actors
  BY KnownOf, FlowActor DEF FlowInv
<1>2. LogTypeOK' /\ UNCHANGED row /\ snap'[f] = NoRow /\ OtherCopies(f)
  BY <1>1, DropDone DEF StatementFails, Known
<1>3. /\ UNCHANGED <<sender, ev, lastMsg, due, delivered, touched>>
      /\ f \in dbErr'
      /\ \/ pc[f] \in {"statusRead", "statusWrite"} /\ pc'[f] \in {"appendRead", "broadcast"}
         \/ pc[f] \in {"appendRead", "appendWrite"} /\ pc'[f] = "broadcast"
         \/ /\ pc[f] \in {"failRead", "failWrite", "chatCreate", "forwardCreate",
                         "doneRead", "doneWrite"}
            /\ pc'[f] = "done"
  BY <1>1 DEF StatementFails, AfterStatus, Goto, FlowVarsOK, localVars, serverVars, jobVars
<1>4. Copied(f)' /\ Follows(f)'
  BY <1>2, <1>3 DEF Copied, Follows
<1>5. Logged(f)'
  BY <1>1, <1>2, <1>3 DEF Known, Logged, HasRow, Active, Writing
<1>6. Justified(f)'
  BY <1>1, <1>2, <1>3 DEF Known, Justified, HasRow
<1> QED
  BY <1>1, <1>2, <1>3, <1>4, <1>5, <1>6 DEF Known, Owed, HasRow, Begins

LEMMA FlowStepLogs ==
  ASSUME FlowInv, HandlerInv, TaskInv, NEW f \in Flows, FlowStep(f) \/ AgentStep(f)
  PROVE  TaskInv'
<1>1. OneMoves(f) /\ UNCHANGED serverVars
  BY FlowStepKeeps
<1>2. Owed(f)
  BY QuietSteps, EventStep, ReadSteps, CreateSteps, StatusSteps, AppendStep, DoneStep, FailSteps
     DEF FlowStep, AgentStep
<1> QED
  BY <1>1, <1>2, OneFlowLogs

(* A handler may write any row, but a status only with leave.              *)
LEMMA OneHandlerLogs ==
  ASSUME HandlerInv, TaskInv, NEW h \in Handlers, UNCHANGED flowVars, OneHandles(h),
         LogTypeOK', OtherCopies(h), Copied(h)',
         \A t \in TaskIds :
           /\ HasRow(t)' <=> HasRow(t)
           /\ HasRow(t) => Begins(row'[t], First(t))
           /\ HasRow(t) => row'[t].status = row[t].status \/ t \in touched'
  PROVE  TaskInv'
<1> USE DEF flowVars, localVars
<1>1. Recorded'
  BY DEF Recorded, First, Begins
<1>2. ASSUME NEW a \in Actors PROVE Copied(a)'
  <2>1. CASE a = h
    BY <2>1
  <2>2. CASE a # h
    <3>1. snap'[a] = snap[a] /\ Copied(a)
      BY <2>2 DEF OtherCopies, TaskInv, LogInv
    <3>2. Holding(a)' = Holding(a) /\ TaskOf(a)' = TaskOf(a)
      BY <2>2 DEF Holding, TaskOf, OneHandles
    <3>3. Holding(a) => TaskOf(a) \in TaskIds
      BY JobShape, TaskNames, ActorsAssumption DEF Holding, TaskOf, HandlerInv, HandlerAt
    <3> QED
      BY <3>1, <3>2, <3>3 DEF Copied, Begins, First, HasRow
  <2> QED
    BY <2>1, <2>2
<1>3. ASSUME NEW g \in Flows PROVE Logged(g)' /\ Follows(g)' /\ Justified(g)'
  <2>1. /\ HasRow(Request(g))' <=> HasRow(Request(g))
        /\ HasRow(Response(g))' <=> HasRow(Response(g))
        /\ HasRow(Request(g)) =>
             row'[Request(g)].status = row[Request(g)].status \/ Request(g) \in touched'
        /\ HasRow(Response(g)) =>
             row'[Response(g)].status = row[Response(g)].status \/ Response(g) \in touched'
    BY TaskNames DEF HasRow
  <2>2. snap'[g] = snap[g]
    BY ActorsAssumption DEF OtherCopies
  <2>3. Logged(g) /\ Follows(g) /\ Justified(g) /\ touched \subseteq touched'
    BY PerFlow DEF TaskInv, LogInv, OneHandles
  <2>4. Logged(g)'
    BY <2>1, <2>2, <2>3 DEF Logged
  <2>5. Follows(g)'
    BY <2>1, <2>3 DEF Follows
  <2>6. Justified(g)'
    BY <2>1, <2>3 DEF Justified
  <2> QED
    BY <2>4, <2>5, <2>6
<1>4. LogInv'
  BY <1>1, <1>2, <1>3 DEF LogInv
<1>5. StatusFollowsAgent' /\ AnswerJustified'
  BY <1>3 DEF StatusFollowsAgent, Follows, AnswerJustified, Justified
<1> QED
  BY <1>4, <1>5 DEF TaskInv

(* What is known of a handler that has a copy, or is about to take one.    *)
LEMMA HandlerKnown ==
  ASSUME HandlerInv, TaskInv, NEW h \in Handlers
  PROVE  /\ h \in Actors /\ LogTypeOK /\ HandlerVarsOK
         /\ hpc[h] \notin {"idle", "done"} => job[h].id \in TaskIds
         /\ hpc[h] \in {"appendRead", "appendWrite"} => job[h].message \in Messages
         /\ hpc[h] \in {"statusRead", "statusWrite"} => job[h].status \in Statuses
         /\ snap[h] # NoRow =>
              /\ hpc[h] \in {"appendWrite", "statusWrite"}
              /\ HasRow(job[h].id) /\ Begins(snap[h], First(job[h].id))
         /\ \A t \in TaskIds : HasRow(t) => Begins(row[t], First(t))
<1>1. h \in Actors /\ LogTypeOK /\ HandlerVarsOK /\ HandlerAt(h) /\ Copied(h) /\ Recorded
  BY ActorsAssumption DEF HandlerInv, TaskInv, LogInv
<1>2. hpc[h] \notin {"idle", "done"} =>
        /\ job[h].id \in TaskIds
        /\ job[h].message \in PostedMessages \cup {NoMessage}
        /\ job[h].status \in Statuses \cup {"none"}
  BY <1>1, JobShape DEF HandlerAt
<1> QED
  BY <1>1, <1>2, MessagesAssumption DEF HandlerAt, Copied, Holding, TaskOf, Recorded

LEMMA HandlerStepLogs ==
  ASSUME HandlerInv, TaskInv, NEW h \in Handlers, HandlerStep(h) \/ \E j \in Jobs : Arrive(h, j)
  PROVE  TaskInv'
<1>1. OneHandles(h) /\ UNCHANGED flowVars
  BY HandlerStepKeeps
<1>2. UNCHANGED lastMsg
  BY <1>1 DEF flowVars, localVars
<1>3. CASE UNCHANGED logVars /\ snap[h] = NoRow
  BY <1>1, <1>3, HandlerKnown, OneHandlerLogs
     DEF logVars, LogTypeOK, OtherCopies, Copied, HasRow, Begins
<1>4. CASE DropRead(h)
  <2>1. LogTypeOK' /\ UNCHANGED row /\ snap'[h] = NoRow /\ OtherCopies(h)
    BY <1>4, HandlerKnown, DropDone
  <2> QED
    BY <1>1, <2>1, HandlerKnown, OneHandlerLogs DEF Copied, HasRow, Begins
<1>5. CASE HandlerAppendRead(h) \/ HandlerStatusRead(h)
  <2>1. PICK id \in TaskIds :
          /\ id = job[h].id /\ ReadTask(h, id) /\ job'[h] = job[h]
          /\ hpc'[h] \in {"appendWrite", "statusWrite"}
    BY <1>5, HandlerKnown DEF HandlerAppendRead, HandlerStatusRead, HandlerGoto, HandlerVarsOK
  <2>2. LogTypeOK' /\ UNCHANGED row /\ snap'[h] = row[id] /\ OtherCopies(h)
    BY <2>1, HandlerKnown, ReadDone
  <2>3. Copied(h)'
    BY <1>2, <2>1, <2>2, HandlerKnown DEF Copied, Holding, TaskOf, HasRow, Begins, First
  <2> QED
    BY <1>1, <2>2, <2>3, HandlerKnown, OneHandlerLogs DEF HasRow, Begins
<1>6. CASE HandlerAppendWrite(h) \/ HandlerStatusWrite(h)
  <2>1. PICK id \in TaskIds : id = job[h].id
    BY <1>6, HandlerKnown DEF HandlerAppendWrite, HandlerStatusWrite, HandlerGoto
  <2>2. PICK m : m = First(id)
    OBVIOUS
  <2>3. /\ HasRow(id) => Begins(row[id], m)
        /\ snap[h] # NoRow => HasRow(id) /\ Begins(snap[h], m)
    BY <2>1, <2>2, HandlerKnown
  <2>4. CASE HandlerAppendWrite(h)
    <3>1. Rewrote(h, id, m) /\ (HasRow(id) => row'[id].status = row[id].status)
      BY <2>1, <2>3, <2>4, HandlerKnown, MessageWritten DEF HandlerAppendWrite, HandlerGoto
    <3> QED
      BY <1>1, <2>1, <2>2, <3>1, HandlerKnown, OneHandlerLogs DEF Rewrote, OtherRows, Copied, HasRow,
         Begins
  <2>5. CASE HandlerStatusWrite(h)
    <3>1. Rewrote(h, id, m) /\ id \in touched'
      BY <2>1, <2>3, <2>5, HandlerKnown, StatusWritten DEF HandlerStatusWrite, HandlerGoto
    <3> QED
      BY <1>1, <2>1, <2>2, <3>1, HandlerKnown, OneHandlerLogs DEF Rewrote, OtherRows, Copied, HasRow,
         Begins
  <2> QED
    BY <1>6, <2>4, <2>5
<1>7. ASSUME NEW j \in Jobs, Arrive(h, j) PROVE TaskInv'
  BY <1>3, <1>7, HandlerKnown DEF Arrive
<1> QED
  BY <1>4, <1>5, <1>6, <1>7 DEF HandlerStep, HandlerFails

LEMMA LogRests ==
  ASSUME TaskInv, UNCHANGED <<logVars, flowVars, serverVars>>
  PROVE  TaskInv'
<1> USE DEF logVars, flowVars, localVars, serverVars, jobVars
<1>1. LogTypeOK' /\ Recorded' /\ \A a \in Actors : Copied(a)'
  BY DEF TaskInv, LogInv, LogTypeOK, Recorded, HasRow, Begins, First, Copied, Holding, TaskOf
<1>2. ASSUME NEW g \in Flows PROVE Logged(g)' /\ Follows(g)' /\ Justified(g)'
  BY PerFlow DEF TaskInv, LogInv, Logged, Follows, Justified, HasRow
<1> QED
  BY <1>1, <1>2 DEF TaskInv, LogInv, StatusFollowsAgent, Follows, AnswerJustified, Justified

LEMMA RestartLogs ==
  ASSUME TaskInv, Restart
  PROVE  TaskInv'
<1> USE DEF Restart
<1>1. LogTypeOK' /\ Recorded' /\ \A a \in Actors : Copied(a)'
  BY DEF TaskInv, LogInv, LogTypeOK, Recorded, HasRow, Begins, First, Copied
<1>2. ASSUME NEW g \in Flows PROVE Logged(g)' /\ Follows(g)' /\ Justified(g)'
  <2>1. Logged(g) /\ Follows(g) /\ Justified(g)
    BY PerFlow DEF TaskInv, LogInv
  <2>2. pc'[g] = IF pc[g] \in Active THEN "lost" ELSE pc[g]
    OBVIOUS
  <2> QED
    BY <2>1, <2>2 DEF Logged, Follows, Justified, HasRow, Active, Writing
<1> QED
  BY <1>1, <1>2 DEF TaskInv, LogInv, StatusFollowsAgent, Follows, AnswerJustified, Justified

-----------------------------------------------------------------------------
(* Viewers.                                                                *)

LEMMA ViewStart == Init => ViewInv /\ NoMissedEnd
<1> SUFFICES ASSUME Init PROVE ViewInv /\ NoMissedEnd
  OBVIOUS
<1> USE DEF Init, StreamInit
<1>1. Nothing \in Updates /\ Nothing.status \notin EndStatuses
  BY DEF Nothing, Updates, EndStatuses
<1>2. StreamTypeOK
  BY <1>1 DEF StreamTypeOK
<1>3. \A v \in Viewers : Watching(v)
  BY DEF Watching
<1> QED
  BY <1>2, <1>3 DEF ViewInv, NoMissedEnd

(* NoMissedEnd of one viewer and one flow.                                 *)
Missed(v, f) ==
  /\ vst[v] = "live" /\ watch[v] = Request(f) /\ EndTold(f)
  /\ ~lossy[v] /\ f \notin dbErr /\ Request(f) \notin touched
  /\ shown[v].status \notin EndStatuses
  /\ \A i \in DOMAIN buf[v] : buf[v][i].status \notin EndStatuses

LEMMA PerViewer == NoMissedEnd <=> \A v \in Viewers, f \in Flows : ~Missed(v, f)
  BY DEF NoMissedEnd, Missed

(* Only Tell tells an end, and no step of an exchange takes it back.       *)
LEMMA EndToldByTell ==
  ASSUME FlowInv, NEW f \in Flows, FlowStep(f) \/ AgentStep(f), ~Tell(f), NEW g \in Flows
  PROVE  EndTold(g)' <=> EndTold(g)
<1>1. CASE g # f
  BY <1>1, FlowStepKeeps DEF OneMoves, EndTold
<1>2. CASE g = f
  <2> USE <1>2 DEF FlowInv, FlowVarsOK, FlowAt, EndTold, Goto, EndStatuses, Unsent, Failing,
     Answering
  <2>1. CASE \E s \in EventStatuses, m \in AgentMessages \cup {NoMessage} :
               Event(f, [status |-> s, message |-> m])
    BY <2>1 DEF Event, AfterStatus
  <2>2. CASE StatementFails(f)
    BY <2>2 DEF StatementFails, AfterStatus, localVars
  <2>3. CASE RelayRequest(f) \/ LookupSender(f) \/ PostFails(f) \/ PostSucceeds(f)
             \/ ChatAccepted(f) \/ ChatCreate(f) \/ FailRead(f) \/ FailWrite(f)
    BY <2>3 DEF RelayRequest, LookupSender, PostFails, PostSucceeds, ChatAccepted, ChatCreate,
       FailRead, FailWrite, localVars
  <2>4. CASE StreamEnds(f) \/ Connect(f) \/ StatusRead(f) \/ StatusWrite(f) \/ AppendRead(f)
             \/ AppendWrite(f)
    BY <2>4 DEF StreamEnds, Connect, StatusRead, StatusWrite, AfterStatus, AppendRead, AppendWrite,
       localVars
  <2>5. CASE ForwardCreate(f) \/ ForwardFails(f) \/ ForwardSucceeds(f)
             \/ DoneRead(f) \/ DoneWrite(f)
    BY <2>5 DEF ForwardCreate, ForwardFails, ForwardSucceeds, DoneRead, DoneWrite, localVars
  <2> QED
    BY <2>1, <2>2, <2>3, <2>4, <2>5 DEF FlowStep, AgentStep
<1> QED
  BY <1>1, <1>2

(* Steps that leave the viewers alone.                                     *)
LEMMA ViewersRest ==
  ASSUME ViewInv, NoMissedEnd, UNCHANGED viewVars,
         \A g \in Flows : EndTold(g)' <=> EndTold(g),
         dbErr \subseteq dbErr', touched \subseteq touched'
  PROVE  ViewInv' /\ NoMissedEnd'
<1> USE DEF viewVars
<1>1. StreamTypeOK'
  BY DEF ViewInv, StreamTypeOK
<1>2. ASSUME NEW v \in Viewers PROVE Watching(v)'
  BY DEF ViewInv, Watching
<1>3. ASSUME NEW v \in Viewers, NEW f \in Flows PROVE ~Missed(v, f)'
  BY PerViewer DEF Missed
<1>4. NoMissedEnd'
  BY <1>3 DEF NoMissedEnd, Missed
<1> QED
  BY <1>1, <1>2, <1>4 DEF ViewInv

LEMMA FlowStepViewers ==
  ASSUME FlowInv, ViewInv, NoMissedEnd, NEW f \in Flows, FlowStep(f) \/ AgentStep(f), ~Tell(f)
  PROVE  ViewInv' /\ NoMissedEnd'
<1>1. UNCHANGED viewVars /\ dbErr \subseteq dbErr'
  BY DEF FlowStep, AgentStep, RelayRequest, LookupSender, PostFails, PostSucceeds, ChatAccepted,
     ChatCreate, FailRead, FailWrite, StreamEnds, Connect, Event, StatusRead, StatusWrite,
     AppendRead, AppendWrite, ForwardCreate, ForwardFails, ForwardSucceeds, DoneRead, DoneWrite,
     StatementFails
<1>2. UNCHANGED touched
  BY FlowStepKeeps DEF serverVars, jobVars
<1>3. \A g \in Flows : EndTold(g)' <=> EndTold(g)
  BY EndToldByTell
<1> QED
  BY <1>1, <1>2, <1>3, ViewersRest

LEMMA HandlerStepViewers ==
  ASSUME HandlerInv, ViewInv, NoMissedEnd, NEW h \in Handlers,
         HandlerStep(h) \/ \E j \in Jobs : Arrive(h, j)
  PROVE  ViewInv' /\ NoMissedEnd'
<1>1. UNCHANGED <<viewVars, flowVars>> /\ touched \subseteq touched'
  BY HandlerStepKeeps DEF OneHandles
<1> QED
  BY <1>1, ViewersRest DEF flowVars, localVars, EndTold

LEMMA Appended ==
  ASSUME NEW S, NEW q \in Seq(S), NEW x \in S
  PROVE  /\ Len(q) \in Nat /\ Len(Append(q, x)) = Len(q) + 1
         /\ DOMAIN q = 1 .. Len(q) /\ DOMAIN Append(q, x) = 1 .. Len(q) + 1
         /\ \A i \in 1 .. Len(q) : Append(q, x)[i] = q[i]
         /\ Append(q, x)[Len(q) + 1] = x
  OBVIOUS

(* An update is at the end of each buffer with room; an end comes after    *)
(* no other, for until now the flow has told none.                         *)
LEMMA TellViewers ==
  ASSUME FlowInv, ViewInv, NoMissedEnd, NEW f \in Flows, Tell(f)
  PROVE  ViewInv' /\ NoMissedEnd'
<1> DEFINE u == ev[f]
<1>1. /\ pc[f] = "broadcast" /\ pc'[f] = AfterTell(f) /\ u \in Updates
      /\ UNCHANGED <<ev, vst, watch, shown, dbErr, touched>>
      /\ \A g \in Flows \ {f} : pc'[g] = pc[g]
  BY DEF Tell, Goto, Broadcast, FlowInv, FlowVarsOK, localVars, serverVars, jobVars
<1>2. ~EndTold(f) /\ (EndTold(f)' <=> u.status \in EndStatuses)
  BY <1>1 DEF EndTold, AfterTell
<1>3. \A g \in Flows \ {f} : EndTold(g)' <=> EndTold(g)
  BY <1>1 DEF EndTold
<1>4. ASSUME NEW v \in Viewers
      PROVE  /\ buf[v] \in Seq(Updates) /\ Watching(v) /\ lossy[v] \in BOOLEAN
             /\ buf'[v] = IF watch[v] = Request(f) /\ HasRoom(v) THEN Append(buf[v], u) ELSE buf[v]
             /\ lossy'[v] = \/ lossy[v]
                            \/ watch[v] = Request(f) /\ ~HasRoom(v) /\ u.status \in EndStatuses
  BY DEF Tell, Broadcast, ViewersOf, ViewInv, StreamTypeOK
<1>5. StreamTypeOK'
  <2>1. buf' \in [Viewers -> Seq(Updates)]
    <3>1. ASSUME NEW v \in Viewers PROVE buf'[v] \in Seq(Updates)
      <4>1. buf[v] \in Seq(Updates) /\ u \in Updates
        BY <1>1, <1>4
      <4>2. Append(buf[v], u) \in Seq(Updates)
        BY <4>1
      <4> QED
        BY <1>4, <4>1, <4>2
    <3>2. buf' = [v \in Viewers |-> buf'[v]]
      BY DEF Tell, Broadcast
    <3> QED
      BY <3>1, <3>2
  <2>2. lossy' \in [Viewers -> BOOLEAN]
    BY DEF Tell, Broadcast
  <2> QED
    BY <1>1, <2>1, <2>2 DEF ViewInv, StreamTypeOK
<1>6. ASSUME NEW v \in Viewers PROVE Watching(v)' /\ \A g \in Flows : ~Missed(v, g)'
  <2>1. CASE watch[v] # Request(f)
    <3>1. buf'[v] = buf[v] /\ lossy'[v] = lossy[v]
      BY <1>4, <2>1
    <3>2. Watching(v)'
      BY <1>1, <1>3, <1>4, <2>1, <3>1 DEF Watching
    <3>3. \A g \in Flows : ~Missed(v, g)'
      BY <1>1, <1>3, <2>1, <3>1, PerViewer DEF Missed
    <3> QED
      BY <3>2, <3>3
  <2>2. CASE watch[v] = Request(f)
    <3>1. /\ vst[v] # "off"
          /\ \A i \in DOMAIN buf[v] : buf[v][i].status \notin EndStatuses
          /\ vst[v] = "live" => shown[v].status \notin EndStatuses
      <4>1. \A g \in Flows : watch[v] = Request(g) => g = f
        BY <2>2, TaskNames
      <4>2. vst[v] # "off"
        BY <1>4, <2>2, TaskNames, NoTaskAssumption DEF Watching
      <4> QED
        BY <1>2, <1>4, <4>1, <4>2 DEF Watching
    <3>2. CASE ~HasRoom(v)
      <4>1. buf'[v] = buf[v] /\ (u.status \in EndStatuses => lossy'[v])
        BY <1>4, <2>2, <3>2
      <4>2. Watching(v)'
        BY <1>1, <1>4, <3>1, <4>1 DEF Watching
      <4>3. ASSUME NEW g \in Flows, watch[v] = Request(g), EndTold(g)' PROVE lossy'[v]
        BY <1>2, <2>2, <4>1, <4>3, TaskNames
      <4> QED
        BY <1>1, <4>2, <4>3 DEF Missed
    <3>3. CASE HasRoom(v)
      <4> DEFINE b == Append(buf[v], u)
                 n == Len(buf[v])
      <4>1. /\ buf'[v] = b /\ n \in Nat /\ Len(b) = n + 1
            /\ DOMAIN buf[v] = 1 .. n /\ DOMAIN b = 1 .. n + 1
            /\ \A i \in 1 .. n : b[i] = buf[v][i]
            /\ b[n + 1] = u
        <5>1. buf'[v] = b
          BY <1>4, <2>2, <3>3
        <5>2. buf[v] \in Seq(Updates) /\ u \in Updates
          BY <1>1, <1>4
        <5> QED
          BY <5>1, <5>2, Appended
      <4>2. \A i \in DOMAIN b : b[i].status \in EndStatuses => i = n + 1 /\ u.status \in EndStatuses
        <5> SUFFICES ASSUME NEW i \in 1 .. n + 1, b[i].status \in EndStatuses
                     PROVE  i = n + 1 /\ u.status \in EndStatuses
          BY <4>1
        <5>1. i \notin 1 .. n
          BY <3>1, <4>1
        <5> QED
          BY <4>1, <5>1
      <4>3. Watching(v)'
        <5>1. vst'[v] = "live" => shown'[v].status \notin EndStatuses
          BY <1>1, <3>1
        <5>2. \A i \in DOMAIN buf'[v] : buf'[v][i].status \in EndStatuses =>
                i = Len(buf'[v]) /\ \E g \in Flows : watch'[v] = Request(g) /\ EndTold(g)'
          BY <1>1, <1>2, <2>2, <4>1, <4>2
        <5>3. /\ vst'[v] # "off" /\ watch'[v] \in TaskIds
              /\ vst'[v] = "opening" => shown'[v] = Nothing
          BY <1>1, <1>4, <3>1 DEF Watching
        <5> QED
          BY <5>1, <5>2, <5>3 DEF Watching
      <4>4. ASSUME NEW g \in Flows, watch[v] = Request(g), EndTold(g)'
            PROVE  n + 1 \in DOMAIN b /\ b[n + 1].status \in EndStatuses
        <5>1. g = f
          BY <2>2, <4>4, TaskNames
        <5>2. u.status \in EndStatuses
          BY <1>2, <4>4, <5>1
        <5> QED
          BY <4>1, <5>2
      <4> QED
        BY <1>1, <4>1, <4>3, <4>4 DEF Missed
    <3> QED
      BY <3>2, <3>3
  <2> QED
    BY <2>1, <2>2
<1>7. NoMissedEnd'
  BY <1>6 DEF NoMissedEnd, Missed
<1> QED
  BY <1>5, <1>6, <1>7 DEF ViewInv

LEMMA RestartViewers ==
  ASSUME ViewInv, Restart
  PROVE  ViewInv' /\ NoMissedEnd'
<1> USE DEF Restart
<1>1. Nothing \in Updates /\ Nothing.status \notin EndStatuses
  BY DEF Nothing, Updates, EndStatuses
<1>2. StreamTypeOK'
  BY <1>1 DEF StreamTypeOK
<1>3. \A v \in Viewers : Watching(v)'
  BY DEF Watching
<1> QED
  BY <1>2, <1>3 DEF ViewInv, NoMissedEnd

(* A step of one viewer.                                                   *)
OnlyViewer(v) ==
  \A w \in Viewers \ {v} :
    /\ vst'[w] = vst[w] /\ watch'[w] = watch[w] /\ buf'[w] = buf[w]
    /\ shown'[w] = shown[w] /\ lossy'[w] = lossy[w]

LEMMA OneViewer ==
  ASSUME ViewInv, NoMissedEnd, UNCHANGED <<flowVars, touched>>, NEW v \in Viewers,
         StreamTypeOK', Watching(v)', \A f \in Flows : ~Missed(v, f)', OnlyViewer(v)
  PROVE  ViewInv' /\ NoMissedEnd'
<1> USE DEF flowVars, localVars
<1>1. ASSUME NEW w \in Viewers PROVE Watching(w)'
  <2>1. CASE w # v
    BY <2>1 DEF OnlyViewer, ViewInv, Watching, EndTold
  <2> QED
    BY <2>1
<1>2. ASSUME NEW w \in Viewers, NEW f \in Flows PROVE ~Missed(w, f)'
  <2>1. CASE w # v
    BY <2>1, PerViewer DEF OnlyViewer, Missed, EndTold
  <2> QED
    BY <2>1
<1>3. NoMissedEnd'
  BY <1>2 DEF NoMissedEnd, Missed
<1> QED
  BY <1>1, <1>3 DEF ViewInv

(* A row that is read when its flow has told the end says so.              *)
LEMMA EndInRow ==
  ASSUME FlowInv, TaskInv, NEW f \in Flows, EndTold(f)
  PROVE  /\ HasRow(Request(f))
         /\ f \notin dbErr /\ Request(f) \notin touched => row[Request(f)].status \in EndStatuses
<1>1. FlowAt(f) /\ Logged(f) /\ Follows(f)
  BY PerFlow DEF FlowInv, TaskInv, LogInv
<1> QED
  BY <1>1 DEF FlowAt, Logged, Follows, EndTold, EndStatuses, Writing

LEMMA ComeAndGo ==
  ASSUME ViewInv, NoMissedEnd, UNCHANGED <<flowVars, touched>>, NEW v \in Viewers,
         Hangup(v) \/ Unwatch(v) \/ \E id \in TaskIds : Watch(v, id)
  PROVE  ViewInv' /\ NoMissedEnd'
<1>1. StreamTypeOK /\ Watching(v)
  BY DEF ViewInv
<1>2. Nothing \in Updates /\ Nothing.status \notin EndStatuses
  BY DEF Nothing, Updates, EndStatuses
<1>3. StreamTypeOK' /\ OnlyViewer(v) /\ vst'[v] # "live"
  <2>1. CASE Hangup(v)
    BY <1>1, <2>1 DEF StreamTypeOK, Hangup, OnlyViewer
  <2>2. CASE Unwatch(v)
    BY <1>1, <1>2, <2>2 DEF StreamTypeOK, Unwatch, OnlyViewer
  <2>3. ASSUME NEW id \in TaskIds, Watch(v, id)
        PROVE  StreamTypeOK' /\ OnlyViewer(v) /\ vst'[v] # "live"
    BY <1>1, <2>3 DEF StreamTypeOK, Watch, OnlyViewer
  <2> QED
    BY <2>1, <2>2, <2>3
<1>4. \A f \in Flows : ~Missed(v, f)'
  BY <1>3 DEF Missed
<1>5. Watching(v)'
  <2>1. CASE Hangup(v)
    BY <1>1, <2>1 DEF Hangup, Watching, StreamTypeOK, EndTold, flowVars, localVars
  <2>2. CASE Unwatch(v)
    BY <1>1, <1>2, <2>2 DEF Unwatch, Watching, StreamTypeOK
  <2>3. ASSUME NEW id \in TaskIds, Watch(v, id) PROVE Watching(v)'
    BY <1>1, <1>2, <2>3 DEF Watch, Watching, StreamTypeOK
  <2> QED
    BY <2>1, <2>2, <2>3
<1> QED
  BY <1>3, <1>4, <1>5, OneViewer

LEMMA SnapshotTyped ==
  ASSUME TaskInv, ViewInv, NEW v \in Viewers, Snapshot(v)
  PROVE  StreamTypeOK' /\ OnlyViewer(v)
<1> DEFINE id == watch[v]
           r == row[watch[v]]
           m == IF r.status \in EndStatuses THEN r.messages[Len(r.messages)] ELSE NoMessage
<1>1. StreamTypeOK /\ Watching(v) /\ vst[v] = "opening" /\ HasRow(id)
  BY DEF ViewInv, Snapshot
<1>2. id \in TaskIds
  BY <1>1 DEF Watching
<1>3. r \in Rows /\ r.messages # <<>>
  BY <1>1, <1>2 DEF TaskInv, LogInv, LogTypeOK, Recorded, Begins, HasRow
<1>4. r.status \in Statuses /\ r.messages[Len(r.messages)] \in Messages
  <2>1. r.status \in Statuses /\ r.messages \in Seq(Messages)
    BY <1>3 DEF Rows
  <2>2. Len(r.messages) \in 1 .. Len(r.messages)
    BY <1>3, <2>1
  <2> QED
    BY <2>1, <2>2
<1>5. [status |-> r.status, message |-> m] \in Updates
  BY <1>4 DEF Updates
<1>6. shown' \in [Viewers -> Updates] /\ \A w \in Viewers \ {v} : shown'[w] = shown[w]
  BY <1>1, <1>5 DEF Snapshot, StreamTypeOK
<1> QED
  BY <1>1, <1>6 DEF Snapshot, StreamTypeOK, OnlyViewer

LEMMA SnapshotViewer ==
  ASSUME FlowInv, TaskInv, ViewInv, NoMissedEnd, UNCHANGED <<flowVars, touched>>,
         NEW v \in Viewers, Snapshot(v)
  PROVE  ViewInv' /\ NoMissedEnd'
<1>1. StreamTypeOK' /\ OnlyViewer(v)
  BY SnapshotTyped
<1>2. StreamTypeOK /\ Watching(v)
  BY DEF ViewInv
<1>3. /\ vst[v] = "opening" /\ buf'[v] = buf[v] /\ watch'[v] = watch[v] /\ lossy'[v] = lossy[v]
      /\ shown'[v].status = row[watch[v]].status
      /\ vst'[v] = IF row[watch[v]].status \in EndStatuses THEN "leaving" ELSE "live"
  BY <1>2 DEF Snapshot, StreamTypeOK
<1>4. Watching(v)'
  BY <1>2, <1>3 DEF Watching, EndTold, flowVars, localVars
<1>5. ASSUME NEW f \in Flows PROVE ~Missed(v, f)'
  BY <1>3, EndInRow DEF Missed, EndTold, flowVars, localVars
<1> QED
  BY <1>1, <1>4, <1>5, OneViewer

LEMMA NoSnapshotViewer ==
  ASSUME FlowInv, TaskInv, ViewInv, NoMissedEnd, UNCHANGED <<flowVars, touched>>,
         NEW v \in Viewers, NoSnapshot(v)
  PROVE  ViewInv' /\ NoMissedEnd'
<1>1. StreamTypeOK /\ Watching(v)
  BY DEF ViewInv
<1>2. /\ vst[v] = "opening" /\ vst'[v] = "live" /\ buf'[v] = buf[v] /\ watch'[v] = watch[v]
      /\ shown'[v] = shown[v] /\ lossy'[v] = (lossy[v] \/ HasRow(watch[v]))
  BY <1>1 DEF NoSnapshot, StreamTypeOK
<1>3. StreamTypeOK' /\ OnlyViewer(v)
  BY <1>1 DEF NoSnapshot, StreamTypeOK, OnlyViewer
<1>4. Watching(v)'
  BY <1>1, <1>2 DEF Watching, Nothing, EndStatuses, EndTold, flowVars, localVars
<1>5. ASSUME NEW f \in Flows PROVE ~Missed(v, f)'
  BY <1>2, EndInRow DEF Missed, EndTold, flowVars, localVars
<1> QED
  BY <1>3, <1>4, <1>5, OneViewer

LEMMA Tailed ==
  ASSUME NEW S, NEW q \in Seq(S), q # <<>>
  PROVE  /\ Tail(q) \in Seq(S) /\ Head(q) \in S /\ Head(q) = q[1]
         /\ Len(q) \in Nat \ {0} /\ DOMAIN q = 1 .. Len(q)
         /\ Len(Tail(q)) = Len(q) - 1 /\ DOMAIN Tail(q) = 1 .. Len(q) - 1
         /\ \A i \in 1 .. Len(q) - 1 : Tail(q)[i] = q[i + 1]
  OBVIOUS

LEMMA RelayViewer ==
  ASSUME ViewInv, NoMissedEnd, UNCHANGED <<flowVars, touched>>, NEW v \in Viewers, Relay(v)
  PROVE  ViewInv' /\ NoMissedEnd'
<1> DEFINE q == buf[v]
           n == Len(buf[v])
<1>1. StreamTypeOK /\ Watching(v) /\ vst[v] = "live" /\ q # <<>> /\ q \in Seq(Updates)
  BY DEF ViewInv, Relay, StreamTypeOK
<1>2. /\ Tail(q) \in Seq(Updates) /\ Head(q) \in Updates /\ Head(q) = q[1]
      /\ n \in Nat \ {0} /\ DOMAIN q = 1 .. n
      /\ Len(Tail(q)) = n - 1 /\ DOMAIN Tail(q) = 1 .. n - 1
      /\ \A i \in 1 .. n - 1 : Tail(q)[i] = q[i + 1]
  BY <1>1, Tailed
<1>3. /\ buf'[v] = Tail(q) /\ vst'[v] = "live" /\ watch'[v] = watch[v] /\ lossy'[v] = lossy[v]
      /\ shown'[v].status = IF Head(q).status = "none" THEN shown[v].status ELSE Head(q).status
  BY <1>1 DEF Relay, StreamTypeOK
<1>4. StreamTypeOK' /\ OnlyViewer(v)
  <2>1. buf' \in [Viewers -> Seq(Updates)]
    BY <1>1, <1>2 DEF Relay, StreamTypeOK
  <2>2. shown' \in [Viewers -> Updates]
    <3> DEFINE u == Head(q)
               x == [status |-> IF u.status = "none" THEN shown[v].status ELSE u.status,
                     message |-> IF u.message = NoMessage THEN shown[v].message ELSE u.message]
    <3>1. x \in Updates
      BY <1>1, <1>2 DEF StreamTypeOK, Updates
    <3>2. shown' = [shown EXCEPT ![v] = x]
      BY DEF Relay
    <3> QED
      BY <1>1, <3>1, <3>2 DEF StreamTypeOK
  <2> QED
    <3>1. StreamTypeOK'
      BY <1>1, <2>1, <2>2 DEF Relay, StreamTypeOK
    <3>2. OnlyViewer(v)
      BY <1>1 DEF Relay, StreamTypeOK, OnlyViewer
    <3> QED
      BY <3>1, <3>2
<1>5. shown[v].status \notin EndStatuses
  BY <1>1 DEF Watching
<1>6. Head(q).status \in EndStatuses =>
        n = 1 /\ \E f \in Flows : watch[v] = Request(f) /\ EndTold(f)
  <2>1. 1 \in DOMAIN q /\ Head(q) = q[1]
    BY <1>2
  <2> QED
    BY <1>1, <2>1 DEF Watching
<1>7. Watching(v)'
  <2>1. \A i \in DOMAIN Tail(q) : Tail(q)[i].status \in EndStatuses =>
          i = Len(Tail(q)) /\ \E f \in Flows : watch[v] = Request(f) /\ EndTold(f)
    <3> SUFFICES ASSUME NEW i \in 1 .. n - 1, Tail(q)[i].status \in EndStatuses
                 PROVE  i = n - 1 /\ \E f \in Flows : watch[v] = Request(f) /\ EndTold(f)
      BY <1>2
    <3>1. i + 1 \in 1 .. n /\ q[i + 1].status \in EndStatuses
      BY <1>2
    <3>2. i + 1 = n /\ \E f \in Flows : watch[v] = Request(f) /\ EndTold(f)
      BY <1>1, <1>2, <3>1 DEF Watching
    <3> QED
      BY <1>2, <3>2
  <2>2. shown'[v].status \in EndStatuses =>
          Tail(q) = <<>> /\ \E f \in Flows : watch[v] = Request(f) /\ EndTold(f)
    <3>1. n = 1 => Tail(q) = <<>>
      BY <1>2
    <3> QED
      BY <1>3, <1>5, <1>6, <3>1
  <2>3. watch[v] \in TaskIds
    BY <1>1 DEF Watching
  <2>4. \A f \in Flows : EndTold(f)' <=> EndTold(f)
    BY DEF EndTold, flowVars, localVars
  <2> QED
    BY <1>3, <2>1, <2>2, <2>3, <2>4 DEF Watching
<1>8. ASSUME NEW f \in Flows PROVE ~Missed(v, f)'
  <2> SUFFICES ASSUME Missed(v, f)' PROVE FALSE
    OBVIOUS
  <2>1. /\ watch[v] = Request(f) /\ EndTold(f)
        /\ ~lossy[v] /\ f \notin dbErr /\ Request(f) \notin touched
        /\ shown'[v].status \notin EndStatuses
        /\ \A i \in 1 .. n - 1 : Tail(q)[i].status \notin EndStatuses
    BY <1>2, <1>3 DEF Missed, EndTold, flowVars, localVars
  <2>2. PICK i \in 1 .. n : q[i].status \in EndStatuses
    BY <1>1, <1>2, <1>5, <2>1, PerViewer DEF Missed
  <2>3. CASE i = 1
    BY <1>2, <1>3, <2>1, <2>2, <2>3 DEF EndStatuses
  <2>4. CASE i # 1
    <3>1. i - 1 \in 1 .. n - 1 /\ Tail(q)[i - 1] = q[i]
      BY <1>2, <2>4
    <3> QED
      BY <2>1, <2>2, <3>1
  <2> QED
    BY <2>3, <2>4
<1> QED
  BY <1>4, <1>7, <1>8, OneViewer

LEMMA ViewerNextViewers ==
  ASSUME FlowInv, TaskInv, ViewInv, NoMissedEnd, NEW v \in Viewers, ViewerNext(v)
  PROVE  ViewInv' /\ NoMissedEnd'
<1>1. UNCHANGED <<flowVars, touched>>
  BY DEF ViewerNext, jobVars
<1> QED
  BY <1>1, ComeAndGo, SnapshotViewer, NoSnapshotViewer, RelayViewer DEF ViewerNext, ViewerStep

-----------------------------------------------------------------------------
(* The invariant, and what it says.                                        *)

LEMMA Initially == Init => IInv
  BY FlowStart, HandlerStart, LogStart, ViewStart DEF IInv, TaskInv

LEMMA StepKeeps ==
  ASSUME IInv, [Next]_vars
  PROVE  IInv'
<1>1. FlowInv /\ HandlerInv /\ TaskInv /\ ViewInv /\ NoMissedEnd
  BY DEF IInv, TaskInv
<1> SUFFICES FlowInv' /\ HandlerInv' /\ TaskInv' /\ ViewInv' /\ NoMissedEnd'
  BY DEF IInv, TaskInv
<1>2. ASSUME NEW f \in Flows, FlowStep(f) \/ AgentStep(f)
      PROVE  FlowInv' /\ HandlerInv' /\ TaskInv' /\ ViewInv' /\ NoMissedEnd'
  <2>1. FlowInv' /\ HandlerInv' /\ TaskInv'
    BY <1>1, <1>2, FlowStepKeeps, HandlersRest, FlowStepLogs
  <2>2. ViewInv' /\ NoMissedEnd'
    BY <1>1, <1>2, TellViewers, FlowStepViewers
  <2> QED
    BY <2>1, <2>2
<1>3. ASSUME NEW h \in Handlers, HandlerStep(h) \/ \E j \in Jobs : Arrive(h, j)
      PROVE  FlowInv' /\ HandlerInv' /\ TaskInv' /\ ViewInv' /\ NoMissedEnd'
  <2>1. UNCHANGED flowVars
    BY <1>1, <1>3, HandlerStepKeeps
  <2>2. FlowInv'
    BY <1>1, <2>1 DEF FlowInv, FlowVarsOK, FlowAt, flowVars, localVars
  <2> QED
    BY <1>1, <1>3, <2>2, HandlerStepKeeps, HandlerStepLogs, HandlerStepViewers
<1>4. ASSUME NEW v \in Viewers, ViewerNext(v)
      PROVE  FlowInv' /\ HandlerInv' /\ TaskInv' /\ ViewInv' /\ NoMissedEnd'
  <2>1. UNCHANGED <<logVars, flowVars, serverVars>>
    BY <1>4 DEF ViewerNext, serverVars
  <2>2. FlowInv'
    BY <1>1, <2>1 DEF FlowInv, FlowVarsOK, FlowAt, flowVars, localVars
  <2>3. HandlerInv'
    BY <1>1, <2>1, HandlersRest
  <2>4. TaskInv'
    BY <1>1, <2>1, LogRests
  <2> QED
    BY <1>1, <1>4, <2>2, <2>3, <2>4, ViewerNextViewers
<1>5. CASE Restart
  BY <1>1, <1>5, RestartFlows, RestartHandlers, RestartLogs, RestartViewers
<1>6. CASE UNCHANGED vars
  <2>1. UNCHANGED <<logVars, viewVars, flowVars, serverVars, touched>>
    BY <1>6 DEF vars, serverVars, jobVars
  <2>2. FlowInv'
    BY <1>1, <2>1 DEF FlowInv, FlowVarsOK, FlowAt, flowVars, localVars
  <2>3. HandlerInv' /\ TaskInv'
    BY <1>1, <2>1, HandlersRest, LogRests
  <2>4. ViewInv' /\ NoMissedEnd'
    BY <1>1, <2>1, ViewersRest DEF EndTold, flowVars, localVars
  <2> QED
    BY <2>2, <2>3, <2>4
<1> QED
  BY <1>2, <1>3, <1>4, <1>5, <1>6 DEF Next

(* The invariant holds in every state of an exchange.                      *)
THEOREM Inductive == Spec => []IInv
  BY Initially, StepKeeps, PTL DEF Spec

(* Rows stay records of a status and messages, buffers sequences of        *)
(* updates, and every goroutine at a statement of its function.            *)
THEOREM TypeCorrect == Spec => []TypeOK
<1>1. IInv => TypeOK
  BY DEF IInv, TypeOK, FlowInv, FlowVarsOK, HandlerInv, HandlerVarsOK, LogInv, ViewInv
<1> QED
  BY <1>1, Inductive, PTL

(* No interleaving of createTaskWithID, updateTaskStatus and appendMessage *)
(* loses the message a row was created with: what a goroutine has read and *)
(* writes back begins with it too.                                         *)
THEOREM FirstMessagesKept == Spec => []FirstMessageKept
<1>1. IInv => FirstMessageKept
  BY TaskNames, FirstOf DEF IInv, LogInv, Recorded, Begins, FirstMessageKept
<1> QED
  BY <1>1, Inductive, PTL

(* The status of the request row is the one that subscribeToAgentSSE (or   *)
(* relayToRecipient, on a failure) last set out to write, handlers and     *)
(* failed statements apart, though appends run beside it.                  *)
THEOREM StatusFollows == Spec => []StatusFollowsAgent
<1>1. IInv => StatusFollowsAgent
  BY DEF IInv
<1> QED
  BY <1>1, Inductive, PTL

(* forwardResponseToSender answers only an agent that can be answered, for *)
(* a stream that completed, and marks only an accepted answer completed.   *)
THEOREM AnswersJustified == Spec => []AnswerJustified
<1>1. IInv => AnswerJustified
  BY DEF IInv
<1> QED
  BY <1>1, Inductive, PTL

(* A viewer of handleTaskStream, whenever it came, has been told of the    *)
(* end that was broadcast or has it in its buffer: the row is written      *)
(* before the broadcast, and a viewer registers before it reads the row.   *)
THEOREM NoEndMissed == Spec => []NoMissedEnd
<1>1. IInv => NoMissedEnd
  BY DEF IInv
<1> QED
  BY <1>1, Inductive, PTL

(* handleTaskStream tells a client of one end and never of another: the    *)
(* flow's loop stops at its first end, and a first event with an end is    *)
(* the last.                                                               *)
THEOREM EndsAreFinal == Spec => EndIsFinal
<1> DEFINE Final == \A v \in Viewers :
                      shown[v].status \in EndStatuses /\ vst'[v] # "off"
                        => shown'[v].status = shown[v].status
<1>1. ASSUME IInv, [Next]_vars PROVE [Final]_vars
  <2> SUFFICES ASSUME Next, NEW v \in Viewers, shown[v].status \in EndStatuses, vst'[v] # "off"
               PROVE  shown'[v] = shown[v]
    BY <1>1
  <2>1. StreamTypeOK /\ Watching(v) /\ Nothing.status \notin EndStatuses
    BY <1>1 DEF IInv, ViewInv, Nothing, EndStatuses
  <2>2. ASSUME NEW f \in Flows, FlowStep(f) \/ AgentStep(f) PROVE shown'[v] = shown[v]
    <3>1. UNCHANGED shown
      BY <2>2 DEF FlowStep, AgentStep, RelayRequest, LookupSender, PostFails, PostSucceeds,
         ChatAccepted, ChatCreate, FailRead, FailWrite, StreamEnds, Connect, Event, StatusRead,
         StatusWrite, AppendRead, AppendWrite, Tell, Broadcast, ForwardCreate, ForwardFails,
         ForwardSucceeds, DoneRead, DoneWrite, StatementFails, viewVars
    <3> QED
      BY <3>1
  <2>3. ASSUME NEW h \in Handlers, HandlerStep(h) \/ \E j \in Jobs : Arrive(h, j)
        PROVE  shown'[v] = shown[v]
    BY <1>1, <2>3, HandlerStepKeeps DEF IInv, viewVars
  <2>4. ASSUME NEW w \in Viewers, ViewerNext(w) PROVE shown'[v] = shown[v]
    <3>1. CASE w = v
      BY <2>1, <2>4, <3>1 DEF ViewerNext, ViewerStep, Snapshot, NoSnapshot, Relay, Hangup, Unwatch,
         Watch, Watching, StreamTypeOK
    <3>2. CASE w # v
      BY <2>1, <2>4, <3>2 DEF ViewerNext, ViewerStep, Snapshot, NoSnapshot, Relay, Hangup, Unwatch,
         Watch, StreamTypeOK
    <3> QED
      BY <3>1, <3>2
  <2>5. CASE Restart
    BY <2>5 DEF Restart
  <2> QED
    BY <2>2, <2>3, <2>4, <2>5 DEF Next
<1> QED
  BY <1>1, Inductive, PTL DEF Spec, EndIsFinal

=============================================================================
