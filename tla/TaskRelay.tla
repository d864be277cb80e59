----------------------------- MODULE TaskRelay -----------------------------
(***************************************************************************)
(* How the portal carries one exchange between two parties.                *)
(*                                                                         *)
(*   relay  an agent posts to /a2a/relay/{recipient}/tasks: the portal logs*)
(*          a request row, forwards the request to the recipient, follows  *)
(*          the recipient's SSE stream, and when that completes logs a     *)
(*          response row and posts the answer to the sender                *)
(*   chat   the frontend posts to /api/agents/{id}?action=chat: the portal *)
(*          posts to the agent first, logs the row under the agent's task  *)
(*          id, and follows the agent's stream                             *)
(*                                                                         *)
(* Each exchange is one goroutine (a flow) cut at its database statements  *)
(* and network calls.  Beside it run POST /tasks/{id} (HandleTaskUpdate),  *)
(* POST /tasks/{id}?cancel (HandleTaskCancel), the viewers of TaskStream,  *)
(* and the death of the process, which loses every goroutine and keeps     *)
(* every row.                                                              *)
(***************************************************************************)
EXTENDS TaskStream, FiniteSets

CONSTANTS
  Flows,           \* exchanges
  Handlers,        \* requests to /tasks/{id}; each is served once
  Ask,             \* the message an exchange starts with
  AgentMessages,   \* messages an agent may stream
  PostedMessages,  \* messages POSTed to /tasks/{id}
  MaxEvents,       \* bound: events an agent streams
  MaxRestarts      \* bound: deaths of the process

Request(f) == <<f, "request">>
Response(f) == <<f, "response">>

ASSUME TaskIdsAssumption == TaskIds = Flows \X {"request", "response"}
ASSUME ActorsAssumption == Actors = Flows \cup Handlers /\ Flows \cap Handlers = {}
ASSUME MessagesAssumption == {Ask} \cup AgentMessages \cup PostedMessages \subseteq Messages
ASSUME BoundsAssumption == MaxEvents \in Nat /\ MaxRestarts \in Nat

VARIABLES
  pc,         \* where the flow's goroutine is
  sender,     \* agent to answer: "nil", "noEndpoint" or "reachable"
  ev,         \* the update being handled
  lastMsg,    \* lastMessage of subscribeToRelayedAgentSSE
  hpc, job,   \* handler: its program counter and its request
  nev,        \* bound: events streamed so far
  restarts,   \* bound: deaths of the process so far
  due,        \* history: the status the flow last set out to write
  touched,    \* history: tasks whose status a handler has written
  dbErr,      \* history: flows one of whose statements failed
  delivered   \* history: flows whose answer the sender accepted

localVars == <<sender, ev, lastMsg, nev, due>>
flowVars == <<pc, localVars, dbErr, delivered>>
jobVars == <<hpc, job, touched>>
serverVars == <<jobVars, restarts>>
vars == <<logVars, viewVars, flowVars, jobVars, restarts>>

(* The goroutine is in updateTaskStatus for the request row.               *)
Writing == {"failRead", "failWrite", "statusRead", "statusWrite"}

Active == Writing \cup
  {"lookup", "post", "chatCreate", "connect", "stream", "appendRead", "appendWrite",
   "broadcast", "forwardCreate", "forwardPost", "doneRead", "doneWrite"}

EventStatuses == {"none", "running", "completed", "failed"}
PostedStatuses == {"none", "completed"}

NoJob == [kind |-> "none", id |-> NoTask, message |-> NoMessage, status |-> "none"]
(* HandleTaskUpdate's requests (one that neither appends nor sets a status *)
(* does nothing), and HandleTaskCancel's.                                  *)
Jobs ==
  {j \in [kind : {"update"}, id : TaskIds, message : PostedMessages \cup {NoMessage},
          status : PostedStatuses] : j.message # NoMessage \/ j.status # "none"}
  \cup [kind : {"cancel"}, id : TaskIds, message : {NoMessage}, status : {"cancelled"}]

TypeOK ==
  /\ LogTypeOK
  /\ StreamTypeOK
  /\ pc \in [Flows -> Active \cup {"idle", "done", "lost"}]
  /\ sender \in [Flows -> {"nil", "noEndpoint", "reachable"}]
  /\ ev \in [Flows -> Updates]
  /\ lastMsg \in [Flows -> Messages \cup {NoMessage}]
  /\ nev \in [Flows -> 0 .. MaxEvents]
  /\ due \in [Flows -> Statuses]
  /\ dbErr \in SUBSET Flows
  /\ delivered \in SUBSET Flows
  /\ hpc \in [Handlers -> {"idle", "appendRead", "appendWrite", "statusRead", "statusWrite", "done"}]
  /\ job \in [Handlers -> Jobs \cup {NoJob}]
  /\ touched \in SUBSET TaskIds
  /\ restarts \in 0 .. MaxRestarts

Init ==
  /\ LogInit
  /\ StreamInit
  /\ pc = [f \in Flows |-> "idle"]
  /\ sender = [f \in Flows |-> "nil"]
  /\ ev = [f \in Flows |-> Nothing]
  /\ lastMsg = [f \in Flows |-> NoMessage]
  /\ nev = [f \in Flows |-> 0]
  /\ due = [f \in Flows |-> "pending"]
  /\ dbErr = {}
  /\ delivered = {}
  /\ hpc = [h \in Handlers |-> "idle"]
  /\ job = [h \in Handlers |-> NoJob]
  /\ touched = {}
  /\ restarts = 0

-----------------------------------------------------------------------------
(* Starting an exchange.                                                   *)

Goto(f, from, to) ==
  /\ pc[f] = from
  /\ pc' = [pc EXCEPT ![f] = to]

(* handleA2ARelay up to createTask (a missing recipient, or a failed       *)
(* insert, is answered with an error and leaves no trace).                 *)
RelayRequest(f) ==
  /\ Goto(f, "idle", "lookup")
  /\ CreateTask(Request(f), Ask)
  /\ UNCHANGED <<viewVars, localVars, dbErr, delivered, serverVars>>

(* handleA2ARelay looks the sender up only now, starts the goroutine with  *)
(* what it found, and answers the task id.                                 *)
LookupSender(f) ==
  /\ Goto(f, "lookup", "post")
  /\ \E s \in {"nil", "noEndpoint", "reachable"} : sender' = [sender EXCEPT ![f] = s]
  /\ UNCHANGED <<logVars, viewVars, ev, lastMsg, nev, due, dbErr, delivered, serverVars>>

(* relayToRecipient: the POST, with its eight ways to fail.                *)
PostFails(f) ==
  /\ Goto(f, "post", "failRead")
  /\ due' = [due EXCEPT ![f] = "failed"]
  /\ UNCHANGED <<logVars, viewVars, sender, ev, lastMsg, nev, dbErr, delivered, serverVars>>

PostSucceeds(f) ==
  /\ Goto(f, "post", "connect")
  /\ UNCHANGED <<logVars, viewVars, localVars, dbErr, delivered, serverVars>>

(* handleAgentChat: the agent has accepted the task and named it.          *)
ChatAccepted(f) ==
  /\ Goto(f, "idle", "chatCreate")
  /\ UNCHANGED <<logVars, viewVars, localVars, dbErr, delivered, serverVars>>

(* createTaskWithID under the agent's id.                                  *)
ChatCreate(f) ==
  /\ Goto(f, "chatCreate", "connect")
  /\ CreateTask(Request(f), Ask)
  /\ UNCHANGED <<viewVars, localVars, dbErr, delivered, serverVars>>

(* The status of a request that could not be forwarded becomes "failed".   *)
FailRead(f) ==
  /\ Goto(f, "failRead", "failWrite")
  /\ ReadTask(f, Request(f))
  /\ UNCHANGED <<viewVars, localVars, dbErr, delivered, serverVars>>

FailWrite(f) ==
  /\ Goto(f, "failWrite", "done")
  /\ WriteStatus(f, Request(f), "failed")
  /\ UNCHANGED <<viewVars, localVars, dbErr, delivered, serverVars>>

-----------------------------------------------------------------------------
(* Following the agent: subscribeToAgentSSE, subscribeToRelayedAgentSSE.   *)

(* Subscribing fails, or the stream ends before an end status: the         *)
(* goroutine returns and the row stays as it is.                           *)
StreamEnds(f) ==
  /\ \/ Goto(f, "connect", "done")
     \/ Goto(f, "stream", "done")
  /\ UNCHANGED <<logVars, viewVars, localVars, dbErr, delivered, serverVars>>

Connect(f) ==
  /\ Goto(f, "connect", "stream")
  /\ UNCHANGED <<logVars, viewVars, localVars, dbErr, delivered, serverVars>>

(* The answer of a relayed task is kept for forwardResponseToSender; only  *)
(* a task nobody is to be answered gets it in its own row.                 *)
BadAfterStatus(f, u) == IF u.message # NoMessage /\ sender[f] = "nil" THEN "appendRead" ELSE "stream"
AfterStatus(f, u) ==
  IF u.message # NoMessage /\ sender[f] = "nil" THEN "appendRead" ELSE "broadcast"

(* An update arrives.  The status is written first, if there is one.       *)
Event(f, u) ==
  /\ nev[f] < MaxEvents
  /\ Goto(f, "stream", IF u.status # "none" THEN "statusRead" ELSE AfterStatus(f, u))
  /\ ev' = [ev EXCEPT ![f] = u]
  /\ lastMsg' = IF u.message # NoMessage THEN [lastMsg EXCEPT ![f] = u.message] ELSE lastMsg
  /\ due' = IF u.status # "none" THEN [due EXCEPT ![f] = u.status] ELSE due
  /\ nev' = [nev EXCEPT ![f] = @ + 1]
  /\ UNCHANGED <<logVars, viewVars, sender, dbErr, delivered, serverVars>>

StatusRead(f) ==
  /\ Goto(f, "statusRead", "statusWrite")
  /\ ReadTask(f, Request(f))
  /\ UNCHANGED <<viewVars, localVars, dbErr, delivered, serverVars>>

StatusWrite(f) ==
  /\ Goto(f, "statusWrite", AfterStatus(f, ev[f]))
  /\ WriteStatus(f, Request(f), ev[f].status)
  /\ UNCHANGED <<viewVars, localVars, dbErr, delivered, serverVars>>

AppendRead(f) ==
  /\ Goto(f, "appendRead", "appendWrite")
  /\ ReadTask(f, Request(f))
  /\ UNCHANGED <<viewVars, localVars, dbErr, delivered, serverVars>>

AppendWrite(f) ==
  /\ Goto(f, "appendWrite", "broadcast")
  /\ WriteMessages(f, Request(f), ev[f].message)
  /\ UNCHANGED <<viewVars, localVars, dbErr, delivered, serverVars>>

(* The answer goes back once, when the stream completes.                   *)
MustForward(f) ==
  ev[f].status = "completed" /\ sender[f] = "reachable" /\ lastMsg[f] # NoMessage

(* Viewers are told after the row is written; an end status ends the loop. *)
BadAfterTell(f) == IF MustForward(f) THEN "forwardCreate" ELSE "stream"
AfterTell(f) ==
  IF ev[f].status \notin EndStatuses THEN "stream"
  ELSE IF MustForward(f) THEN "forwardCreate" ELSE "done"

Tell(f) ==
  /\ Goto(f, "broadcast", AfterTell(f))
  /\ Broadcast(Request(f), ev[f])
  /\ UNCHANGED <<logVars, localVars, dbErr, delivered, serverVars>>

-----------------------------------------------------------------------------
(* forwardResponseToSender.                                                *)

ForwardCreate(f) ==
  /\ Goto(f, "forwardCreate", "forwardPost")
  /\ CreateTask(Response(f), lastMsg[f])
  /\ UNCHANGED <<viewVars, localVars, dbErr, delivered, serverVars>>

(* The sender cannot be reached or refuses: the response row stays pending.*)
BadForwardFails(f) ==
  /\ Goto(f, "forwardPost", "doneRead")
  /\ UNCHANGED <<logVars, viewVars, localVars, dbErr, delivered, serverVars>>

ForwardFails(f) ==
  /\ Goto(f, "forwardPost", "done")
  /\ UNCHANGED <<logVars, viewVars, localVars, dbErr, delivered, serverVars>>

ForwardSucceeds(f) ==
  /\ Goto(f, "forwardPost", "doneRead")
  /\ delivered' = delivered \cup {f}
  /\ UNCHANGED <<logVars, viewVars, localVars, dbErr, serverVars>>

DoneRead(f) ==
  /\ Goto(f, "doneRead", "doneWrite")
  /\ ReadTask(f, Response(f))
  /\ UNCHANGED <<viewVars, localVars, dbErr, delivered, serverVars>>

DoneWrite(f) ==
  /\ Goto(f, "doneWrite", "done")
  /\ WriteStatus(f, Response(f), "completed")
  /\ UNCHANGED <<viewVars, localVars, dbErr, delivered, serverVars>>

(* A statement fails.  updateTaskStatus and appendMessage return the error *)
(* and the goroutine goes on; a failed insert ends it.                     *)
StatementFails(f) ==
  /\ DbMayFail
  /\ \/ \E from \in {"statusRead", "statusWrite"} : Goto(f, from, AfterStatus(f, ev[f]))
     \/ \E from \in {"appendRead", "appendWrite"} : Goto(f, from, "broadcast")
     \/ \E from \in {"failRead", "failWrite", "chatCreate", "forwardCreate", "doneRead",
                     "doneWrite"} : Goto(f, from, "done")
  /\ DropRead(f)
  /\ dbErr' = dbErr \cup {f}
  /\ UNCHANGED <<viewVars, localVars, delivered, serverVars>>

-----------------------------------------------------------------------------
(* POST /tasks/{id} and POST /tasks/{id}?cancel.                           *)

\* A handler that has answered forgets its request.
HandlerGoto(h, from, to) ==
  /\ hpc[h] = from
  /\ hpc' = [hpc EXCEPT ![h] = to]
  /\ job' = IF to = "done" THEN [job EXCEPT ![h] = NoJob] ELSE job

Arrive(h, j) ==
  /\ hpc[h] = "idle"
  /\ hpc' = [hpc EXCEPT ![h] = IF j.message # NoMessage THEN "appendRead" ELSE "statusRead"]
  /\ job' = [job EXCEPT ![h] = j]
  /\ UNCHANGED <<logVars, viewVars, flowVars, touched, restarts>>

HandlerAppendRead(h) ==
  /\ HandlerGoto(h, "appendRead", "appendWrite")
  /\ ReadTask(h, job[h].id)
  /\ UNCHANGED <<viewVars, flowVars, touched, restarts>>

BadAfterAppend(j) == "statusRead"
AfterAppend(j) == IF j.status # "none" THEN "statusRead" ELSE "done"

(* Without a row nothing is appended, and the answer is "updated" too.     *)
HandlerAppendWrite(h) ==
  /\ HandlerGoto(h, "appendWrite", AfterAppend(job[h]))
  /\ WriteMessages(h, job[h].id, job[h].message)
  /\ UNCHANGED <<viewVars, flowVars, touched, restarts>>

HandlerStatusRead(h) ==
  /\ HandlerGoto(h, "statusRead", "statusWrite")
  /\ ReadTask(h, job[h].id)
  /\ UNCHANGED <<viewVars, flowVars, touched, restarts>>

(* HandleTaskUpdate then broadcasts to a2a.Router.connections, in which    *)
(* nothing registers (HandleTaskStream is not routed): no viewer is told.  *)
HandlerStatusWrite(h) ==
  /\ HandlerGoto(h, "statusWrite", "done")
  /\ WriteStatus(h, job[h].id, job[h].status)
  /\ touched' = touched \cup {job[h].id}
  /\ UNCHANGED <<viewVars, flowVars, restarts>>

(* An error is answered with 500 and ends the request.                     *)
HandlerFails(h) ==
  /\ DbMayFail
  /\ \E from \in {"appendRead", "appendWrite", "statusRead", "statusWrite"} :
       HandlerGoto(h, from, "done")
  /\ DropRead(h)
  /\ UNCHANGED <<viewVars, flowVars, touched, restarts>>

-----------------------------------------------------------------------------
(* The process dies and is started again.  Only the database survives:     *)
(* nothing resumes a flow.                                                 *)
Restart ==
  /\ restarts < MaxRestarts
  /\ restarts' = restarts + 1
  /\ snap' = [a \in Actors |-> NoRow]
  /\ pc' = [f \in Flows |-> IF pc[f] \in Active THEN "lost" ELSE pc[f]]
  /\ hpc' = [h \in Handlers |-> IF hpc[h] = "idle" THEN "idle" ELSE "done"]
  /\ job' = [h \in Handlers |-> NoJob]
  /\ vst' = [v \in Viewers |-> "off"]
  /\ watch' = [v \in Viewers |-> NoTask]
  /\ buf' = [v \in Viewers |-> <<>>]
  /\ shown' = [v \in Viewers |-> Nothing]
  /\ lossy' = [v \in Viewers |-> FALSE]
  /\ UNCHANGED <<row, sender, ev, lastMsg, nev, due, dbErr, delivered, touched>>

(* What a flow does without waiting for an agent's stream: statements, and *)
(* POSTs, which the 30 s client timeout ends.                              *)
FlowStep(f) ==
  \/ LookupSender(f)
  \/ PostFails(f) \/ PostSucceeds(f)
  \/ ChatCreate(f)
  \/ FailRead(f) \/ FailWrite(f)
  \/ StatusRead(f) \/ StatusWrite(f)
  \/ AppendRead(f) \/ AppendWrite(f)
  \/ Tell(f)
  \/ ForwardCreate(f) \/ ForwardFails(f) \/ ForwardSucceeds(f)
  \/ DoneRead(f) \/ DoneWrite(f)
  \/ StatementFails(f)

AgentStep(f) ==
  \/ RelayRequest(f) \/ ChatAccepted(f)
  \/ Connect(f) \/ StreamEnds(f)
  \/ \E s \in EventStatuses, m \in AgentMessages \cup {NoMessage} :
       Event(f, [status |-> s, message |-> m])

HandlerStep(h) ==
  \/ HandlerAppendRead(h) \/ HandlerAppendWrite(h)
  \/ HandlerStatusRead(h) \/ HandlerStatusWrite(h)
  \/ HandlerFails(h)

ViewerNext(v) ==
  /\ ViewerStep(v) \/ Hangup(v) \/ \E id \in TaskIds : Watch(v, id)
  /\ UNCHANGED <<logVars, flowVars, jobVars, restarts>>

Next ==
  \/ \E f \in Flows : FlowStep(f) \/ AgentStep(f)
  \/ \E h \in Handlers : HandlerStep(h) \/ \E j \in Jobs : Arrive(h, j)
  \/ \E v \in Viewers : ViewerNext(v)
  \/ Restart

Spec == Init /\ [][Next]_vars

(* Goroutines and handlers run on; agents, clients and failures of the     *)
(* process are not obliged to anything (an SSE request has no timeout).    *)
FairSpec ==
  /\ Spec
  /\ \A f \in Flows : WF_vars(FlowStep(f))
  /\ \A v \in Viewers : WF_vars(ViewerStep(v) /\ UNCHANGED <<logVars, flowVars, jobVars, restarts>>)

-----------------------------------------------------------------------------
(* Properties.                                                             *)

(* Whatever interleaving of whole-row updates and appends, a row never     *)
(* loses the message it was created with (createTaskWithID): the request,  *)
(* or the answer that was forwarded.                                       *)
FirstMessageKept ==
  \A f \in Flows :
    /\ HasRow(Request(f)) =>
         row[Request(f)].messages # <<>> /\ row[Request(f)].messages[1] = Ask
    /\ HasRow(Response(f)) =>
         row[Response(f)].messages # <<>> /\ row[Response(f)].messages[1] = lastMsg[f]

(* As long as no handler wrote the status and no statement failed, the     *)
(* request row says what the flow last set out to write - "failed" if the  *)
(* POST failed, else the last status streamed: concurrent appends never    *)
(* bring an older status back.                                             *)
StatusFollowsAgent ==
  \A f \in Flows :
    /\ HasRow(Request(f))
    /\ pc[f] \notin Writing \cup {"lost"}
    /\ Request(f) \notin touched
    /\ f \notin dbErr
    => row[Request(f)].status = due[f]

(* An answer is logged and sent only when the recipient's stream completed *)
(* and there is somebody to answer; its row says "completed" only if the   *)
(* sender accepted it (or a handler wrote that).                           *)
AnswerJustified ==
  \A f \in Flows :
    /\ HasRow(Response(f)) => due[f] = "completed" /\ sender[f] = "reachable"
    /\ HasRow(Response(f)) /\ row[Response(f)].status = "completed"
         => f \in delivered \/ Response(f) \in touched

(* The flow has told its viewers that the agent completed or failed.       *)
EndTold(f) ==
  /\ ev[f].status \in EndStatuses
  /\ pc[f] \in {"forwardCreate", "forwardPost", "doneRead", "doneWrite", "done"}

(* "Send current task state immediately so late subscribers don't miss     *)
(* completed tasks" (handleTaskStream): whenever a viewer comes, before,   *)
(* during or after the last broadcast, it has been told of the end or has  *)
(* the update in its buffer - unless its buffer was full, a statement      *)
(* failed or a handler overwrote the status.                               *)
NoMissedEnd ==
  \A v \in Viewers, f \in Flows :
    /\ vst[v] = "live" /\ watch[v] = Request(f)
    /\ EndTold(f)
    /\ ~lossy[v] /\ f \notin dbErr /\ Request(f) \notin touched
    => \/ shown[v].status \in EndStatuses
       \/ \E i \in DOMAIN buf[v] : buf[v][i].status \in EndStatuses

(* A client that was told of an end is never told otherwise afterwards.    *)
EndIsFinal ==
  [][\A v \in Viewers :
       shown[v].status \in EndStatuses /\ vst'[v] # "off"
         => shown'[v].status = shown[v].status]_vars

(* Once the agent's end status has been received, each viewer of the task  *)
(* is told of an end or goes away (with the exceptions of NoMissedEnd, and *)
(* unless the process dies).                                               *)
EndIsShown ==
  \A v \in Viewers, f \in Flows :
    (/\ vst[v] \in {"opening", "live"} /\ watch[v] = Request(f)
     /\ pc[f] = "statusRead" /\ ev[f].status \in EndStatuses)
      ~> (\/ shown[v].status \in EndStatuses
          \/ vst[v] \in {"leaving", "off"}
          \/ lossy[v] \/ f \in dbErr \/ Request(f) \in touched)

(* The message sent to a client with the end of a task the agent answered  *)
(* is not the request ("Include last message if task is already done").    *)
EndCarriesAnswer ==
  \A v \in Viewers, f \in Flows :
    /\ watch[v] = Request(f)
    /\ shown[v].status = "completed"
    /\ lastMsg[f] # NoMessage
    => shown[v].message # Ask

=============================================================================
