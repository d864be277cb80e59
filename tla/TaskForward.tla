---------------------------- MODULE TaskForward ----------------------------
(***************************************************************************)
(* The A2A router's own task path: POST /tasks (a2a.Router).               *)
(*                                                                         *)
(* HandleTaskCreate logs a task and starts one forwardTask goroutine, which*)
(* walks the registered agents and, holding one of the slots of sendSem,   *)
(* starts a sendTaskToAgent for each one to be sent to.  An agent that     *)
(* accepts is followed by a goroutine of its own, which holds no slot; all *)
(* of a task's followers write the same task_logs row.                     *)
(***************************************************************************)
EXTENDS TaskLog, FiniteSets

CONSTANTS
  Agents,      \* registered agents; an agent stands for its id too
  ShortNames,  \* agents whose id has at most two characters
  General,     \* the channel id "general"
  Ask,         \* the message a task is created with
  Answer,      \* the message an agent streams
  SemCap,      \* slots of sendSem (10 in the code)
  MaxEvents    \* bound: updates an agent streams for a task

(* A direct channel is "a::b", here the set {a, b}.  A client may as well  *)
(* send a bare agent id as X-Channel-ID.                                   *)
Directs == {d \in SUBSET Agents : Cardinality(d) = 2}
ChannelIds == {General} \cup Directs \cup Agents

Deliveries == TaskIds \X Agents

ASSUME ShortNamesAssumption == ShortNames \subseteq Agents
ASSUME SemCapAssumption == SemCap \in Nat \ {0}
ASSUME ForwardActorsAssumption == Actors = Deliveries
ASSUME ForwardMessagesAssumption == {Ask, Answer} \subseteq Messages
ASSUME MaxEventsAssumption == MaxEvents \in Nat

VARIABLES
  fpc,      \* forwardTask: "none", "list", "loop", "done"
  channel,  \* X-Channel-ID of the task
  from,     \* X-Agent-ID of the task
  todo,     \* agents the loop has not come to
  free,     \* free slots of sendSem
  dpc,      \* delivery <<task, agent>>: where its goroutine is
  ev,       \* the update a follower handles
  nev,      \* bound: updates streamed
  sent      \* history: deliveries whose POST was made

loopVars == <<fpc, channel, from, todo>>
sendVars == <<dpc, ev, nev>>
vars == <<logVars, loopVars, free, sendVars, sent>>

NoUpdate == [status |-> "none", message |-> FALSE]
Updates == [status : {"none", "running", "completed", "failed"}, message : BOOLEAN]

(* Phases in which a delivery holds a slot of sendSem.                     *)
Sending == {"post", "failRead", "failWrite"}
Following == {"connect", "stream", "statusRead", "statusWrite", "appendRead", "appendWrite"}

TypeOK ==
  /\ LogTypeOK
  /\ fpc \in [TaskIds -> {"none", "list", "loop", "done"}]
  /\ channel \in [TaskIds -> ChannelIds]
  /\ from \in [TaskIds -> Agents]
  /\ todo \in [TaskIds -> SUBSET Agents]
  /\ free \in 0 .. SemCap
  /\ dpc \in [Deliveries -> {"none", "done"} \cup Sending \cup Following]
  /\ ev \in [Deliveries -> Updates]
  /\ nev \in [Deliveries -> 0 .. MaxEvents]
  /\ sent \in SUBSET Deliveries

Init ==
  /\ LogInit
  /\ fpc = [t \in TaskIds |-> "none"]
  /\ channel = [t \in TaskIds |-> General]
  /\ from \in [TaskIds -> Agents]
  /\ todo = [t \in TaskIds |-> {}]
  /\ free = SemCap
  /\ dpc = [d \in Deliveries |-> "none"]
  /\ ev = [d \in Deliveries |-> NoUpdate]
  /\ nev = [d \in Deliveries |-> 0]
  /\ sent = {}

-----------------------------------------------------------------------------
(* HandleTaskCreate, then "go r.forwardTask(...)".  The sender is the agent*)
(* the bearer token belongs to.                                            *)
HandleTaskCreate(t, ch) ==
  /\ fpc[t] = "none"
  /\ CreateTask(t, Ask)
  /\ channel' = [channel EXCEPT ![t] = ch]
  /\ fpc' = [fpc EXCEPT ![t] = "list"]
  /\ UNCHANGED <<from, todo, free, sendVars, sent>>

(* GetAgents; on an error the goroutine returns.                           *)
ListAgents(t) ==
  /\ fpc[t] = "list"
  /\ \/ /\ fpc' = [fpc EXCEPT ![t] = "loop"]
        /\ todo' = [todo EXCEPT ![t] = Agents]
     \/ /\ fpc' = [fpc EXCEPT ![t] = "done"]
        /\ todo' = todo
  /\ UNCHANGED <<logVars, channel, from, free, sendVars, sent>>

BadIsDirectChannel(ch) == ch \notin ShortNames
IsDirectChannel(ch) == ch # General /\ ch \notin ShortNames

(* forwardTask's two reasons to pass an agent over.  The second compares   *)
(* the agent's id with the whole channel id.                               *)
BadPassedOver(t, a) == IsDirectChannel(channel[t]) /\ a # channel[t]
PassedOver(t, a) ==
  \/ a = from[t]
  \/ IsDirectChannel(channel[t]) /\ a # channel[t]

Skip(t, a) ==
  /\ fpc[t] = "loop"
  /\ a \in todo[t]
  /\ PassedOver(t, a)
  /\ todo' = [todo EXCEPT ![t] = @ \ {a}]
  /\ UNCHANGED <<logVars, fpc, channel, from, free, sendVars, sent>>

SlotFree == free > 0

(* The loop blocks here while every slot of sendSem is taken.              *)
StartSend(t, a) ==
  /\ fpc[t] = "loop"
  /\ a \in todo[t]
  /\ ~PassedOver(t, a)
  /\ SlotFree
  /\ free' = free - 1
  /\ dpc' = [dpc EXCEPT ![<<t, a>>] = "post"]
  /\ todo' = [todo EXCEPT ![t] = @ \ {a}]
  /\ UNCHANGED <<logVars, fpc, channel, from, ev, nev, sent>>

FinishLoop(t) ==
  /\ fpc[t] = "loop"
  /\ todo[t] = {}
  /\ fpc' = [fpc EXCEPT ![t] = "done"]
  /\ UNCHANGED <<logVars, channel, from, todo, free, sendVars, sent>>

-----------------------------------------------------------------------------
(* sendTaskToAgent.  The slot is released when it returns, however.        *)

Goto(d, here, there) ==
  /\ dpc[d] = here
  /\ dpc' = [dpc EXCEPT ![d] = there]

\* No answer within 30 s: the row is left as it is.
BadPostUnanswered(d) ==
  /\ Goto(d, "post", "done")
  /\ sent' = sent \cup {d}
  /\ UNCHANGED <<logVars, loopVars, free, ev, nev>>

PostUnanswered(d) ==
  /\ Goto(d, "post", "done")
  /\ sent' = sent \cup {d}
  /\ free' = free + 1
  /\ UNCHANGED <<logVars, loopVars, ev, nev>>

\* Status 400 or more: the whole task becomes "failed".
PostRefused(d) ==
  /\ Goto(d, "post", "failRead")
  /\ sent' = sent \cup {d}
  /\ UNCHANGED <<logVars, loopVars, free, ev, nev>>

FailRead(d) ==
  /\ Goto(d, "failRead", "failWrite")
  /\ ReadTask(d, d[1])
  /\ UNCHANGED <<loopVars, free, ev, nev, sent>>

BadFailWrite(d) ==
  /\ Goto(d, "failWrite", "done")
  /\ WriteStatus(d, d[1], "failed")
  /\ UNCHANGED <<loopVars, free, ev, nev, sent>>

FailWrite(d) ==
  /\ Goto(d, "failWrite", "done")
  /\ WriteStatus(d, d[1], "failed")
  /\ free' = free + 1
  /\ UNCHANGED <<loopVars, ev, nev, sent>>

PostAccepted(d) ==
  /\ Goto(d, "post", "connect")
  /\ sent' = sent \cup {d}
  /\ free' = free + 1
  /\ UNCHANGED <<logVars, loopVars, ev, nev>>

-----------------------------------------------------------------------------
(* subscribeToAgentStream.                                                 *)

Connect(d) ==
  /\ Goto(d, "connect", "stream")
  /\ UNCHANGED <<logVars, loopVars, free, ev, nev, sent>>

\* The stream cannot be opened, or ends.
StreamEnds(d) ==
  /\ \E here \in {"connect", "stream"} : Goto(d, here, "done")
  /\ UNCHANGED <<logVars, loopVars, free, ev, nev, sent>>

(* The update is broadcast to a2a.Router.connections, where nobody is; the *)
(* loop ends with an end status.                                           *)
AfterUpdate(u) == IF u.status \in {"completed", "failed"} THEN "done" ELSE "stream"
AfterStatus(u) == IF u.message THEN "appendRead" ELSE AfterUpdate(u)

Event(d, u) ==
  /\ nev[d] < MaxEvents
  /\ Goto(d, "stream", IF u.status # "none" THEN "statusRead" ELSE AfterStatus(u))
  /\ ev' = [ev EXCEPT ![d] = u]
  /\ nev' = [nev EXCEPT ![d] = @ + 1]
  /\ UNCHANGED <<logVars, loopVars, free, sent>>

StatusRead(d) ==
  /\ Goto(d, "statusRead", "statusWrite")
  /\ ReadTask(d, d[1])
  /\ UNCHANGED <<loopVars, free, ev, nev, sent>>

StatusWrite(d) ==
  /\ Goto(d, "statusWrite", AfterStatus(ev[d]))
  /\ WriteStatus(d, d[1], ev[d].status)
  /\ UNCHANGED <<loopVars, free, ev, nev, sent>>

AppendRead(d) ==
  /\ Goto(d, "appendRead", "appendWrite")
  /\ ReadTask(d, d[1])
  /\ UNCHANGED <<loopVars, free, ev, nev, sent>>

AppendWrite(d) ==
  /\ Goto(d, "appendWrite", AfterUpdate(ev[d]))
  /\ WriteMessages(d, d[1], Answer)
  /\ UNCHANGED <<loopVars, free, ev, nev, sent>>

-----------------------------------------------------------------------------
LoopStep(t) ==
  \/ ListAgents(t)
  \/ \E a \in Agents : Skip(t, a) \/ StartSend(t, a)
  \/ FinishLoop(t)

SendStep(d) ==
  \/ PostUnanswered(d) \/ PostRefused(d) \/ PostAccepted(d)
  \/ FailRead(d) \/ FailWrite(d)

FollowStep(d) ==
  \/ Connect(d) \/ StreamEnds(d)
  \/ \E u \in Updates : Event(d, u)
  \/ StatusRead(d) \/ StatusWrite(d)
  \/ AppendRead(d) \/ AppendWrite(d)

Next ==
  \/ \E t \in TaskIds : LoopStep(t) \/ \E ch \in ChannelIds : HandleTaskCreate(t, ch)
  \/ \E d \in Deliveries : SendStep(d) \/ FollowStep(d)

Spec == Init /\ [][Next]_vars

(* Senders run on (the POST has a 30 s timeout).  A loop that waits for a  *)
(* slot gets one if slots keep coming free: goroutines blocked on a Go     *)
(* channel are served in order.  Nothing is assumed of followers.          *)
FairSpec ==
  /\ Spec
  /\ \A t \in TaskIds : SF_vars(LoopStep(t))
  /\ \A d \in Deliveries : WF_vars(SendStep(d))

-----------------------------------------------------------------------------
(* Properties.                                                             *)

(* Every taken slot of sendSem is held by exactly one sendTaskToAgent that *)
(* has not returned: no path out of it keeps or returns a slot twice, so   *)
(* at most SemCap POSTs run at a time over all tasks.                      *)
SlotsAccounted ==
  free + Cardinality({d \in Deliveries : dpc[d] \in Sending}) = SemCap

(* A task forwarded on "general" has been (or is being) sent to every      *)
(* registered agent other than its sender ("broadcast task to all          *)
(* registered agents"), and to nobody else.                                *)
GeneralReachesAll ==
  \A t \in TaskIds :
    (fpc[t] = "loop" /\ channel[t] = General)
      => {a \in Agents : dpc[<<t, a>>] # "none"} = (Agents \ {from[t]}) \ todo[t]

(* A task's row keeps the message it was created with, and its messages    *)
(* are that one and answers, whatever its followers do to each other.      *)
RequestKept ==
  \A t \in TaskIds : fpc[t] # "none" =>
    /\ row[t].messages # <<>> /\ row[t].messages[1] = Ask
    /\ \A i \in 2 .. Len(row[t].messages) : row[t].messages[i] = Answer

(* No agent is sent the same task twice, nor one of its own: a sender that *)
(* starts is for an agent to which no POST of this task was made.          *)
SentOnce ==
  [][\A d \in Deliveries :
       (dpc[d] # "post" /\ dpc'[d] = "post") => d \notin sent /\ d[2] # from[d[1]]]_vars

(* forwardTask returns: waiting for slots never blocks it forever.         *)
ForwardingEnds == \A t \in TaskIds : (fpc[t] = "list") ~> (fpc[t] = "done")

(* A task on a direct channel reaches its recipient ("For direct channels, *)
(* only send to recipient").                                               *)
DirectReachesRecipient ==
  \A t \in TaskIds, a \in Agents :
    (/\ fpc[t] = "loop" /\ todo[t] = {}
     /\ channel[t] = {from[t], a} /\ a # from[t]) => dpc[<<t, a>>] # "none"

=============================================================================
