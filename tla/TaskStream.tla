----------------------------- MODULE TaskStream -----------------------------
(***************************************************************************)
(* The task stream of the portal: GET /api/tasks/{id}/stream, to which     *)
(* GET /a2a/relay/{recipient}/tasks/{id}/stream is delegated.              *)
(*                                                                         *)
(* A viewer is one running handleTaskStream.  It registers a buffered      *)
(* channel in taskStreamConns, sends the row's present state, returns if   *)
(* that is an end state, and otherwise relays updates until its client     *)
(* goes away.  broadcastTaskUpdate never blocks: a full buffer drops.      *)
(***************************************************************************)
EXTENDS TaskLog

CONSTANTS
  Viewers,    \* slots for running handleTaskStream handlers
  BufCap,     \* capacity of a viewer's buffer (10 in the code)
  NoMessage,  \* no message in an update
  NoTask,     \* a viewer slot that watches nothing
  DbMayFail   \* whether a statement on task_logs may return an error

ASSUME BufCapAssumption == BufCap \in Nat \ {0}
ASSUME NoMessageAssumption == NoMessage \notin Messages
ASSUME NoTaskAssumption == NoTask \notin TaskIds
ASSUME DbMayFailAssumption == DbMayFail \in BOOLEAN

VARIABLES
  vst,     \* "off", "opening" (registered, row not read), "live", "leaving"
  watch,   \* the task a viewer watches
  buf,     \* its buffered updates
  shown,   \* history: the last status and message sent to the client
  lossy    \* history: the viewer could not read the row, or an end update
           \* found its buffer full

viewVars == <<vst, watch, buf, shown, lossy>>

(* handleTaskStream and the followers stop at these; "cancelled" is not    *)
(* one of them.                                                            *)
EndStatuses == {"completed", "failed"}

(* a2a.TaskUpdate; an absent status or message is "none" or NoMessage.     *)
Updates == [status : Statuses \cup {"none"}, message : Messages \cup {NoMessage}]

Nothing == [status |-> "none", message |-> NoMessage]

StreamTypeOK ==
  /\ vst \in [Viewers -> {"off", "opening", "live", "leaving"}]
  /\ watch \in [Viewers -> TaskIds \cup {NoTask}]
  /\ buf \in [Viewers -> Seq(Updates)]
  /\ shown \in [Viewers -> Updates]
  /\ lossy \in [Viewers -> BOOLEAN]

StreamInit ==
  /\ vst = [v \in Viewers |-> "off"]
  /\ watch = [v \in Viewers |-> NoTask]
  /\ buf = [v \in Viewers |-> <<>>]
  /\ shown = [v \in Viewers |-> Nothing]
  /\ lossy = [v \in Viewers |-> FALSE]

HasRoom(v) == Len(buf[v]) < BufCap

(* The viewers in taskStreamConns[id].                                     *)
ViewersOf(id) == {v \in Viewers : watch[v] = id}

(* broadcastTaskUpdate: one non-blocking send to each viewer of the task.  *)
Broadcast(id, u) ==
  /\ buf' = [v \in Viewers |->
               IF v \in ViewersOf(id) /\ HasRoom(v) THEN Append(buf[v], u) ELSE buf[v]]
  /\ lossy' = [v \in Viewers |->
                 \/ lossy[v]
                 \/ v \in ViewersOf(id) /\ ~HasRoom(v) /\ u.status \in EndStatuses]
  /\ UNCHANGED <<vst, watch, shown>>

(* A client opens the stream; the handler registers before it reads.       *)
Watch(v, id) ==
  /\ vst[v] = "off"
  /\ vst' = [vst EXCEPT ![v] = "opening"]
  /\ watch' = [watch EXCEPT ![v] = id]
  /\ UNCHANGED <<buf, shown, lossy>>

BadSnapshot(v) ==
  /\ vst[v] = "opening"
  /\ HasRow(watch[v])
  /\ vst' = [vst EXCEPT ![v] = "live"]
  /\ UNCHANGED <<watch, buf, shown, lossy>>

(* getTask and the first event: the status, and the row's last message if  *)
(* the status is an end status, in which case the handler returns.         *)
Snapshot(v) ==
  LET r == row[watch[v]]
      ended == r.status \in EndStatuses
  IN /\ vst[v] = "opening"
     /\ HasRow(watch[v])
     /\ shown' = [shown EXCEPT ![v] =
          [status |-> r.status,
           message |-> IF ended THEN r.messages[Len(r.messages)] ELSE NoMessage]]
     /\ vst' = [vst EXCEPT ![v] = IF ended THEN "leaving" ELSE "live"]
     /\ UNCHANGED <<watch, buf, lossy>>

(* There is no such row yet, or it could not be read: no first event.      *)
NoSnapshot(v) ==
  /\ vst[v] = "opening"
  /\ DbMayFail \/ ~HasRow(watch[v])
  /\ vst' = [vst EXCEPT ![v] = "live"]
  /\ lossy' = [lossy EXCEPT ![v] = @ \/ HasRow(watch[v])]
  /\ UNCHANGED <<watch, buf, shown>>

(* The select receives an update and sends it; an update without a status  *)
(* or a message leaves what the client knew of it.                         *)
Relay(v) ==
  LET u == Head(buf[v])
  IN /\ vst[v] = "live"
     /\ buf[v] # <<>>
     /\ buf' = [buf EXCEPT ![v] = Tail(@)]
     /\ shown' = [shown EXCEPT ![v] =
          [status |-> IF u.status = "none" THEN @.status ELSE u.status,
           message |-> IF u.message = NoMessage THEN @.message ELSE u.message]]
     /\ UNCHANGED <<vst, watch, lossy>>

(* The client goes away: the select takes req.Context().Done().            *)
Hangup(v) ==
  /\ vst[v] = "live"
  /\ vst' = [vst EXCEPT ![v] = "leaving"]
  /\ UNCHANGED <<watch, buf, shown, lossy>>

(* The deferred removeTaskStreamConn.                                      *)
Unwatch(v) ==
  /\ vst[v] = "leaving"
  /\ vst' = [vst EXCEPT ![v] = "off"]
  /\ watch' = [watch EXCEPT ![v] = NoTask]
  /\ buf' = [buf EXCEPT ![v] = <<>>]
  /\ shown' = [shown EXCEPT ![v] = Nothing]
  /\ lossy' = [lossy EXCEPT ![v] = FALSE]

ViewerStep(v) == Snapshot(v) \/ NoSnapshot(v) \/ Relay(v) \/ Unwatch(v)

=============================================================================
