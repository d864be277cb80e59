------------------------------ MODULE TaskLog ------------------------------
(***************************************************************************)
(* The task_logs table and the three ways the portal writes a row of it:   *)
(* createTaskWithID inserts it, updateTaskStatus and appendMessage read it *)
(* and write it back in a second statement.  Nothing spans the two, so     *)
(* another goroutine may write the row in between.                         *)
(*                                                                         *)
(* snap[a] is the row actor a has read and not yet written back.  Rows are *)
(* never deleted.  Artifacts, timestamps and the direction are left out.   *)
(***************************************************************************)
EXTENDS Naturals, Sequences

CONSTANTS
  TaskIds,   \* primary keys of task_logs
  Actors,    \* goroutines that read and write rows
  Messages,  \* TaskMessage values
  NoRow      \* what GetByID returns (nil) when there is no row

Statuses == {"pending", "running", "completed", "failed", "cancelled"}

Rows == [status : Statuses, messages : Seq(Messages)]

ASSUME NoRowAssumption == NoRow \notin Rows

VARIABLES
  row,    \* [TaskIds -> row or NoRow]
  snap    \* [Actors -> row or NoRow]: what a reader holds

logVars == <<row, snap>>

LogTypeOK ==
  /\ row \in [TaskIds -> Rows \cup {NoRow}]
  /\ snap \in [Actors -> Rows \cup {NoRow}]

LogInit ==
  /\ row = [id \in TaskIds |-> NoRow]
  /\ snap = [a \in Actors |-> NoRow]

HasRow(id) == row[id] # NoRow

(* createTaskWithID: one pending row that holds the request message.       *)
CreateTask(id, m) ==
  /\ row' = [row EXCEPT ![id] = [status |-> "pending", messages |-> <<m>>]]
  /\ UNCHANGED snap

(* MessageStore.GetByID, the first half of both updates.                   *)
ReadTask(a, id) ==
  /\ snap' = [snap EXCEPT ![a] = row[id]]
  /\ UNCHANGED row

(* MessageStore.Update writes every column of the row as it was read, the  *)
(* new status apart; MessageStore.AppendMessage only the messages column,  *)
(* with the messages that were read and the new one.  (Operators whose     *)
(* names start with Bad, here and in the modules below, are seeded faults: *)
(* each replaces the definition after it to show that the properties can   *)
(* see such a bug.)                                                        *)
BadStatusRow(old, s) == [status |-> s, messages |-> <<>>]
StatusRow(old, s) == [status |-> s, messages |-> old.messages]

BadMessagesRow(now, old, m) == [old EXCEPT !.messages = Append(@, m)]
MessagesRow(now, old, m) == [now EXCEPT !.messages = Append(old.messages, m)]

(* updateTaskStatus after its read; without a row it does nothing.         *)
WriteStatus(a, id, s) ==
  /\ row' = IF snap[a] = NoRow THEN row
              ELSE [row EXCEPT ![id] = StatusRow(snap[a], s)]
  /\ snap' = [snap EXCEPT ![a] = NoRow]

(* appendMessage after its read.                                           *)
WriteMessages(a, id, m) ==
  /\ row' = IF snap[a] = NoRow THEN row
              ELSE [row EXCEPT ![id] = MessagesRow(@, snap[a], m)]
  /\ snap' = [snap EXCEPT ![a] = NoRow]

(* The reader gives up (a failed statement, or the process stops).         *)
DropRead(a) ==
  /\ snap' = [snap EXCEPT ![a] = NoRow]
  /\ UNCHANGED row

=============================================================================
