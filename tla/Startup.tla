------------------------------ MODULE Startup ------------------------------
(***************************************************************************)
(* Boot of the portal: main, RunMigrations and NewRouter on one SQLite     *)
(* database, cut at its SQL statements.  Several processes may boot on the *)
(* same file: the portal, which docker-compose restarts, and runs of       *)
(* "-migrate-only" beside it.  Any of them may end between two statements; *)
(* a statement may fail (the file is locked), and most of the errors are   *)
(* ignored.  Only the columns that a migration looks at are modelled.      *)
(***************************************************************************)
EXTENDS Naturals, Sequences

CONSTANTS
  Portals,   \* processes that go on to serve
  Migrators, \* processes run with -migrate-only
  Layouts    \* layouts an older version may have left in the file

Procs == Portals \cup Migrators

(* The CREATE TABLE statements, in their order; indexes are left out.      *)
Creates == <<"agents", "channels", "task_logs", "models", "auth_configs", "agent_identity_files">>

(* alterMigrations, in their order.                                        *)
Alters == <<
  [table |-> "agents", column |-> "agent_type"],
  [table |-> "agents", column |-> "listen_port"],
  [table |-> "agents", column |-> "model_id"],
  [table |-> "agents", column |-> "auth_config_id"],
  [table |-> "models", column |-> "is_default"],
  [table |-> "models", column |-> "auth_config_id"],
  [table |-> "agents", column |-> "peer_agent_ids"] >>

Tables == {Creates[i] : i \in DOMAIN Creates}
Columns == {Alters[i].column : i \in DOMAIN Alters} \cup {"provider"}

(* Columns that a CREATE TABLE gives, and those that the stores name.      *)
Created == [t \in Tables |->
  CASE t = "agents" -> {"agent_type", "listen_port"}
    [] t = "models" -> {"is_default", "auth_config_id"}
    [] OTHER -> {}]

Named == [t \in Tables |-> {Alters[i].column : i \in {j \in DOMAIN Alters : Alters[j].table = t}}]

ASSUME ProcsAssumption == Portals \cap Migrators = {}
ASSUME LayoutsAssumption ==
  Layouts \subseteq [tables : SUBSET Tables, columns : [Tables -> SUBSET Columns]]

VARIABLES
  tables,   \* tables of the database
  columns,  \* their columns
  rows,     \* tables that hold rows
  general,  \* channels has the row "general"
  pc,       \* where each process is
  next,     \* which CREATE or ALTER it is at
  clean,    \* history: no statement failed since the process started
  rival,    \* history: it is about to drop models, which another process dropped meanwhile
  undercut  \* history: a table models of the current layout was dropped and is not created again

db == <<tables, columns, rows, general>>
vars == <<db, pc, next, clean, rival, undercut>>

Booting == {"read", "drop", "create", "probe", "alter", "route"}

TypeOK ==
  /\ tables \subseteq Tables
  /\ columns \in [Tables -> SUBSET Columns]
  /\ rows \subseteq tables
  /\ general \in BOOLEAN
  /\ pc \in [Procs -> Booting \cup {"off", "serving", "done"}]
  /\ next \in [Procs -> Nat \ {0}]
  /\ clean \in [Procs -> BOOLEAN]
  /\ rival \in [Procs -> BOOLEAN]
  /\ undercut \in BOOLEAN

Init ==
  /\ \E l \in Layouts :
       /\ tables = l.tables
       /\ columns = [t \in Tables |-> IF t \in l.tables THEN l.columns[t] ELSE {}]
       /\ rows = l.tables
       /\ general = ("channels" \in l.tables)
  /\ pc = [p \in Procs |-> "off"]
  /\ next = [p \in Procs |-> 1]
  /\ clean = [p \in Procs |-> TRUE]
  /\ rival = [p \in Procs |-> FALSE]
  /\ undercut = FALSE

-----------------------------------------------------------------------------
Goto(p, here, there) == pc[p] = here /\ pc' = [pc EXCEPT ![p] = there]

\* An error that is ignored.
Tainted(p) == clean' = [clean EXCEPT ![p] = FALSE]

(* main: NewSQLite.  -migrate-only may be run again.                       *)
Start(p) ==
  /\ pc[p] = "off" \/ (p \in Migrators /\ pc[p] = "done")
  /\ pc' = [pc EXCEPT ![p] = "read"]
  /\ clean' = [clean EXCEPT ![p] = TRUE]
  /\ UNCHANGED <<db, next, rival, undercut>>

(* The process is killed, or a CREATE fails and main calls log.Fatalf.     *)
Crash(p) ==
  /\ pc[p] \in Booting \cup {"serving"}
  /\ pc' = [pc EXCEPT ![p] = "off"]
  /\ next' = [next EXCEPT ![p] = 1]
  /\ clean' = [clean EXCEPT ![p] = TRUE]
  /\ rival' = [rival EXCEPT ![p] = FALSE]
  /\ UNCHANGED <<db, undercut>>

BadReadModels(p) ==
  /\ Goto(p, "read", "drop")
  /\ UNCHANGED <<db, next, clean, rival, undercut>>

(* PRAGMA table_info(models): hasProvider.                                 *)
ReadModels(p) ==
  /\ pc[p] = "read"
  /\ pc' = [pc EXCEPT ![p] = IF "provider" \in columns["models"] THEN "drop" ELSE "create"]
  /\ UNCHANGED <<db, next, clean, rival, undercut>>

ReadFails(p) ==
  /\ Goto(p, "read", "create")
  /\ Tainted(p)
  /\ UNCHANGED <<db, next, rival, undercut>>

(* DROP TABLE models, which finds no table when a rival was faster.        *)
DropModels(p) ==
  /\ Goto(p, "drop", "create")
  /\ tables' = tables \ {"models"}
  /\ rows' = rows \ {"models"}
  /\ columns' = [columns EXCEPT !["models"] = {}]
  /\ rival' = [q \in Procs |-> q # p /\ (rival[q] \/ (pc[q] = "drop" /\ "models" \in tables))]
  /\ undercut' = (undercut \/ ("models" \in tables /\ "provider" \notin columns["models"]))
  /\ UNCHANGED <<general, next, clean>>

DropFails(p) ==
  /\ Goto(p, "drop", "create")
  /\ Tainted(p)
  /\ rival' = [rival EXCEPT ![p] = FALSE]
  /\ UNCHANGED <<db, next, undercut>>

(* CREATE TABLE IF NOT EXISTS.                                             *)
CreateTable(p) ==
  LET t == Creates[next[p]]
      last == next[p] = Len(Creates)
  IN  /\ Goto(p, "create", IF last THEN "probe" ELSE "create")
      /\ next' = [next EXCEPT ![p] = IF last THEN 1 ELSE @ + 1]
      /\ tables' = tables \cup {t}
      /\ columns' = IF t \in tables THEN columns ELSE [columns EXCEPT ![t] = Created[t]]
      /\ undercut' = (undercut /\ t # "models")
      /\ UNCHANGED <<rows, general, clean, rival>>

BadNextAlter(p) ==
  LET last == next[p] = Len(Alters) - 1
  IN  /\ pc' = [pc EXCEPT ![p] =
              IF ~last THEN "probe" ELSE IF p \in Migrators THEN "done" ELSE "route"]
      /\ next' = [next EXCEPT ![p] = IF last THEN 1 ELSE @ + 1]

(* On to the next ALTER, or to the end of the migrations.                  *)
NextAlter(p) ==
  LET last == next[p] = Len(Alters)
  IN  /\ pc' = [pc EXCEPT ![p] =
              IF ~last THEN "probe" ELSE IF p \in Migrators THEN "done" ELSE "route"]
      /\ next' = [next EXCEPT ![p] = IF last THEN 1 ELSE @ + 1]

(* pragma_table_info: is the column there?                                 *)
ProbeMissing(p) ==
  /\ Alters[next[p]].column \notin columns[Alters[next[p]].table]
  /\ Goto(p, "probe", "alter")
  /\ UNCHANGED <<db, next, clean, rival, undercut>>

BadProbeFound(p) ==
  /\ Alters[next[p]].column \in columns[Alters[next[p]].table]
  /\ Goto(p, "probe", "off")
  /\ next' = [next EXCEPT ![p] = 1]
  /\ UNCHANGED <<db, clean, rival, undercut>>

ProbeFound(p) ==
  /\ pc[p] = "probe"
  /\ Alters[next[p]].column \in columns[Alters[next[p]].table]
  /\ NextAlter(p)
  /\ UNCHANGED <<db, clean, rival, undercut>>

(* ALTER TABLE ADD COLUMN; without effect when a rival added the column or *)
(* dropped the table in the meantime.                                      *)
AlterTable(p) ==
  LET a == Alters[next[p]]
  IN  /\ pc[p] = "alter"
      /\ NextAlter(p)
      /\ columns' = IF a.table \in tables
                    THEN [columns EXCEPT ![a.table] = @ \cup {a.column}] ELSE columns
      /\ UNCHANGED <<tables, rows, general, clean, rival, undercut>>

(* The probe or the ALTER fails, and the column is left out.               *)
AlterFails(p) ==
  /\ pc[p] \in {"probe", "alter"}
  /\ NextAlter(p)
  /\ Tainted(p)
  /\ UNCHANGED <<db, rival, undercut>>

(* NewRouter: EnsureGeneralChannel, whose error is ignored; then Run.      *)
EnsureGeneral(p) ==
  /\ Goto(p, "route", "serving")
  /\ IF "channels" \in tables
     THEN general' = TRUE /\ rows' = rows \cup {"channels"}
     ELSE UNCHANGED <<general, rows>>
  /\ UNCHANGED <<tables, columns, next, clean, rival, undercut>>

GeneralFails(p) ==
  /\ Goto(p, "route", "serving")
  /\ Tainted(p)
  /\ UNCHANGED <<db, next, rival, undercut>>

(* A handler of a serving portal inserts into a table that has all the     *)
(* columns the store names.                                                *)
Insert(p, t) ==
  /\ pc[p] = "serving"
  /\ t \in tables \ rows
  /\ Named[t] \subseteq columns[t]
  /\ rows' = rows \cup {t}
  /\ UNCHANGED <<tables, columns, general, pc, next, clean, rival, undercut>>

Statement(p) ==
  \/ ReadModels(p) \/ ReadFails(p) \/ DropModels(p) \/ DropFails(p) \/ CreateTable(p)
  \/ ProbeMissing(p) \/ ProbeFound(p) \/ AlterTable(p) \/ AlterFails(p)
  \/ EnsureGeneral(p) \/ GeneralFails(p)

Next ==
  \E p \in Procs :
    \/ Start(p) \/ Crash(p) \/ Statement(p)
    \/ \E t \in Tables : Insert(p, t)

Spec == Init /\ [][Next]_vars

(* docker-compose restarts a portal ("restart: unless-stopped"), and a     *)
(* boot goes on by itself.                                                 *)
FairSpec ==
  /\ Spec
  /\ \A p \in Portals : WF_vars(Start(p)) /\ WF_vars(Statement(p))

-----------------------------------------------------------------------------
(* Properties.                                                             *)

Missing(t) == Named[t] \ columns[t]

(* A boot in which no statement failed ends with all a handler needs: each *)
(* table with each column the stores name, models without the column of    *)
(* the old layout, and the general channel.  Neither a crash of an earlier *)
(* boot at any statement, nor an older layout, nor another process booting *)
(* at the same time takes that away, save for the table models between the *)
(* moment a slower boot drops it a second time and its next creation.      *)
ServesComplete ==
  \A p \in Portals :
    pc[p] = "serving" /\ clean[p] =>
      /\ general
      /\ \A t \in Tables \ {"models"} : t \in tables /\ Missing(t) = {}
      /\ undercut \/ ("models" \in tables /\ Missing("models") = {})
      /\ "provider" \notin columns["models"]

(* No boot loses rows, but for models of the old layout ("safe because     *)
(* models are auto-discovered") and one case more: the boot read the old   *)
(* layout before another boot replaced it, and drops the new table.  One   *)
(* process alone, however often it crashes, never drops a current table.   *)
RowsKept ==
  [][rows \subseteq rows'
       \/ /\ rows \ rows' = {"models"}
          /\ \/ "provider" \in columns["models"]
             \/ \E p \in Procs : DropModels(p) /\ rival[p]]_vars

(* When processes are no longer killed, every portal comes to serve, from  *)
(* whatever a crash left in the file.                                      *)
EventuallyServes ==
  <>[][\A p \in Procs : ~Crash(p)]_vars => \A p \in Portals : <>[](pc[p] = "serving")

=============================================================================
