--------------------------- MODULE StartupProofs ---------------------------
(***************************************************************************)
(* Proofs about Startup, for any portals, migrators and older layouts: a   *)
(* clean boot ends with a complete schema, and no boot loses rows but in   *)
(* the two cases RowsKept names.                                           *)
(***************************************************************************)
EXTENDS Startup, TLAPS

(* The statement a process is at exists.                                   *)
AtStatement ==
  \A p \in Procs :
    /\ pc[p] = "create" => next[p] \in DOMAIN Creates
    /\ pc[p] \in {"probe", "alter"} => next[p] \in DOMAIN Alters
    /\ pc[p] \in {"off", "done", "read", "drop"} => next[p] = 1

(* An absent table has no columns; a dropped one is absent.                *)
Absent ==
  /\ \A t \in Tables : t \notin tables => columns[t] = {}
  /\ undercut => "models" \notin tables

(* What process p has seen to, save for a rival's drop.                    *)
HasTable(t) == t \in tables \/ (t = "models" /\ undercut)
HasColumn(i) ==
  \/ Alters[i].column \in columns[Alters[i].table]
  \/ Alters[i].table = "models" /\ undercut

Progress(p) ==
  /\ pc[p] \in {"create", "probe", "alter", "route", "serving"} =>
       "provider" \notin columns["models"]
  /\ pc[p] = "create" => \A i \in 1 .. next[p] - 1 : HasTable(Creates[i])
  /\ pc[p] \in {"probe", "alter", "route", "serving"} => \A t \in Tables : HasTable(t)
  /\ pc[p] \in {"probe", "alter"} => \A i \in 1 .. next[p] - 1 : HasColumn(i)
  /\ pc[p] \in {"route", "serving"} => \A i \in DOMAIN Alters : HasColumn(i)
  /\ pc[p] = "serving" => general

Sound == \A p \in Procs : clean[p] => Progress(p)

(* Only a drop by another process takes away what was read.                *)
FreshRead == \A p \in Procs : pc[p] = "drop" /\ ~rival[p] => "provider" \in columns["models"]

IInv == TypeOK /\ AtStatement /\ Absent /\ Sound /\ FreshRead

-----------------------------------------------------------------------------
(* The constants, spelled out.                                             *)

LEMMA Lists ==
  /\ DOMAIN Creates = 1 .. 6 /\ Len(Creates) = 6
  /\ DOMAIN Alters = 1 .. 7 /\ Len(Alters) = 7
BY DEF Creates, Alters

LEMMA TablesAre ==
  Tables = {"agents", "channels", "task_logs", "models", "auth_configs", "agent_identity_files"}
<1>1. \A i \in 1 .. 6 : i = 1 \/ i = 2 \/ i = 3 \/ i = 4 \/ i = 5 \/ i = 6
  OBVIOUS
<1> QED
  BY <1>1, Lists DEF Tables, Creates

LEMMA AltersAre ==
  \A i \in DOMAIN Alters :
    /\ Alters[i].table \in {"agents", "models"}
    /\ Alters[i].column \in Columns
    /\ Alters[i].column # "provider"
    /\ Alters[i].table = "models" => Alters[i].column \in {"is_default", "auth_config_id"}
<1>1. \A i \in 1 .. 7 : i = 1 \/ i = 2 \/ i = 3 \/ i = 4 \/ i = 5 \/ i = 6 \/ i = 7
  OBVIOUS
<1>2. \A i \in DOMAIN Alters : Alters[i].column \in Columns
  BY DEF Columns
<1> QED
  BY <1>1, <1>2, Lists DEF Alters

LEMMA CreatedAre ==
  /\ \A t \in Tables : Created[t] \in SUBSET Columns
  /\ Created["models"] = {"is_default", "auth_config_id"}
  /\ \A t \in Tables : "provider" \notin Created[t]
<1>1. {"agent_type", "listen_port", "is_default", "auth_config_id"} \subseteq Columns
  BY Lists DEF Columns, Alters
<1> QED
  BY <1>1, TablesAre DEF Created

LEMMA NamedAre ==
  ASSUME NEW t \in Tables, NEW c \in Named[t]
  PROVE  \E i \in DOMAIN Alters : Alters[i].table = t /\ Alters[i].column = c
BY DEF Named

-----------------------------------------------------------------------------
(* Types.                                                                  *)

LEMMA TypesInit == Init => TypeOK /\ AtStatement /\ Absent
<1> SUFFICES ASSUME Init PROVE TypeOK /\ AtStatement /\ Absent
  OBVIOUS
<1>1. PICK l \in Layouts :
        /\ tables = l.tables
        /\ columns = [t \in Tables |-> IF t \in l.tables THEN l.columns[t] ELSE {}]
        /\ rows = l.tables
        /\ general = ("channels" \in l.tables)
  BY DEF Init
<1>2. l.tables \in SUBSET Tables /\ l.columns \in [Tables -> SUBSET Columns]
  BY LayoutsAssumption
<1>3. columns \in [Tables -> SUBSET Columns]
  BY <1>1, <1>2
<1>4. /\ tables \subseteq Tables /\ rows \subseteq tables /\ general \in BOOLEAN
      /\ \A t \in Tables : t \notin tables => columns[t] = {}
  BY <1>1, <1>2
<1>5. \A p \in Procs : pc[p] = "off" /\ next[p] = 1
  BY DEF Init
<1>6. AtStatement /\ Absent
  BY <1>4, <1>5 DEF Init, AtStatement, Absent
<1>7. pc \in [Procs -> Booting \cup {"off", "serving", "done"}] /\ next \in [Procs -> Nat \ {0}]
  BY DEF Init, Booting
<1> QED
  BY <1>3, <1>4, <1>6, <1>7 DEF Init, TypeOK

LEMMA TypesNextAlter ==
  ASSUME TypeOK, AtStatement, NEW p \in Procs, pc[p] \in {"probe", "alter"}, NextAlter(p)
  PROVE  /\ pc' \in [Procs -> Booting \cup {"off", "serving", "done"}]
         /\ next' \in [Procs -> Nat \ {0}]
         /\ AtStatement'
         /\ \A q \in Procs \ {p} : pc'[q] = pc[q] /\ next'[q] = next[q]
         /\ \/ next[p] < 7 /\ pc'[p] = "probe" /\ next'[p] = next[p] + 1
            \/ next[p] = 7 /\ pc'[p] \in {"done", "route"} /\ next'[p] = 1
<1>1. next[p] \in 1 .. 7
  BY Lists DEF AtStatement
<1>2. /\ next' \in [Procs -> Nat \ {0}]
      /\ pc' \in [Procs -> Booting \cup {"off", "serving", "done"}]
  BY <1>1 DEF NextAlter, TypeOK, Booting
<1>3. /\ \A q \in Procs \ {p} : pc'[q] = pc[q] /\ next'[q] = next[q]
      /\ \/ next[p] < 7 /\ pc'[p] = "probe" /\ next'[p] = next[p] + 1
         \/ next[p] = 7 /\ pc'[p] \in {"done", "route"} /\ next'[p] = 1
  BY <1>1, Lists DEF NextAlter, TypeOK
<1> QED
  BY <1>1, <1>2, <1>3, Lists DEF AtStatement

LEMMA TypesStep ==
  ASSUME TypeOK, AtStatement, Absent, [Next]_vars
  PROVE  (TypeOK /\ AtStatement /\ Absent)'
<1> USE DEF TypeOK, AtStatement, Absent, db, Booting
<1>1. CASE UNCHANGED vars
  BY <1>1 DEF vars
<1>2. ASSUME NEW p \in Procs, Start(p) \/ Crash(p) \/ ReadModels(p)
      PROVE  (TypeOK /\ AtStatement /\ Absent)'
  <2>1. CASE Start(p)
    BY <2>1, Lists DEF Start
  <2>2. CASE Crash(p)
    BY <2>2, Lists DEF Crash
  <2>3. CASE ReadModels(p)
    <3>1. /\ pc' \in [Procs -> Booting \cup {"off", "serving", "done"}]
          /\ \A q \in Procs : pc'[q] = pc[q] \/ (q = p /\ pc'[q] \in {"drop", "create"} /\ next[q] = 1)
      BY <2>3 DEF ReadModels
    <3> QED
      BY <2>3, <3>1, Lists DEF ReadModels
  <2> QED
    BY <1>2, <2>1, <2>2, <2>3
<1>3. ASSUME NEW p \in Procs, ReadFails(p) \/ DropFails(p) \/ GeneralFails(p)
      PROVE  (TypeOK /\ AtStatement /\ Absent)'
  <2>1. CASE ReadFails(p)
    BY <2>1, Lists DEF ReadFails, Goto, Tainted
  <2>2. CASE DropFails(p)
    BY <2>2, Lists DEF DropFails, Goto, Tainted
  <2>3. CASE GeneralFails(p)
    BY <2>3, Lists DEF GeneralFails, Goto, Tainted
  <2> QED
    BY <1>3, <2>1, <2>2, <2>3
<1>4. ASSUME NEW p \in Procs, DropModels(p)
      PROVE  (TypeOK /\ AtStatement /\ Absent)'
  <2>1. tables' \subseteq Tables /\ rows' \subseteq tables' /\ columns' \in [Tables -> SUBSET Columns]
    BY <1>4 DEF DropModels
  <2>2. rival' \in [Procs -> BOOLEAN]
    BY <1>4 DEF DropModels
  <2>3. undercut' \in BOOLEAN
    BY <1>4 DEF DropModels
  <2>4. Absent'
    BY <1>4, TablesAre DEF DropModels
  <2> QED
    BY <1>4, <2>1, <2>2, <2>3, <2>4, Lists DEF DropModels, Goto
<1>5. ASSUME NEW p \in Procs, CreateTable(p)
      PROVE  (TypeOK /\ AtStatement /\ Absent)'
  <2>1. next[p] \in 1 .. 6 /\ Creates[next[p]] \in Tables
    BY <1>5, Lists DEF CreateTable, Goto, Tables
  <2>2. columns' \in [Tables -> SUBSET Columns]
    BY <1>5, <2>1, CreatedAre DEF CreateTable
  <2>3. /\ tables' \subseteq Tables /\ rows' \subseteq tables'
        /\ Absent' /\ undercut' \in BOOLEAN
    BY <1>5, <2>1 DEF CreateTable
  <2>4. /\ pc' \in [Procs -> Booting \cup {"off", "serving", "done"}]
        /\ next' \in [Procs -> Nat \ {0}]
        /\ AtStatement'
    BY <1>5, <2>1, Lists DEF CreateTable, Goto
  <2> QED
    BY <1>5, <2>2, <2>3, <2>4 DEF CreateTable
<1>6. ASSUME NEW p \in Procs, ProbeMissing(p)
      PROVE  (TypeOK /\ AtStatement /\ Absent)'
  BY <1>6, Lists DEF ProbeMissing, Goto
<1>7. ASSUME NEW p \in Procs, ProbeFound(p)
      PROVE  (TypeOK /\ AtStatement /\ Absent)'
  BY <1>7, TypesNextAlter DEF ProbeFound
<1>8. ASSUME NEW p \in Procs, AlterTable(p)
      PROVE  (TypeOK /\ AtStatement /\ Absent)'
  <2>1. Alters[next[p]].column \in Columns /\ Alters[next[p]].table \in Tables
    BY <1>8, AltersAre, TablesAre DEF AlterTable
  <2>2. columns' \in [Tables -> SUBSET Columns] /\ Absent'
    BY <1>8, <2>1 DEF AlterTable
  <2> QED
    BY <1>8, <2>2, TypesNextAlter DEF AlterTable
<1>9. ASSUME NEW p \in Procs, AlterFails(p)
      PROVE  (TypeOK /\ AtStatement /\ Absent)'
  BY <1>9, TypesNextAlter DEF AlterFails, Tainted
<1>10. ASSUME NEW p \in Procs, EnsureGeneral(p)
       PROVE  (TypeOK /\ AtStatement /\ Absent)'
  BY <1>10, Lists DEF EnsureGeneral, Goto
<1>11. ASSUME NEW p \in Procs, NEW t \in Tables, Insert(p, t)
       PROVE  (TypeOK /\ AtStatement /\ Absent)'
  BY <1>11 DEF Insert
<1> QED
  BY <1>1, <1>2, <1>3, <1>4, <1>5, <1>6, <1>7, <1>8, <1>9, <1>10, <1>11 DEF Next, Statement

THEOREM TypeCorrect == Spec => []TypeOK
<1>1. TypeOK /\ AtStatement /\ Absent /\ [Next]_vars => (TypeOK /\ AtStatement /\ Absent)'
  BY TypesStep
<1> QED
  BY <1>1, TypesInit, PTL DEF Spec

-----------------------------------------------------------------------------
(* A clean boot.                                                           *)

(* What a step leaves of the schema once the old layout is gone: all of it,*)
(* counting a second drop of models.                                       *)
Kept ==
  /\ \A t \in Tables : HasTable(t) => HasTable(t)'
  /\ \A i \in DOMAIN Alters : HasColumn(i) => HasColumn(i)'
  /\ "provider" \notin columns'["models"]
  /\ general => general'

Types == TypeOK /\ AtStatement /\ Absent

LEMMA KeptByStep ==
  ASSUME Types, [Next]_vars, "provider" \notin columns["models"]
  PROVE  Kept
<1> USE DEF Types, TypeOK, AtStatement, Absent, HasTable, HasColumn, Kept
<1>1. ASSUME UNCHANGED <<tables, columns, general, undercut>>
      PROVE  Kept
  BY <1>1
<1>2. ASSUME NEW p \in Procs, DropModels(p)
      PROVE  Kept
  <2>1. \A t \in Tables \ {"models"} : columns'[t] = columns[t] /\ (t \in tables => t \in tables')
    BY <1>2 DEF DropModels
  <2>2. "models" \in tables => undercut'
    BY <1>2 DEF DropModels
  <2>3. columns'["models"] = {} /\ general' = general /\ (undercut => undercut')
    BY <1>2, TablesAre DEF DropModels
  <2>4. \A i \in DOMAIN Alters : HasColumn(i) => HasColumn(i)'
    BY <2>1, <2>2, <2>3, AltersAre, TablesAre
  <2> QED
    BY <2>1, <2>2, <2>3, <2>4
<1>3. ASSUME NEW p \in Procs, CreateTable(p)
      PROVE  Kept
  <2> DEFINE t == Creates[next[p]]
  <2>1. t \in Tables
    BY <1>3, Lists DEF CreateTable, Goto, Tables
  <2>2. \A u \in Tables : u # t => columns'[u] = columns[u]
    BY <1>3, <2>1 DEF CreateTable
  <2>3. t \notin tables => columns[t] = {} /\ columns'[t] = Created[t]
    BY <1>3, <2>1 DEF CreateTable
  <2>4. t \in tables => columns' = columns
    BY <1>3 DEF CreateTable
  <2>5. /\ tables' = tables \cup {t} /\ general' = general
        /\ undercut' = (undercut /\ t # "models")
    BY <1>3 DEF CreateTable
  <2>6. "provider" \notin columns'["models"]
    BY <2>1, <2>2, <2>3, <2>4, CreatedAre, TablesAre
  <2>7. \A i \in DOMAIN Alters : HasColumn(i) => HasColumn(i)'
    <3> SUFFICES ASSUME NEW i \in DOMAIN Alters, HasColumn(i) PROVE HasColumn(i)'
      OBVIOUS
    <3>1. Alters[i].table \in Tables
      BY AltersAre, TablesAre
    <3>2. CASE Alters[i].column \in columns[Alters[i].table]
      BY <3>1, <3>2, <2>2, <2>3, <2>4
    <3>3. CASE Alters[i].table = "models" /\ undercut
      BY <3>3, <2>3, <2>5, AltersAre, CreatedAre
    <3> QED
      BY <3>2, <3>3
  <2>8. \A u \in Tables : HasTable(u) => HasTable(u)'
    BY <2>5
  <2> HIDE DEF t
  <2> QED
    BY <2>5, <2>6, <2>7, <2>8
<1>4. ASSUME NEW p \in Procs, AlterTable(p)
      PROVE  Kept
  <2>1. Alters[next[p]].table \in Tables /\ Alters[next[p]].column # "provider"
    BY <1>4, AltersAre, TablesAre DEF AlterTable
  <2>2. \A t \in Tables : columns[t] \subseteq columns'[t]
    BY <1>4, <2>1 DEF AlterTable
  <2>3. "provider" \notin columns'["models"]
    BY <1>4, <2>1, TablesAre DEF AlterTable
  <2>4. UNCHANGED <<tables, undercut, general>>
    BY <1>4 DEF AlterTable
  <2>5. \A i \in DOMAIN Alters : Alters[i].table \in Tables
    BY AltersAre, TablesAre
  <2> QED
    BY <2>2, <2>3, <2>4, <2>5
<1>5. ASSUME NEW p \in Procs, EnsureGeneral(p)
      PROVE  Kept
  <2>1. UNCHANGED <<tables, columns, undercut>> /\ (general => general')
    BY <1>5 DEF EnsureGeneral
  <2> QED
    BY <2>1
<1>6. CASE UNCHANGED vars
  BY <1>1, <1>6 DEF vars, db
<1>7. ASSUME NEW p \in Procs,
             \/ Start(p) \/ Crash(p) \/ ReadModels(p) \/ ReadFails(p) \/ DropFails(p)
             \/ ProbeMissing(p) \/ ProbeFound(p) \/ AlterFails(p) \/ GeneralFails(p)
             \/ \E t \in Tables : Insert(p, t)
      PROVE  UNCHANGED <<tables, columns, general, undercut>>
  BY <1>7 DEF Start, Crash, ReadModels, ReadFails, DropFails, ProbeMissing, ProbeFound,
              AlterFails, GeneralFails, Insert, db
<1> QED
  BY <1>1, <1>2, <1>3, <1>4, <1>5, <1>6, <1>7 DEF Next, Statement

(* The others stay where they are.                                         *)
LEMMA ProgressOfOthers ==
  ASSUME Types, [Next]_vars, NEW q \in Procs, Progress(q), pc'[q] = pc[q], next'[q] = next[q]
  PROVE  Progress(q)'
<1>1. CASE pc[q] \in {"create", "probe", "alter", "route", "serving"}
  <2>1. Kept
    BY <1>1, KeptByStep DEF Progress
  <2>2. \A i \in DOMAIN Creates : HasTable(Creates[i]) => HasTable(Creates[i])'
    BY <2>1 DEF Kept, Tables
  <2>3. pc[q] = "create" => \A i \in 1 .. next[q] - 1 : i \in DOMAIN Creates
    BY Lists DEF Types, TypeOK, AtStatement
  <2>4. pc[q] \in {"probe", "alter"} => \A i \in 1 .. next[q] - 1 : i \in DOMAIN Alters
    BY Lists DEF Types, TypeOK, AtStatement
  <2> QED
    BY <1>1, <2>1, <2>2, <2>3, <2>4 DEF Progress, Kept
<1>2. CASE pc[q] \notin {"create", "probe", "alter", "route", "serving"}
  BY <1>2 DEF Progress
<1> QED
  BY <1>1, <1>2

(* A step touches the place of one process only.                           *)
LEMMA OthersStay ==
  ASSUME Types, NEW p \in Procs, NEW q \in Procs, q # p,
         Start(p) \/ Crash(p) \/ Statement(p) \/ (\E t \in Tables : Insert(p, t))
  PROVE  pc'[q] = pc[q] /\ next'[q] = next[q] /\ clean'[q] = clean[q]
<1> USE DEF Types, TypeOK, Goto, Tainted, NextAlter
<1>1. CASE Start(p) \/ Crash(p) \/ ReadModels(p) \/ ReadFails(p)
  BY <1>1 DEF Start, Crash, ReadModels, ReadFails
<1>2. CASE DropModels(p) \/ DropFails(p) \/ CreateTable(p)
  BY <1>2 DEF DropModels, DropFails, CreateTable
<1>3. CASE ProbeMissing(p) \/ ProbeFound(p) \/ AlterTable(p) \/ AlterFails(p)
  BY <1>3 DEF ProbeMissing, ProbeFound, AlterTable, AlterFails
<1>4. CASE EnsureGeneral(p) \/ GeneralFails(p) \/ (\E t \in Tables : Insert(p, t))
  BY <1>4 DEF EnsureGeneral, GeneralFails, Insert
<1> QED
  BY <1>1, <1>2, <1>3, <1>4 DEF Statement

(* A statement that does not fail takes the process further.               *)
LEMMA ProgressOfOne ==
  ASSUME Types, NEW p \in Procs, clean[p] => Progress(p), clean'[p],
         Start(p) \/ Crash(p) \/ Statement(p) \/ (\E t \in Tables : Insert(p, t))
  PROVE  Progress(p)'
<1> USE DEF Types, TypeOK, AtStatement
<1>s. [Next]_vars
  BY DEF Next
<1>1. CASE Start(p) \/ Crash(p)
  <2>1. pc'[p] \in {"read", "off"}
    BY <1>1 DEF Start, Crash
  <2> QED
    BY <2>1 DEF Progress
<1>2. CASE ReadModels(p)
  <2>1. next'[p] = 1 /\ columns' = columns
    BY <1>2 DEF ReadModels, db
  <2>2. pc'[p] = "drop" \/ (pc'[p] = "create" /\ "provider" \notin columns["models"])
    BY <1>2 DEF ReadModels
  <2> QED
    BY <2>1, <2>2 DEF Progress
<1>3. CASE ReadFails(p) \/ DropFails(p) \/ AlterFails(p) \/ GeneralFails(p)
  <2>1. ~clean'[p]
    BY <1>3 DEF ReadFails, DropFails, AlterFails, GeneralFails, Tainted
  <2> QED
    BY <2>1
<1>4. CASE DropModels(p)
  <2>1. pc'[p] = "create" /\ next'[p] = 1 /\ columns'["models"] = {}
    BY <1>4, TablesAre DEF DropModels, Goto
  <2> QED
    BY <2>1 DEF Progress
<1>5. CASE CreateTable(p)
  <2>0. PICK n \in 1 .. 6 : n = next[p]
    BY <1>5, Lists DEF CreateTable, Goto
  <2>1. clean[p] /\ pc[p] = "create"
    BY <1>5 DEF CreateTable, Goto
  <2>2. Kept
    BY <1>s, <2>1, KeptByStep DEF Progress
  <2>3. \A i \in 1 .. 6 : Creates[i] \in Tables
    BY Lists DEF Tables
  <2>4. HasTable(Creates[n])'
    BY <1>5, <2>0 DEF CreateTable, HasTable
  <2>5. \A i \in 1 .. n : HasTable(Creates[i])'
    BY <2>0, <2>1, <2>2, <2>3, <2>4 DEF Kept, Progress
  <2>6. \/ n < 6 /\ pc'[p] = "create" /\ next'[p] = n + 1
        \/ n = 6 /\ pc'[p] = "probe" /\ next'[p] = 1
    BY <1>5, <2>0, <2>1, Lists DEF CreateTable, Goto
  <2>7. CASE n < 6
    BY <2>1, <2>2, <2>5, <2>6, <2>7 DEF Progress, Kept
  <2>8. CASE n = 6
    <3>1. \A t \in Tables : HasTable(t)'
      BY <2>5, <2>8, Lists DEF Tables
    <3> QED
      BY <2>2, <2>6, <2>8, <3>1 DEF Progress, Kept
  <2> QED
    BY <2>1, <2>7, <2>8
<1>6. CASE ProbeMissing(p)
  <2>1. /\ pc[p] = "probe" /\ pc'[p] = "alter" /\ next' = next /\ clean' = clean
        /\ UNCHANGED <<tables, columns, general, undercut>>
    BY <1>6 DEF ProbeMissing, Goto, db
  <2> QED
    BY <2>1 DEF Progress, HasTable, HasColumn
<1>7. CASE ProbeFound(p) \/ AlterTable(p)
  <2>0. PICK n \in 1 .. 7 : n = next[p]
    BY <1>7, Lists DEF ProbeFound, AlterTable
  <2>1. clean[p] /\ pc[p] \in {"probe", "alter"} /\ NextAlter(p)
    BY <1>7 DEF ProbeFound, AlterTable
  <2>2. Kept
    BY <1>s, <2>1, KeptByStep DEF Progress
  <2>3. HasColumn(n)'
    <3>1. CASE ProbeFound(p)
      BY <3>1, <2>0 DEF ProbeFound, HasColumn, db
    <3>2. CASE AlterTable(p)
      <4>1. Alters[n].table \in Tables
        BY AltersAre, TablesAre, Lists
      <4>2. HasTable(Alters[n].table)
        BY <2>0, <2>1, <4>1 DEF Progress
      <4>3. CASE Alters[n].table \in tables
        BY <2>0, <3>2, <4>1, <4>3 DEF AlterTable, HasColumn
      <4>4. CASE Alters[n].table \notin tables
        BY <2>0, <3>2, <4>2, <4>4 DEF AlterTable, HasColumn, HasTable
      <4> QED
        BY <4>3, <4>4
    <3> QED
      BY <1>7, <3>1, <3>2
  <2>4. \A i \in 1 .. n : HasColumn(i)'
    BY <2>0, <2>1, <2>2, <2>3, Lists DEF Kept, Progress
  <2>5. \/ n < 7 /\ pc'[p] = "probe" /\ next'[p] = n + 1
        \/ n = 7 /\ pc'[p] \in {"done", "route"} /\ next'[p] = 1
    BY <2>0, <2>1, TypesNextAlter
  <2>6. \A t \in Tables : HasTable(t)'
    BY <2>1, <2>2 DEF Kept, Progress
  <2>7. CASE n < 7
    BY <2>1, <2>2, <2>4, <2>5, <2>6, <2>7 DEF Progress, Kept
  <2>8. CASE n = 7
    BY <2>2, <2>4, <2>5, <2>6, <2>8, Lists DEF Progress, Kept
  <2> QED
    BY <2>1, <2>7, <2>8
<1>8. CASE EnsureGeneral(p)
  <2>1. /\ clean[p] /\ pc[p] = "route" /\ pc'[p] = "serving"
        /\ UNCHANGED <<tables, columns, undercut, next>>
    BY <1>8 DEF EnsureGeneral, Goto
  <2>2. "channels" \in tables
    BY <2>1, TablesAre DEF Progress, HasTable
  <2>3. general'
    BY <1>8, <2>2 DEF EnsureGeneral
  <2> QED
    BY <2>1, <2>3 DEF Progress, HasTable, HasColumn
<1>9. CASE \E t \in Tables : Insert(p, t)
  <2>1. UNCHANGED <<tables, columns, general, pc, next, clean, undercut>>
    BY <1>9 DEF Insert
  <2> QED
    BY <2>1 DEF Progress, HasTable, HasColumn
<1> QED
  BY <1>1, <1>2, <1>3, <1>4, <1>5, <1>6, <1>7, <1>8, <1>9 DEF Statement

LEMMA SoundStep ==
  ASSUME Types, Sound, [Next]_vars
  PROVE  Sound'
<1>1. CASE UNCHANGED vars
  BY <1>1 DEF vars, db, Sound, Progress, HasTable, HasColumn
<1>2. ASSUME NEW p \in Procs,
             Start(p) \/ Crash(p) \/ Statement(p) \/ (\E t \in Tables : Insert(p, t))
      PROVE  Sound'
  <2> SUFFICES ASSUME NEW q \in Procs, clean'[q] PROVE Progress(q)'
    BY DEF Sound
  <2>1. CASE q = p
    BY <1>2, <2>1, ProgressOfOne DEF Sound
  <2>2. CASE q # p
    BY <1>2, <2>2, OthersStay, ProgressOfOthers DEF Sound
  <2> QED
    BY <2>1, <2>2
<1> QED
  BY <1>1, <1>2 DEF Next


-----------------------------------------------------------------------------
(* Rows.                                                                   *)

LEMMA FreshInit == Init => FreshRead /\ Sound
BY DEF Init, FreshRead, Sound, Progress

LEMMA FreshStep ==
  ASSUME Types, FreshRead, [Next]_vars
  PROVE  FreshRead'
<1> USE DEF Types, TypeOK, FreshRead, Goto, Tainted, NextAlter
<1>1. CASE UNCHANGED vars
  BY <1>1 DEF vars, db
<1>2. ASSUME NEW p \in Procs, Start(p) \/ Crash(p) \/ ReadModels(p) \/ ReadFails(p) \/ DropFails(p)
      PROVE  FreshRead'
  BY <1>2 DEF Start, Crash, ReadModels, ReadFails, DropFails, db
<1>3. ASSUME NEW p \in Procs, DropModels(p)
      PROVE  FreshRead'
  <2> SUFFICES ASSUME NEW q \in Procs, pc'[q] = "drop", ~rival'[q]
               PROVE  "provider" \in columns'["models"]
    OBVIOUS
  <2>1. q # p /\ pc[q] = "drop"
    BY <1>3 DEF DropModels
  <2>2. ~rival[q] /\ "models" \notin tables
    BY <1>3, <2>1 DEF DropModels
  <2>3. "provider" \in columns["models"] /\ columns["models"] = {}
    BY <2>1, <2>2, TablesAre DEF Absent
  <2> QED
    BY <2>3
<1>4. ASSUME NEW p \in Procs, CreateTable(p)
      PROVE  FreshRead'
  <2>1. "provider" \in columns["models"] => columns'["models"] = columns["models"]
    BY <1>4, TablesAre DEF CreateTable, Absent
  <2>2. \A q \in Procs : pc'[q] = "drop" => pc[q] = "drop" /\ rival'[q] = rival[q]
    BY <1>4 DEF CreateTable
  <2> QED
    BY <2>1, <2>2
<1>5. ASSUME NEW p \in Procs, ProbeMissing(p) \/ ProbeFound(p) \/ AlterFails(p)
      PROVE  FreshRead'
  BY <1>5 DEF ProbeMissing, ProbeFound, AlterFails, db
<1>6. ASSUME NEW p \in Procs, AlterTable(p)
      PROVE  FreshRead'
  <2>1. columns["models"] \subseteq columns'["models"]
    BY <1>6, AltersAre, TablesAre DEF AlterTable
  <2>2. \A q \in Procs : pc'[q] = "drop" => pc[q] = "drop" /\ rival'[q] = rival[q]
    BY <1>6 DEF AlterTable
  <2> QED
    BY <2>1, <2>2
<1>7. ASSUME NEW p \in Procs,
             EnsureGeneral(p) \/ GeneralFails(p) \/ (\E t \in Tables : Insert(p, t))
      PROVE  FreshRead'
  BY <1>7 DEF EnsureGeneral, GeneralFails, Insert, db
<1> QED
  BY <1>1, <1>2, <1>3, <1>4, <1>5, <1>6, <1>7 DEF Next, Statement

LEMMA RowsStep ==
  ASSUME Types, FreshRead, [Next]_vars
  PROVE  \/ rows \subseteq rows'
         \/ /\ rows \ rows' = {"models"}
            /\ \/ "provider" \in columns["models"]
               \/ \E p \in Procs : DropModels(p) /\ rival[p]
<1>1. ASSUME NEW p \in Procs, DropModels(p)
      PROVE  \/ rows \subseteq rows'
             \/ /\ rows \ rows' = {"models"}
                /\ "provider" \in columns["models"] \/ rival[p]
  <2>1. rows' = rows \ {"models"} /\ pc[p] = "drop"
    BY <1>1 DEF DropModels, Goto
  <2>2. "provider" \in columns["models"] \/ rival[p]
    BY <2>1 DEF FreshRead
  <2> QED
    BY <2>1, <2>2
<1>2. CASE UNCHANGED vars
  BY <1>2 DEF vars, db
<1>3. ASSUME NEW p \in Procs,
             \/ Start(p) \/ Crash(p) \/ ReadModels(p) \/ ReadFails(p) \/ DropFails(p)
             \/ CreateTable(p) \/ ProbeMissing(p) \/ ProbeFound(p) \/ AlterTable(p)
             \/ AlterFails(p) \/ EnsureGeneral(p) \/ GeneralFails(p)
             \/ (\E t \in Tables : Insert(p, t))
      PROVE  rows \subseteq rows'
  BY <1>3 DEF Start, Crash, ReadModels, ReadFails, DropFails, CreateTable, ProbeMissing,
              ProbeFound, AlterTable, AlterFails, EnsureGeneral, GeneralFails, Insert, db
<1> QED
  BY <1>1, <1>2, <1>3 DEF Next, Statement

-----------------------------------------------------------------------------
(* The results.                                                            *)

THEOREM Inductive == Spec => []IInv
<1>1. Init => IInv
  BY TypesInit, FreshInit DEF IInv
<1>2. IInv /\ [Next]_vars => IInv'
  BY TypesStep, SoundStep, FreshStep DEF IInv, Types
<1> QED
  BY <1>1, <1>2, PTL DEF Spec

(* A boot without a failed statement leaves a portal that has all it needs,*)
(* whatever crashes and other boots it followed or met.                    *)
THEOREM CleanBootComplete == Spec => []ServesComplete
<1>1. IInv => ServesComplete
  <2> SUFFICES ASSUME IInv, NEW p \in Portals, pc[p] = "serving", clean[p]
               PROVE  /\ general
                      /\ \A t \in Tables \ {"models"} : t \in tables /\ Missing(t) = {}
                      /\ undercut \/ ("models" \in tables /\ Missing("models") = {})
                      /\ "provider" \notin columns["models"]
    BY DEF ServesComplete
  <2>1. Progress(p)
    BY DEF IInv, Sound, Procs
  <2>2. \A t \in Tables : t # "models" \/ ~undercut => t \in tables
    BY <2>1 DEF Progress, HasTable
  <2>3. \A t \in Tables : t # "models" \/ ~undercut => Missing(t) = {}
    BY <2>1, NamedAre DEF Progress, HasColumn, Missing
  <2> QED
    BY <2>1, <2>2, <2>3, TablesAre DEF Progress
<1> QED
  BY <1>1, Inductive, PTL

(* No boot loses rows, but models of the old layout, and those of the new  *)
(* one to a boot that another has overtaken.                               *)
THEOREM NoRowsLost == Spec => RowsKept
<1>1. IInv /\ [Next]_vars =>
        [rows \subseteq rows'
           \/ /\ rows \ rows' = {"models"}
              /\ \/ "provider" \in columns["models"]
                 \/ \E p \in Procs : DropModels(p) /\ rival[p]]_vars
  BY RowsStep DEF IInv, Types
<1> QED
  BY <1>1, Inductive, PTL DEF Spec, RowsKept

=============================================================================
