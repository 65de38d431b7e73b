--------------------------------- MODULE Store ---------------------------------
(***************************************************************************)
(* The database of src/horse_fish/store/db.py as processes open, migrate   *)
(* and fill it.  Every command of hf opens the one database file and calls *)
(* migrate(): executescript() commits each statement of a migration on its *)
(* own, and the version is recorded after the last one.  A process may die *)
(* between any two statements, and nothing keeps two of them from          *)
(* migrating at the same time.                                             *)
(*                                                                         *)
(* A table is its name, the columns the migrations are about, and whether  *)
(* it holds rows.                                                          *)
(***************************************************************************)
EXTENDS Naturals, Sequences

CONSTANT Proc   \* processes that use the database file

-----------------------------------------------------------------------------
(* MIGRATIONS *)

Table == {"agents", "runs", "subtasks", "mail", "lessons", "plans"}

\* A column that a table has or may lack; "base" stands for the columns the runs
\* and subtasks of before the dashboard lacked.
Column == {<<"runs", "base">>, <<"subtasks", "base">>, <<"agents", "run_id">>,
           <<"agents", "pgid">>, <<"runs", "plan_id">>}
Base(t) == {<<t, "base">>} \cap Column

Ensure(t)    == [op |-> "ensure", table |-> t, column |-> "base"]  \* IF NOT EXISTS
Create(t)    == [op |-> "create", table |-> t, column |-> "base"]
Drop(t)      == [op |-> "drop", table |-> t, column |-> "base"]    \* IF EXISTS
AddTo(t, c)  == [op |-> "add", table |-> t, column |-> c]

Script ==
  << << Ensure("agents"), Ensure("runs"), Ensure("subtasks"), Ensure("mail") >>,
     << Ensure("lessons") >>,
     << Drop("subtasks"), Drop("runs"), Create("runs"), Create("subtasks") >>,
     << AddTo("agents", "run_id"), AddTo("agents", "pgid") >>,
     << Ensure("plans"), AddTo("runs", "plan_id") >> >>

Version == DOMAIN Script
Last    == Len(Script)

-----------------------------------------------------------------------------

VARIABLES
  tables, columns,   \* the schema
  rows,              \* the tables that hold rows
  recorded,          \* schema_version
  pc, ver, step,     \* per process: the migration it runs and its next statement
  torn,              \* history: migrations interrupted after they added a column
  overlap            \* history: the migrations that were at work when another
                     \* process began to migrate, or that it began with

schema == <<tables, columns, rows>>
procs  == <<pc, ver, step>>
vars   == <<schema, recorded, procs, torn, overlap>>

Phase == {"closed", "migrating", "open"}

TypeOK ==
  /\ tables \subseteq Table /\ columns \subseteq Column /\ rows \subseteq tables
  /\ recorded \subseteq Version /\ torn \subseteq Version
  /\ pc \in [Proc -> Phase]
  /\ ver \in [Proc -> Version] /\ step \in [Proc -> Nat]
  /\ \A p \in Proc : step[p] \in 1 .. Len(Script[ver[p]]) + 1
  /\ overlap \subseteq Version

\* The columns and tables of a database at version v.
TablesAt(v) ==
  (IF v >= 1 THEN {"agents", "runs", "subtasks", "mail"} ELSE {})
    \cup (IF v >= 2 THEN {"lessons"} ELSE {}) \cup (IF v >= 5 THEN {"plans"} ELSE {})
ColumnsAt(v) ==
  (IF v >= 3 THEN {<<"runs", "base">>, <<"subtasks", "base">>} ELSE {})
    \cup (IF v >= 4 THEN {<<"agents", "run_id">>, <<"agents", "pgid">>} ELSE {})
    \cup (IF v >= 5 THEN {<<"runs", "plan_id">>} ELSE {})

\* Foreign keys: no subtask and no lesson without a run.
References == ("subtasks" \in rows \/ "lessons" \in rows) => "runs" \in rows

\* A new file, or what some earlier version of the program left: a database at one
\* of the versions, or the tables of before there were versions.
Init ==
  /\ \E v \in 0 .. Last :
       /\ recorded = 1 .. v
       /\ tables \in {TablesAt(v)} \cup (IF v = 0 THEN {TablesAt(1)} ELSE {})
       /\ columns \in {ColumnsAt(v)} \cup (IF v \in 1 .. 2 THEN {ColumnsAt(3)} ELSE {})
  /\ rows \in {{}, {"runs"}, {"runs", "subtasks"}, {"runs", "lessons"}}
  /\ rows \subseteq tables
  /\ pc = [p \in Proc |-> "closed"]
  /\ ver = [p \in Proc |-> 1] /\ step = [p \in Proc |-> 1]
  /\ torn = {} /\ overlap = {}

-----------------------------------------------------------------------------
(* Store() and migrate() *)

\* SELECT MAX(version)
Current == IF recorded = {} THEN 0 ELSE CHOOSE v \in recorded : \A w \in recorded : w <= v

\* A mutant of Goto: the end of the list is not noticed.
GotoBeyond(p, v) ==
  /\ pc' = [pc EXCEPT ![p] = IF v > Last + 1 THEN "open" ELSE "migrating"]
  /\ ver' = [ver EXCEPT ![p] = v]
  /\ step' = [step EXCEPT ![p] = 1]

Goto(p, v) ==
  /\ pc' = [pc EXCEPT ![p] = IF v > Last THEN "open" ELSE "migrating"]
  /\ ver' = [ver EXCEPT ![p] = IF v > Last THEN Last ELSE v]
  /\ step' = [step EXCEPT ![p] = 1]

\* A mutant of Open: the recorded version is run again.
OpenAgain(p) ==
  /\ pc[p] = "closed"
  /\ Goto(p, IF Current = 0 THEN 1 ELSE Current)
  /\ UNCHANGED <<schema, recorded, torn, overlap>>

Open(p) ==
  /\ pc[p] = "closed"
  /\ Goto(p, Current + 1)
  /\ LET others == {ver[q] : q \in {q \in Proc : pc[q] = "migrating"}} IN
     overlap' = IF Current = Last \/ others = {} THEN overlap
                ELSE overlap \cup others \cup {Current + 1}
  /\ UNCHANGED <<schema, recorded, torn>>

Statement(p) == Script[ver[p]][step[p]]

\* A mutant of Possible: a table is dropped only if it exists.
PossibleIfThere(s) ==
  /\ s.op = "create" => s.table \notin tables
  /\ s.op = "drop"   => s.table \in tables
  /\ s.op = "add"    => s.table \in tables /\ <<s.table, s.column>> \notin columns

\* SQLite refuses a table or a column that exists, and to drop the table of runs
\* while lessons (or subtasks) refer to its rows.
Possible(s) ==
  /\ s.op = "create" => s.table \notin tables
  /\ s.op = "drop"   => s.table # "runs" \/ rows \cap {"subtasks", "lessons"} = {}
  /\ s.op = "add"    => s.table \in tables /\ <<s.table, s.column>> \notin columns

Advance(p) == step' = [step EXCEPT ![p] = @ + 1] /\ UNCHANGED <<pc, ver, recorded, torn, overlap>>

AtStatement(p) == pc[p] = "migrating" /\ step[p] <= Len(Script[ver[p]])

Apply(p) ==
  /\ AtStatement(p) /\ Possible(Statement(p))
  /\ LET s == Statement(p) IN
       /\ tables' = IF s.op = "drop" THEN tables \ {s.table} ELSE tables \cup {s.table}
       /\ columns' =
            IF s.op = "drop" THEN {c \in columns : c[1] # s.table}
            ELSE IF s.op = "add" THEN columns \cup {<<s.table, s.column>>}
            ELSE IF s.table \in tables THEN columns ELSE columns \cup Base(s.table)
       /\ rows' = IF s.op = "drop" THEN rows \ {s.table} ELSE rows
  /\ Advance(p)

\* A mutant of Record: the version is recorded before its script has run.
RecordEarly(p) ==
  /\ pc[p] = "migrating" /\ step[p] = 1
  /\ ver[p] \notin recorded
  /\ recorded' = recorded \cup {ver[p]}
  /\ Goto(p, ver[p] + 1)
  /\ UNCHANGED <<schema, torn, overlap>>

\* The version is inserted and committed after the whole script.
Record(p) ==
  /\ pc[p] = "migrating" /\ step[p] = Len(Script[ver[p]]) + 1
  /\ ver[p] \notin recorded
  /\ recorded' = recorded \cup {ver[p]}
  /\ Goto(p, ver[p] + 1)
  /\ UNCHANGED <<schema, torn, overlap>>

\* The next statement, or the insertion of the version, is refused.
Refused(p) ==
  /\ pc[p] = "migrating"
  /\ IF step[p] <= Len(Script[ver[p]]) THEN ~Possible(Statement(p)) ELSE ver[p] \in recorded

Added(v) == \E k \in DOMAIN Script[v] :
              Script[v][k].op = "add" /\ <<Script[v][k].table, Script[v][k].column>> \in columns

Close(p) ==
  /\ pc' = [pc EXCEPT ![p] = "closed"]
  /\ ver' = [ver EXCEPT ![p] = 1] /\ step' = [step EXCEPT ![p] = 1]
  /\ torn' = IF pc[p] = "migrating" /\ Added(ver[p]) THEN torn \cup {ver[p]} ELSE torn
  /\ UNCHANGED <<schema, recorded, overlap>>

\* migrate() raises out of the command.
Raise(p) == Refused(p) /\ Close(p)

\* The command ends, its process dies, or the database stays locked for too long.
Leave(p) == pc[p] # "closed" /\ Close(p)

-----------------------------------------------------------------------------

\* A command inserts a row; foreign_keys=ON.
Insert(p, t) ==
  /\ pc[p] = "open" /\ t \in tables
  /\ rows' = rows \cup {t}
  /\ References'
  /\ UNCHANGED <<tables, columns, recorded, procs, torn, overlap>>

Next ==
  \E p \in Proc :
    \/ Open(p) \/ Apply(p) \/ Record(p) \/ Raise(p) \/ Leave(p)
    \/ \E t \in Table : Insert(p, t)

Spec == Init /\ [][Next]_vars
=============================================================================
