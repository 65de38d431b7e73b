------------------------------ MODULE StoreProofs ------------------------------
(***************************************************************************)
(* Proofs, for every number of processes, of the safety of Store:          *)
(* SchemaInv is an inductive invariant, and what the runs check follows    *)
(* from it.                                                                *)
(***************************************************************************)
EXTENDS StoreProperties, TLAPS

-----------------------------------------------------------------------------
(* The script, and what its statements do *)

\* The five migrations have these lengths.
LEMMA ScriptShape ==
  /\ Last = 5 /\ Version = 1 .. 5
  /\ Len(Script[1]) = 4 /\ Len(Script[2]) = 1 /\ Len(Script[3]) = 4
  /\ Len(Script[4]) = 2 /\ Len(Script[5]) = 2
  BY DEF Last, Version, Script, Ensure, Create, Drop, AddTo

\* Only the tables of runs and subtasks have a column that migration 3 adds.
LEMMA BaseColumns ==
  /\ Base("agents") = {} /\ Base("mail") = {} /\ Base("lessons") = {} /\ Base("plans") = {}
  /\ Base("runs") = {<<"runs", "base">>} /\ Base("subtasks") = {<<"subtasks", "base">>}
  BY DEF Base, Column

\* The statements of the migrations, in order.
LEMMA Statements ==
  /\ Script[1][1] = Ensure("agents") /\ Script[1][2] = Ensure("runs")
  /\ Script[1][3] = Ensure("subtasks") /\ Script[1][4] = Ensure("mail")
  /\ Script[2][1] = Ensure("lessons")
  /\ Script[3][1] = Drop("subtasks") /\ Script[3][2] = Drop("runs")
  /\ Script[3][3] = Create("runs") /\ Script[3][4] = Create("subtasks")
  /\ Script[4][1] = AddTo("agents", "run_id") /\ Script[4][2] = AddTo("agents", "pgid")
  /\ Script[5][1] = Ensure("plans") /\ Script[5][2] = AddTo("runs", "plan_id")
  BY DEF Script

Ensures(t) ==
  /\ tables' = tables \cup {t} /\ rows' = rows
  /\ columns \subseteq columns' /\ columns' \subseteq columns \cup Base(t)
Creates(t) ==
  /\ t \notin tables
  /\ tables' = tables \cup {t} /\ rows' = rows /\ columns' = columns \cup Base(t)
Drops(t) ==
  /\ tables' = tables \ {t} /\ rows' = rows \ {t}
  /\ columns' = {c \in columns : c[1] # t}
Adds(t, c) ==
  /\ t \in tables
  /\ tables' = tables /\ rows' = rows /\ columns' = columns \cup {<<t, c>>}

\* What applying each kind of statement does.
LEMMA Effects ==
  ASSUME NEW p \in Proc, Apply(p), NEW t, NEW c
  PROVE  /\ Statement(p) = Ensure(t) => Ensures(t)
         /\ Statement(p) = Create(t) => Creates(t)
         /\ Statement(p) = Drop(t) => Drops(t)
         /\ Statement(p) = AddTo(t, c) => Adds(t, c)
<1>1. Statement(p) = Ensure(t) => Ensures(t)
  BY DEF Apply, Ensure, Ensures
<1>2. Statement(p) = Create(t) => Creates(t)
  BY DEF Apply, Possible, Create, Creates
<1>3. Statement(p) = Drop(t) => Drops(t)
  BY DEF Apply, Drop, Drops
<1>4. Statement(p) = AddTo(t, c) => Adds(t, c)
  BY DEF Apply, Possible, AddTo, Adds
<1> QED
  BY <1>1, <1>2, <1>3, <1>4

\* Which statement a process is at, and what applying it does.
LEMMA ApplyCases ==
  ASSUME TypeOK, NEW p \in Proc, Apply(p)
  PROVE  \/ ver[p] = 1 /\ step[p] = 1 /\ Ensures("agents")
         \/ ver[p] = 1 /\ step[p] = 2 /\ Ensures("runs")
         \/ ver[p] = 1 /\ step[p] = 3 /\ Ensures("subtasks")
         \/ ver[p] = 1 /\ step[p] = 4 /\ Ensures("mail")
         \/ ver[p] = 2 /\ step[p] = 1 /\ Ensures("lessons")
         \/ ver[p] = 3 /\ step[p] = 1 /\ Drops("subtasks")
         \/ ver[p] = 3 /\ step[p] = 2 /\ Drops("runs")
         \/ ver[p] = 3 /\ step[p] = 3 /\ Creates("runs")
         \/ ver[p] = 3 /\ step[p] = 4 /\ Creates("subtasks")
         \/ ver[p] = 4 /\ step[p] = 1 /\ Adds("agents", "run_id")
         \/ ver[p] = 4 /\ step[p] = 2 /\ Adds("agents", "pgid")
         \/ ver[p] = 5 /\ step[p] = 1 /\ Ensures("plans")
         \/ ver[p] = 5 /\ step[p] = 2 /\ Adds("runs", "plan_id")
<1>1. ver[p] \in 1 .. 5 /\ step[p] \in 1 .. Len(Script[ver[p]])
  BY ScriptShape DEF TypeOK, Apply, AtStatement
<1>2. CASE ver[p] = 1
  BY <1>1, <1>2, ScriptShape, Statements, Effects DEF Statement
<1>3. CASE ver[p] = 2
  BY <1>1, <1>3, ScriptShape, Statements, Effects DEF Statement
<1>4. CASE ver[p] = 3
  BY <1>1, <1>4, ScriptShape, Statements, Effects DEF Statement
<1>5. CASE ver[p] = 4
  BY <1>1, <1>5, ScriptShape, Statements, Effects DEF Statement
<1>6. CASE ver[p] = 5
  BY <1>1, <1>6, ScriptShape, Statements, Effects DEF Statement
<1> QED
  BY <1>1, <1>2, <1>3, <1>4, <1>5, <1>6

\* Only migration 3 takes anything away, and only the tables it creates anew.
LEMMA ApplyKeeps ==
  ASSUME TypeOK, NEW p \in Proc, Apply(p)
  PROVE  /\ pc[p] = "migrating" /\ step' = [step EXCEPT ![p] = @ + 1]
         /\ UNCHANGED <<pc, ver, recorded, torn, overlap>>
         /\ ver[p] # 3 => tables \subseteq tables' /\ columns \subseteq columns' /\ rows' = rows
         /\ tables \ {"runs", "subtasks"} \subseteq tables'
         /\ \A c \in columns : c[1] \notin {"runs", "subtasks"} => c \in columns'
<1>1. pc[p] = "migrating" /\ step' = [step EXCEPT ![p] = @ + 1]
      /\ UNCHANGED <<pc, ver, recorded, torn, overlap>>
  BY DEF Apply, Advance, AtStatement
<1>2. ver[p] # 3 => tables \subseteq tables' /\ columns \subseteq columns' /\ rows' = rows
  BY ApplyCases DEF Ensures, Adds
<1>3. /\ tables \ {"runs", "subtasks"} \subseteq tables'
      /\ \A c \in columns : c[1] \notin {"runs", "subtasks"} => c \in columns'
  BY ApplyCases DEF Ensures, Adds, Creates, Drops
<1> QED
  BY <1>1, <1>2, <1>3

-----------------------------------------------------------------------------
(* Type correctness *)

\* The version a process goes to is one of the list, and its first statement.
LEMMA GotoTyped ==
  ASSUME TypeOK, NEW p \in Proc, NEW v \in 1 .. 6, Goto(p, v)
  PROVE  /\ pc' \in [Proc -> Phase] /\ ver' \in [Proc -> Version]
         /\ step' \in [Proc -> Nat]
         /\ \A q \in Proc : step'[q] \in 1 .. Len(Script[ver'[q]]) + 1
         /\ \A q \in Proc \ {p} : pc'[q] = pc[q] /\ ver'[q] = ver[q] /\ step'[q] = step[q]
         /\ pc'[p] = (IF v = 6 THEN "open" ELSE "migrating")
         /\ v < 6 => ver'[p] = v
         /\ step'[p] = 1
<1>1. v \in Nat /\ Last = 5
  BY ScriptShape
<1>2. /\ pc' \in [Proc -> Phase] /\ ver' \in [Proc -> Version]
      /\ \A q \in Proc \ {p} : pc'[q] = pc[q] /\ ver'[q] = ver[q]
      /\ pc'[p] = (IF v = 6 THEN "open" ELSE "migrating")
      /\ v < 6 => ver'[p] = v
  BY <1>1, ScriptShape DEF Goto, TypeOK, Phase
<1>3. /\ step' \in [Proc -> Nat] /\ step'[p] = 1
      /\ \A q \in Proc \ {p} : step'[q] = step[q]
  BY DEF Goto, TypeOK
<1>4. \A w \in Version : 1 \in 1 .. Len(Script[w]) + 1
  BY ScriptShape
<1>5. \A q \in Proc : step'[q] \in 1 .. Len(Script[ver'[q]]) + 1
  BY <1>2, <1>3, <1>4 DEF TypeOK
<1> QED
  BY <1>2, <1>3, <1>5

\* The version after the recorded ones.
LEMMA CurrentIsLast ==
  ASSUME TypeOK, PrefixInv
  PROVE  /\ Current \in 0 .. 5
         /\ 1 .. Current \subseteq recorded /\ \A v \in recorded : v <= Current
<1>1. recorded \subseteq 1 .. 5
  BY ScriptShape DEF TypeOK
<1>2. CASE recorded = {}
  BY <1>2 DEF Current
<1>3. CASE recorded # {}
  <2>1. \E v \in recorded : \A w \in recorded : w <= v
    <3>1. PICK u \in recorded : TRUE
      BY <1>3
    <3>2. CASE 5 \in recorded
      BY <3>2, <1>1
    <3>3. CASE 5 \notin recorded /\ 4 \in recorded
      BY <3>3, <1>1
    <3>4. CASE 5 \notin recorded /\ 4 \notin recorded /\ 3 \in recorded
      BY <3>4, <1>1
    <3>5. CASE 5 \notin recorded /\ 4 \notin recorded /\ 3 \notin recorded /\ 2 \in recorded
      BY <3>5, <1>1
    <3>6. CASE 5 \notin recorded /\ 4 \notin recorded /\ 3 \notin recorded /\ 2 \notin recorded
      BY <3>6, <3>1, <1>1
    <3> QED
      BY <3>2, <3>3, <3>4, <3>5, <3>6
  <2>2. Current \in recorded /\ \A w \in recorded : w <= Current
    BY <2>1, <1>3 DEF Current
  <2> QED
    BY <2>2, <1>1 DEF PrefixInv
<1> QED
  BY <1>2, <1>3

\* Every step keeps the types.
LEMMA TypeKept ==
  ASSUME SchemaInv, [Next]_vars
  PROVE  TypeOK'
<1> USE DEF SchemaInv
<1>1. ASSUME NEW p \in Proc, Open(p) PROVE TypeOK'
  <2>1. Goto(p, Current + 1) /\ Current + 1 \in 1 .. 6 /\ UNCHANGED <<schema, recorded, torn>>
    BY <1>1, CurrentIsLast DEF Open
  <2>2. overlap' \subseteq Version
    <3>1. Current # Last => Current + 1 \in Version
      BY CurrentIsLast, ScriptShape
    <3> QED
      BY <1>1, <3>1 DEF Open, TypeOK
  <2> QED
    BY <2>1, <2>2, GotoTyped DEF TypeOK, schema
<1>2. ASSUME NEW p \in Proc, Apply(p) PROVE TypeOK'
  <2>1. tables' \subseteq Table /\ columns' \subseteq Column /\ rows' \subseteq tables'
    BY <1>2, ApplyCases, BaseColumns DEF TypeOK, Ensures, Creates, Drops, Adds, Table, Column
  <2>2. step' \in [Proc -> Nat] /\ \A q \in Proc : step'[q] \in 1 .. Len(Script[ver[q]]) + 1
    <3>1. step[p] <= Len(Script[ver[p]])
      BY <1>2 DEF Apply, AtStatement
    <3>2. Len(Script[ver[p]]) \in Nat
      BY ScriptShape DEF TypeOK
    <3> QED
      BY <1>2, <3>1, <3>2, ApplyKeeps DEF TypeOK
  <2> QED
    BY <1>2, <2>1, <2>2, ApplyKeeps DEF TypeOK
<1>3. ASSUME NEW p \in Proc, Record(p) PROVE TypeOK'
  <2>1. Goto(p, ver[p] + 1) /\ ver[p] \in Version /\ ver[p] + 1 \in 1 .. 6
    BY <1>3, ScriptShape DEF Record, TypeOK
  <2> QED
    BY <1>3, <2>1, GotoTyped DEF Record, TypeOK, schema
<1>4. ASSUME NEW p \in Proc, Close(p) PROVE TypeOK'
  <2>1. 1 \in Version /\ \A w \in Version : 1 \in 1 .. Len(Script[w]) + 1
    BY ScriptShape
  <2> QED
    BY <1>4, <2>1 DEF Close, TypeOK, Phase, schema
<1>5. ASSUME NEW p \in Proc, NEW t \in Table, Insert(p, t) PROVE TypeOK'
  BY <1>5 DEF Insert, TypeOK, procs
<1>6. CASE UNCHANGED vars
  BY <1>6 DEF vars, schema, procs, TypeOK
<1> QED
  BY <1>1, <1>2, <1>3, <1>4, <1>5, <1>6 DEF Next, Raise, Leave

-----------------------------------------------------------------------------
(* Versions in order, and who migrates alone *)

\* Opening, applying and recording: what they do to the versions at work.
LEMMA OpenVersion ==
  ASSUME TypeOK, PrefixInv, NEW p \in Proc, Open(p)
  PROVE  /\ pc[p] = "closed"
         /\ \A q \in Proc \ {p} : pc'[q] = pc[q] /\ ver'[q] = ver[q] /\ step'[q] = step[q]
         /\ pc'[p] \in {"open", "migrating"} /\ step'[p] = 1
         /\ pc'[p] = "migrating" <=> Current # 5
         /\ pc'[p] = "migrating" => ver'[p] = Current + 1
         /\ UNCHANGED <<tables, columns, rows, recorded, torn>>
<1>1. Goto(p, Current + 1) /\ Current + 1 \in 1 .. 6
  BY CurrentIsLast DEF Open
<1>2. Current + 1 = 6 <=> Current = 5
  BY CurrentIsLast
<1> QED
  BY <1>1, <1>2, CurrentIsLast, GotoTyped DEF Open, schema

\* Recording takes its process to the next version and touches no other process.
LEMMA RecordVersion ==
  ASSUME TypeOK, NEW p \in Proc, Record(p)
  PROVE  /\ pc[p] = "migrating" /\ step[p] = Len(Script[ver[p]]) + 1
         /\ ver[p] \in 1 .. 5 /\ ver[p] \notin recorded /\ recorded' = recorded \cup {ver[p]}
         /\ \A q \in Proc \ {p} : pc'[q] = pc[q] /\ ver'[q] = ver[q] /\ step'[q] = step[q]
         /\ pc'[p] \in {"open", "migrating"} /\ step'[p] = 1
         /\ pc'[p] = "migrating" => ver'[p] = ver[p] + 1 /\ ver[p] < 5
         /\ UNCHANGED <<tables, columns, rows, torn, overlap>>
<1>1. Goto(p, ver[p] + 1) /\ ver[p] \in 1 .. 5 /\ ver[p] + 1 \in 1 .. 6
  BY ScriptShape DEF Record, TypeOK
<1> QED
  BY <1>1, GotoTyped DEF Record, schema

\* Raising and leaving close one process; nothing that others rely on changes.
LEMMA CloseVersion ==
  ASSUME TypeOK, NEW p \in Proc, Close(p)
  PROVE  /\ pc' = [pc EXCEPT ![p] = "closed"] /\ Migrating' = Migrating \ {p}
         /\ \A q \in Migrating' : ver'[q] = ver[q] /\ step'[q] = step[q]
         /\ UNCHANGED <<tables, columns, rows, recorded, overlap>>
  BY DEF Close, TypeOK, schema, Migrating

\* Every step keeps PrefixInv: only the version after recorded ones is recorded.
LEMMA PrefixKept ==
  ASSUME SchemaInv, [Next]_vars
  PROVE  PrefixInv'
<1> USE DEF SchemaInv
<1>0. recorded \subseteq 1 .. 5 /\ \A p \in Proc : ver[p] \in 1 .. 5
  BY ScriptShape DEF TypeOK
<1>1. ASSUME NEW p \in Proc, Open(p) PROVE PrefixInv'
  <2>1. Current + 1 - 1 = Current
    BY CurrentIsLast
  <2> QED
    BY <1>1, <2>1, OpenVersion, CurrentIsLast DEF PrefixInv, Migrating
<1>2. ASSUME NEW p \in Proc, Apply(p) PROVE PrefixInv'
  BY <1>2, ApplyKeeps DEF PrefixInv, Migrating
<1>3. ASSUME NEW p \in Proc, Record(p) PROVE PrefixInv'
  <2>1. 1 .. ver[p] - 1 \subseteq recorded /\ 1 .. ver[p] \subseteq recorded'
    BY <1>3, <1>0, RecordVersion DEF PrefixInv, Migrating
  <2>2. ver[p] + 1 - 1 = ver[p]
    BY <1>0
  <2> QED
    BY <1>3, <2>1, <2>2, RecordVersion DEF PrefixInv, Migrating
<1>4. ASSUME NEW p \in Proc, Close(p) PROVE PrefixInv'
  BY <1>4, CloseVersion DEF PrefixInv
<1>5. ASSUME NEW p \in Proc, NEW t \in Table, Insert(p, t) PROVE PrefixInv'
  BY <1>5 DEF Insert, procs, PrefixInv, Migrating
<1>6. CASE UNCHANGED vars
  BY <1>6 DEF vars, procs, PrefixInv, Migrating
<1> QED
  BY <1>1, <1>2, <1>3, <1>4, <1>5, <1>6 DEF Next, Raise, Leave

\* Every step keeps AloneInv: whoever begins to migrate beside others adds to overlap.
LEMMA AloneKept ==
  ASSUME SchemaInv, [Next]_vars
  PROVE  AloneInv'
<1> USE DEF SchemaInv
<1>0. recorded \subseteq 1 .. 5 /\ overlap \subseteq 1 .. 5 /\ \A p \in Proc : ver[p] \in 1 .. 5
  BY ScriptShape DEF TypeOK
<1>1. ASSUME NEW p \in Proc, Open(p) PROVE AloneInv'
  <2>1. /\ overlap \subseteq overlap'
        /\ \A q \in Migrating : Current # 5 => ver[q] \in overlap' /\ Current + 1 \in overlap'
    BY <1>1, ScriptShape DEF Open, Migrating
  <2>2. p \notin Migrating /\ Migrating' \subseteq Migrating \cup {p}
    BY <1>1, OpenVersion DEF Migrating
  <2>3. Undisturbed' => Undisturbed
    BY <2>1 DEF Undisturbed
  <2>4. ASSUME NEW q \in Migrating', NEW r \in Migrating', q # r
        PROVE  overlap' # {} /\ (Undisturbed' => ver'[q] > 3)
    <3>1. CASE q # p /\ r # p
      BY <3>1, <2>1, <2>2, <2>3, <2>4, <1>0, <1>1, OpenVersion DEF AloneInv, Migrating
    <3>2. CASE q = p
      <4>1. r \in Migrating /\ Current # 5 /\ ver'[p] = Current + 1 /\ Current \in 0 .. 5
        BY <3>2, <2>2, <2>4, <1>1, OpenVersion, CurrentIsLast DEF Migrating
      <4> QED
        BY <3>2, <4>1, <2>1 DEF Undisturbed
    <3>3. CASE r = p
      <4>1. q \in Migrating /\ Current # 5 /\ ver'[q] = ver[q]
        BY <3>3, <2>2, <2>4, <1>1, OpenVersion, CurrentIsLast DEF Migrating
      <4> QED
        BY <3>3, <4>1, <2>1, <1>0 DEF Undisturbed, Migrating
    <3> QED
      BY <3>1, <3>2, <3>3, <2>4
  <2>5. ASSUME NEW q \in Migrating', overlap' = {} \/ (Undisturbed' /\ ver'[q] <= 3)
        PROVE  ver'[q] \notin recorded'
    <3>1. CASE q # p
      BY <3>1, <2>1, <2>2, <2>3, <2>5, <1>0, <1>1, OpenVersion DEF AloneInv, Migrating
    <3>2. CASE q = p
      <4>1. ver'[p] = Current + 1 /\ recorded' = recorded
        BY <3>2, <2>5, <1>1, OpenVersion DEF Migrating
      <4>2. Current \in 0 .. 5 /\ \A v \in recorded : v <= Current
        BY CurrentIsLast
      <4>3. Current + 1 \notin recorded
        BY <4>2, <1>0
      <4> QED
        BY <3>2, <4>1, <4>3
    <3> QED
      BY <3>1, <3>2
  <2> QED
    BY <2>4, <2>5 DEF AloneInv
<1>2. ASSUME NEW p \in Proc, Apply(p) PROVE AloneInv'
  BY <1>2, ApplyKeeps DEF AloneInv, Undisturbed, Migrating
<1>3. ASSUME NEW p \in Proc, Record(p) PROVE AloneInv'
  <2>1. p \in Migrating /\ Migrating' \subseteq Migrating /\ (Undisturbed' <=> Undisturbed)
        /\ overlap' = overlap
    BY <1>3, RecordVersion DEF Migrating, Undisturbed
  <2>2. ver[p] + 1 \notin recorded
    BY <1>0, <1>3, RecordVersion DEF PrefixInv
  <2>3. ASSUME NEW q \in Migrating', NEW r \in Migrating', q # r
        PROVE  overlap # {} /\ (Undisturbed => ver'[q] > 3)
    <3>1. ver'[q] = ver[q] \/ ver'[q] = ver[q] + 1
      BY <2>1, <2>3, <1>3, RecordVersion DEF Migrating
    <3>2. overlap # {} /\ (Undisturbed => ver[q] > 3)
      BY <2>1, <2>3 DEF AloneInv
    <3> QED
      BY <3>1, <3>2, <1>0, <2>1 DEF Migrating
  <2>4. ASSUME NEW q \in Migrating', overlap = {} \/ (Undisturbed /\ ver'[q] <= 3)
        PROVE  ver'[q] \notin recorded'
    <3>1. CASE q = p
      BY <3>1, <2>2, <1>0, <1>3, RecordVersion DEF Migrating
    <3>2. CASE q # p
      <4>1. q \in Migrating /\ ver'[q] = ver[q]
        BY <3>2, <2>1, <1>3, RecordVersion DEF Migrating
      <4>2. overlap # {} /\ (Undisturbed => ver[q] > 3)
        BY <4>1, <3>2, <2>1 DEF AloneInv
      <4>3. ver[q] \in Nat
        BY <4>1, <1>0 DEF Migrating
      <4>4. ~(Undisturbed /\ ver[q] <= 3)
        BY <4>2, <4>3
      <4> QED
        BY <4>1, <4>2, <4>4, <2>4
    <3> QED
      BY <3>1, <3>2
  <2> QED
    BY <2>1, <2>3, <2>4 DEF AloneInv
<1>4. ASSUME NEW p \in Proc, Close(p) PROVE AloneInv'
  BY <1>4, CloseVersion DEF AloneInv, Undisturbed
<1>5. ASSUME NEW p \in Proc, NEW t \in Table, Insert(p, t) PROVE AloneInv'
  BY <1>5 DEF Insert, procs, AloneInv, Undisturbed, Migrating
<1>6. CASE UNCHANGED vars
  BY <1>6 DEF vars, procs, AloneInv, Undisturbed, Migrating
<1> QED
  BY <1>1, <1>2, <1>3, <1>4, <1>5, <1>6 DEF Next, Raise, Leave

-----------------------------------------------------------------------------
(* What the scripts have done *)

\* Every step keeps DoneInv: nobody undoes what a script has done, as long as migration 3
\* is run by one process alone.
LEMMA DoneKept ==
  ASSUME SchemaInv, [Next]_vars
  PROVE  DoneInv'
<1> USE DEF SchemaInv
<1>0. \A p \in Proc : ver[p] \in 1 .. 5 /\ step[p] \in Nat
  BY ScriptShape DEF TypeOK
<1>1. ASSUME NEW p \in Proc, Open(p) PROVE DoneInv'
  <2>1. Undisturbed' => Undisturbed
    BY <1>1 DEF Open, Undisturbed
  <2> QED
    BY <1>1, <2>1, OpenVersion DEF DoneInv, Done, Migrating
<1>2. ASSUME NEW p \in Proc, Apply(p) PROVE DoneInv'
  <2>1. UNCHANGED <<Migrating, Undisturbed>> /\ p \in Migrating
    BY <1>2, ApplyKeeps DEF Migrating, Undisturbed
  <2>2. ASSUME NEW q \in Migrating, q # p PROVE Done(q)'
    <3>1. ver'[q] = ver[q] /\ step'[q] = step[q] /\ q \in Proc /\ Done(q)
      BY <1>2, <2>2, ApplyKeeps DEF Migrating, TypeOK, DoneInv
    <3>2. Undisturbed => ver[p] # 3
      BY <2>1, <2>2, <1>0 DEF AloneInv
    <3>3. /\ tables \ {"runs", "subtasks"} \subseteq tables'
          /\ \A c \in columns : c[1] \notin {"runs", "subtasks"} => c \in columns'
          /\ Undisturbed => tables \subseteq tables' /\ columns \subseteq columns'
      BY <1>2, <3>2, ApplyKeeps
    <3> QED
      BY <3>1, <3>3, <2>1 DEF Done
  <2>3. Done(p)'
    <3>1. ver'[p] = ver[p] /\ step'[p] = step[p] + 1 /\ step[p] \in Nat /\ Done(p)
      BY <1>2, <2>1, <1>0, ApplyKeeps DEF TypeOK, DoneInv
    <3>2. CASE ver[p] # 3
      <4>1. tables \subseteq tables' /\ columns \subseteq columns'
        BY <1>2, <3>2, ApplyKeeps
      <4> QED
        BY <1>2, <3>1, <3>2, <4>1, <2>1, ApplyCases DEF Done, Ensures, Adds
    <3>3. CASE ver[p] = 3
      BY <1>2, <3>1, <3>3, <2>1, ApplyCases, BaseColumns DEF Done, Creates, Drops
    <3> QED
      BY <3>2, <3>3
  <2> QED
    BY <2>1, <2>2, <2>3 DEF DoneInv
<1>3. ASSUME NEW p \in Proc, Record(p) PROVE DoneInv'
  BY <1>3, RecordVersion DEF DoneInv, Done, Migrating, Undisturbed
<1>4. ASSUME NEW p \in Proc, Close(p) PROVE DoneInv'
  BY <1>4, CloseVersion DEF DoneInv, Done, Undisturbed
<1>5. ASSUME NEW p \in Proc, NEW t \in Table, Insert(p, t) PROVE DoneInv'
  BY <1>5 DEF Insert, procs, DoneInv, Done, Undisturbed, Migrating
<1>6. CASE UNCHANGED vars
  BY <1>6 DEF vars, procs, schema, DoneInv, Done, Undisturbed, Migrating
<1> QED
  BY <1>1, <1>2, <1>3, <1>4, <1>5, <1>6 DEF Next, Raise, Leave

\* Every step keeps KeptInv: migrations 1 and 2 are recorded after their tables exist.
LEMMA KeptKept ==
  ASSUME SchemaInv, [Next]_vars
  PROVE  KeptInv'
<1> USE DEF SchemaInv
<1>1. ASSUME NEW p \in Proc, Open(p) PROVE KeptInv'
  BY <1>1, OpenVersion DEF KeptInv
<1>2. ASSUME NEW p \in Proc, Apply(p) PROVE KeptInv'
  BY <1>2, ApplyKeeps DEF KeptInv
<1>3. ASSUME NEW p \in Proc, Record(p) PROVE KeptInv'
  <2>1. p \in Migrating /\ Done(p)
    BY <1>3, RecordVersion DEF DoneInv, Migrating
  <2>3. step[p] = Len(Script[ver[p]]) + 1
    BY <1>3 DEF Record
  <2>4. ASSUME ver[p] = 1 PROVE step[p] = 5
    <3>1. step[p] = Len(Script[1]) + 1
      BY <2>3, <2>4
    <3> QED
      BY <3>1, ScriptShape
  <2>5. ASSUME ver[p] = 2 PROVE step[p] = 2
    <3>1. step[p] = Len(Script[2]) + 1
      BY <2>3, <2>5
    <3> QED
      BY <3>1, ScriptShape
  <2>6. ver[p] = 1 => {"agents", "mail"} \subseteq tables
    BY <2>4, <2>1 DEF Done
  <2>7. ver[p] = 2 => "lessons" \in tables
    BY <2>5, <2>1 DEF Done
  <2> QED
    BY <1>3, <2>6, <2>7, RecordVersion DEF KeptInv
<1>4. ASSUME NEW p \in Proc, Close(p) PROVE KeptInv'
  BY <1>4, CloseVersion DEF KeptInv
<1>5. ASSUME NEW p \in Proc, NEW t \in Table, Insert(p, t) PROVE KeptInv'
  BY <1>5 DEF Insert, KeptInv
<1>6. CASE UNCHANGED vars
  BY <1>6 DEF vars, schema, KeptInv
<1> QED
  BY <1>1, <1>2, <1>3, <1>4, <1>5, <1>6 DEF Next, Raise, Leave

\* The schema of the versions that matter.
LEMMA SchemaAt ==
  /\ TablesAt(3) = {"agents", "runs", "subtasks", "mail", "lessons"}
  /\ TablesAt(4) = TablesAt(3) /\ TablesAt(5) = TablesAt(3) \cup {"plans"}
  /\ ColumnsAt(3) = {<<"runs", "base">>, <<"subtasks", "base">>}
  /\ ColumnsAt(4) = ColumnsAt(3) \cup {<<"agents", "run_id">>, <<"agents", "pgid">>}
  /\ ColumnsAt(5) = ColumnsAt(4) \cup {<<"runs", "plan_id">>}
  BY DEF TablesAt, ColumnsAt

\* Every step keeps RecordedIsComplete: a version is recorded when its script is done, and
\* what earlier ones did is only undone by migration 3, which is not run again.
LEMMA CompleteKept ==
  ASSUME SchemaInv, [Next]_vars
  PROVE  RecordedIsComplete'
<1> USE DEF SchemaInv
<1>0. recorded \subseteq 1 .. 5 /\ \A p \in Proc : ver[p] \in 1 .. 5
  BY ScriptShape DEF TypeOK
<1>1. ASSUME NEW p \in Proc, Open(p) PROVE RecordedIsComplete'
  <2>1. Undisturbed' => Undisturbed
    BY <1>1 DEF Open, Undisturbed
  <2> QED
    BY <1>1, <2>1, OpenVersion DEF RecordedIsComplete, TablesAt, ColumnsAt
<1>2. ASSUME NEW p \in Proc, Apply(p) PROVE RecordedIsComplete'
  <2> SUFFICES ASSUME Undisturbed', NEW v \in recorded', v >= 3
               PROVE  TablesAt(v) \subseteq tables' /\ ColumnsAt(v) \subseteq columns'
    BY DEF RecordedIsComplete, TablesAt, ColumnsAt
  <2>1. Undisturbed /\ v \in recorded /\ p \in Migrating
    BY <1>2, ApplyKeeps DEF Undisturbed, Migrating
  <2>2. 3 \in recorded
    BY <2>1, <1>0 DEF PrefixInv
  <2>3. ver[p] # 3
    BY <2>1, <2>2 DEF AloneInv
  <2> QED
    BY <1>2, <2>1, <2>3, ApplyKeeps DEF RecordedIsComplete
<1>3. ASSUME NEW p \in Proc, Record(p) PROVE RecordedIsComplete'
  <2> SUFFICES ASSUME Undisturbed, NEW v \in recorded', v >= 3
               PROVE  TablesAt(v) \subseteq tables /\ ColumnsAt(v) \subseteq columns
    BY <1>3, RecordVersion DEF RecordedIsComplete, TablesAt, ColumnsAt, Undisturbed
  <2>1. CASE v \in recorded
    BY <2>1 DEF RecordedIsComplete
  <2>2. CASE v = ver[p]
    <3>1. /\ p \in Migrating /\ Done(p) /\ 1 .. v - 1 \subseteq recorded
          /\ step[p] = Len(Script[v]) + 1 /\ v \in 3 .. 5
      BY <1>3, <1>0, <2>2, RecordVersion DEF DoneInv, Migrating, PrefixInv
    <3>2. 1 \in recorded /\ 2 \in recorded /\ (v > 3 => 3 \in recorded) /\ (v > 4 => 4 \in recorded)
      BY <3>1
    <3>3. CASE v = 3
      BY <2>2, <3>1, <3>2, <3>3, ScriptShape, SchemaAt DEF KeptInv, Done
    <3>4. CASE v = 4
      <4>1. TablesAt(3) \subseteq tables /\ ColumnsAt(3) \subseteq columns
        BY <3>2, <3>4 DEF RecordedIsComplete
      <4> QED
        BY <4>1, <2>2, <3>1, <3>4, ScriptShape, SchemaAt DEF Done
    <3>5. CASE v = 5
      <4>1. TablesAt(4) \subseteq tables /\ ColumnsAt(4) \subseteq columns
        BY <3>2, <3>5 DEF RecordedIsComplete
      <4> QED
        BY <4>1, <2>2, <3>1, <3>5, ScriptShape, SchemaAt DEF Done
    <3> QED
      BY <3>1, <3>3, <3>4, <3>5
  <2> QED
    BY <1>3, <2>1, <2>2, RecordVersion
<1>4. ASSUME NEW p \in Proc, Close(p) PROVE RecordedIsComplete'
  BY <1>4, CloseVersion DEF RecordedIsComplete, Undisturbed, TablesAt, ColumnsAt
<1>5. ASSUME NEW p \in Proc, NEW t \in Table, Insert(p, t) PROVE RecordedIsComplete'
  BY <1>5 DEF Insert, RecordedIsComplete, Undisturbed, TablesAt, ColumnsAt
<1>6. CASE UNCHANGED vars
  BY <1>6 DEF vars, schema, RecordedIsComplete, Undisturbed, TablesAt, ColumnsAt
<1> QED
  BY <1>1, <1>2, <1>3, <1>4, <1>5, <1>6 DEF Next, Raise, Leave

-----------------------------------------------------------------------------
(* Without an overlap *)

\* Every step keeps DroppedInv: without an overlap nobody creates what migration 3 drops.
LEMMA DroppedKept ==
  ASSUME SchemaInv, [Next]_vars
  PROVE  DroppedInv'
<1> USE DEF SchemaInv
<1>0. \A p \in Proc : step[p] \in Nat
  BY DEF TypeOK
<1>1. ASSUME NEW p \in Proc, Open(p) PROVE DroppedInv'
  <2>1. overlap' = {} => overlap = {}
    BY <1>1 DEF Open
  <2> QED
    BY <1>1, <2>1, OpenVersion DEF DroppedInv, Migrating
<1>2. ASSUME NEW p \in Proc, Apply(p) PROVE DroppedInv'
  <2> SUFFICES ASSUME overlap = {}, NEW q \in Migrating', ver'[q] = 3
               PROVE  /\ step'[q] \in 2 .. 4 => "subtasks" \notin tables'
                      /\ step'[q] = 3 => "runs" \notin tables'
    BY <1>2, ApplyKeeps DEF DroppedInv
  <2>1. p \in Migrating /\ q \in Migrating /\ ver[q] = 3
    BY <1>2, ApplyKeeps DEF Migrating
  <2>2. q = p
    BY <2>1 DEF AloneInv
  <2>3. step'[p] = step[p] + 1
    BY <1>2, <1>0, ApplyKeeps DEF TypeOK
  <2>4. step[p] \in 2 .. 4 => "subtasks" \notin tables
    BY <2>1, <2>2 DEF DroppedInv
  <2> QED
    BY <1>2, <2>1, <2>2, <2>3, <2>4, <1>0, ApplyCases DEF Drops, Creates
<1>3. ASSUME NEW p \in Proc, Record(p) PROVE DroppedInv'
  BY <1>3, RecordVersion DEF DroppedInv, Migrating
<1>4. ASSUME NEW p \in Proc, Close(p) PROVE DroppedInv'
  BY <1>4, CloseVersion DEF DroppedInv
<1>5. ASSUME NEW p \in Proc, NEW t \in Table, Insert(p, t) PROVE DroppedInv'
  BY <1>5 DEF Insert, procs, DroppedInv, Migrating
<1>6. CASE UNCHANGED vars
  BY <1>6 DEF vars, procs, schema, DroppedInv, Migrating
<1> QED
  BY <1>1, <1>2, <1>3, <1>4, <1>5, <1>6 DEF Next, Raise, Leave

\* A process that goes away in a migration that added a column leaves it torn.
LEMMA CloseTears ==
  ASSUME TypeOK, NEW p \in Migrating, Close(p)
  PROVE  /\ torn \subseteq torn'
         /\ ver[p] = 4 /\ (<<"agents", "run_id">> \in columns \/ <<"agents", "pgid">> \in columns)
              => 4 \in torn'
         /\ ver[p] = 5 /\ <<"runs", "plan_id">> \in columns => 5 \in torn'
<1>1. <<"agents", "run_id">> \in columns \/ <<"agents", "pgid">> \in columns => Added(4)
  <2>1. 1 \in DOMAIN Script[4] /\ 2 \in DOMAIN Script[4]
    BY DEF Script
  <2> QED
    BY <2>1, Statements DEF Added, AddTo
<1>2. <<"runs", "plan_id">> \in columns => Added(5)
  <2>1. 2 \in DOMAIN Script[5]
    BY DEF Script
  <2> QED
    BY <2>1, Statements DEF Added, AddTo
<1> QED
  BY <1>1, <1>2 DEF Close, Migrating

\* Which statements may add which of the later columns.
LEMMA ApplyAdds ==
  ASSUME TypeOK, NEW p \in Proc, Apply(p)
  PROVE  /\ <<"agents", "run_id">> \in columns' =>
             <<"agents", "run_id">> \in columns \/ (ver[p] = 4 /\ step[p] = 1)
         /\ <<"agents", "pgid">> \in columns' =>
             <<"agents", "pgid">> \in columns \/ (ver[p] = 4 /\ step[p] = 2)
         /\ <<"runs", "plan_id">> \in columns' =>
             <<"runs", "plan_id">> \in columns \/ (ver[p] = 5 /\ step[p] = 2)
<1> DEFINE Later == {<<"agents", "run_id">>, <<"agents", "pgid">>, <<"runs", "plan_id">>}
<1>1. \A t \in Table : Base(t) \cap Later = {}
  BY DEF Base
<1>2. ASSUME NEW t \in Table, Ensures(t) \/ Creates(t) \/ Drops(t)
      PROVE  \A c \in Later : c \in columns' => c \in columns
  BY <1>1, <1>2 DEF Ensures, Creates, Drops
<1>3. \/ \E t \in Table : Ensures(t) \/ Creates(t) \/ Drops(t)
      \/ ver[p] = 4 /\ step[p] = 1 /\ Adds("agents", "run_id")
      \/ ver[p] = 4 /\ step[p] = 2 /\ Adds("agents", "pgid")
      \/ ver[p] = 5 /\ step[p] = 2 /\ Adds("runs", "plan_id")
  BY ApplyCases, ZenonT(60) DEF Table
<1>4. CASE \E t \in Table : Ensures(t) \/ Creates(t) \/ Drops(t)
  BY <1>4, <1>2
<1>5. CASE ver[p] = 4 /\ step[p] = 1 /\ Adds("agents", "run_id")
  BY <1>5 DEF Adds
<1>6. CASE ver[p] = 4 /\ step[p] = 2 /\ Adds("agents", "pgid")
  BY <1>6 DEF Adds
<1>7. CASE ver[p] = 5 /\ step[p] = 2 /\ Adds("runs", "plan_id")
  BY <1>7 DEF Adds
<1> QED
  BY <1>3, <1>4, <1>5, <1>6, <1>7

\* Every step keeps AddedInv: a migration that leaves after adding a column is in torn.
LEMMA AddedKept ==
  ASSUME SchemaInv, [Next]_vars
  PROVE  AddedInv'
<1> USE DEF SchemaInv
<1>0. \A p \in Proc : step[p] \in Nat
  BY DEF TypeOK
<1>1. ASSUME NEW p \in Proc, Open(p) PROVE AddedInv'
  <2>1. overlap' = {} => overlap = {}
    BY <1>1 DEF Open
  <2>2. \A q \in Migrating : q \in Migrating' /\ ver'[q] = ver[q] /\ step'[q] = step[q]
    BY <1>1, OpenVersion DEF Migrating
  <2> QED
    BY <1>1, <2>1, <2>2, OpenVersion DEF AddedInv, AddedBy
<1>2. ASSUME NEW p \in Proc, Apply(p) PROVE AddedInv'
  <2>1. /\ UNCHANGED <<Migrating, ver, recorded, torn, overlap>> /\ p \in Migrating
        /\ step'[p] = step[p] + 1
        /\ \A q \in Migrating : step[q] \in Nat /\ (step'[q] = step[q] \/ step'[q] = step[q] + 1)
    BY <1>2, <1>0, ApplyKeeps DEF Migrating, TypeOK
  <2>2. /\ <<"agents", "run_id">> \in columns' =>
             <<"agents", "run_id">> \in columns \/ (ver[p] = 4 /\ step[p] = 1)
        /\ <<"agents", "pgid">> \in columns' =>
             <<"agents", "pgid">> \in columns \/ (ver[p] = 4 /\ step[p] = 2)
        /\ <<"runs", "plan_id">> \in columns' =>
             <<"runs", "plan_id">> \in columns \/ (ver[p] = 5 /\ step[p] = 2)
    BY <1>2, ApplyAdds DEF TypeOK
  <2> SUFFICES ASSUME overlap = {}
               PROVE  /\ AddedBy(<<"agents", "run_id">>, 4, 1)'
                      /\ AddedBy(<<"agents", "pgid">>, 4, 2)'
                      /\ AddedBy(<<"runs", "plan_id">>, 5, 2)'
    BY <2>1 DEF AddedInv
  <2>3. AddedBy(<<"agents", "run_id">>, 4, 1)'
    BY <2>1, <2>2 DEF AddedInv, AddedBy
  <2>4. AddedBy(<<"agents", "pgid">>, 4, 2)'
    BY <2>1, <2>2 DEF AddedInv, AddedBy
  <2>5. AddedBy(<<"runs", "plan_id">>, 5, 2)'
    BY <2>1, <2>2 DEF AddedInv, AddedBy
  <2> QED
    BY <2>3, <2>4, <2>5
<1>3. ASSUME NEW p \in Proc, Record(p) PROVE AddedInv'
  <2>1. \A q \in Migrating :
          \/ q \in Migrating' /\ ver'[q] = ver[q] /\ step'[q] = step[q]
          \/ ver[q] \in recorded'
    BY <1>3, RecordVersion DEF Migrating
  <2> QED
    BY <1>3, <2>1, RecordVersion DEF AddedInv, AddedBy
<1>4. ASSUME NEW p \in Proc, Close(p) PROVE AddedInv'
  <2>1. UNCHANGED <<columns, recorded, overlap>> /\ torn \subseteq torn'
        /\ \A q \in Migrating : q # p =>
             q \in Migrating' /\ ver'[q] = ver[q] /\ step'[q] = step[q]
    BY <1>4, CloseVersion DEF Close
  <2> SUFFICES ASSUME overlap = {}
               PROVE  /\ AddedBy(<<"agents", "run_id">>, 4, 1)'
                      /\ AddedBy(<<"agents", "pgid">>, 4, 2)'
                      /\ AddedBy(<<"runs", "plan_id">>, 5, 2)'
    BY <2>1 DEF AddedInv
  <2>2. AddedBy(<<"agents", "run_id">>, 4, 1)'
    BY <1>4, <2>1, CloseTears DEF AddedInv, AddedBy
  <2>3. AddedBy(<<"agents", "pgid">>, 4, 2)'
    BY <1>4, <2>1, CloseTears DEF AddedInv, AddedBy
  <2>4. AddedBy(<<"runs", "plan_id">>, 5, 2)'
    BY <1>4, <2>1, CloseTears DEF AddedInv, AddedBy
  <2> QED
    BY <2>2, <2>3, <2>4
<1>5. ASSUME NEW p \in Proc, NEW t \in Table, Insert(p, t) PROVE AddedInv'
  BY <1>5 DEF Insert, procs, AddedInv, AddedBy, Migrating
<1>6. CASE UNCHANGED vars
  BY <1>6 DEF vars, procs, schema, AddedInv, AddedBy, Migrating
<1> QED
  BY <1>1, <1>2, <1>3, <1>4, <1>5, <1>6 DEF Next, Raise, Leave

-----------------------------------------------------------------------------
(* The theorems *)

\* Whatever an earlier version of the program left satisfies the invariant.
LEMMA StoreInit == Init => SchemaInv
<1> SUFFICES ASSUME Init PROVE SchemaInv
  OBVIOUS
<1>1. PICK v \in 0 .. 5 :
        /\ recorded = 1 .. v
        /\ tables \in {TablesAt(v)} \cup (IF v = 0 THEN {TablesAt(1)} ELSE {})
        /\ columns \in {ColumnsAt(v)} \cup (IF v \in 1 .. 2 THEN {ColumnsAt(3)} ELSE {})
  BY ScriptShape DEF Init
<1>2. Migrating = {} /\ overlap = {} /\ torn = {}
  BY DEF Init, Migrating
<1>3. tables \subseteq Table /\ columns \subseteq Column
  BY <1>1 DEF TablesAt, ColumnsAt, Table, Column
<1>4. TypeOK
  <2>1. 1 \in Version /\ 1 \in 1 .. Len(Script[1]) + 1 /\ 1 .. v \subseteq Version
    BY ScriptShape
  <2> QED
    BY <1>1, <1>2, <1>3, <2>1 DEF Init, TypeOK, Phase
<1>5. PrefixInv /\ AloneInv /\ DoneInv /\ DroppedInv
  BY <1>1, <1>2 DEF PrefixInv, AloneInv, DoneInv, DroppedInv
<1>6. KeptInv
  BY <1>1 DEF KeptInv, TablesAt
<1>7. AddedInv
  BY <1>1 DEF AddedInv, AddedBy, ColumnsAt
<1>8. RecordedIsComplete
  <2> SUFFICES ASSUME NEW w \in recorded, w >= 3
               PROVE  TablesAt(w) \subseteq tables /\ ColumnsAt(w) \subseteq columns
    BY DEF RecordedIsComplete
  <2>1. v \in 3 .. 5 /\ w \in 3 .. v /\ tables = TablesAt(v) /\ columns = ColumnsAt(v)
    BY <1>1
  <2> QED
    BY <2>1 DEF TablesAt, ColumnsAt
<1> QED
  BY <1>4, <1>5, <1>6, <1>7, <1>8 DEF SchemaInv

\* SchemaInv holds in every reachable state, for every number of processes.
THEOREM SchemaInvariance == Spec => []SchemaInv
<1>1. SchemaInv /\ [Next]_vars => SchemaInv'
  BY TypeKept, PrefixKept, AloneKept, DoneKept, KeptKept, CompleteKept, DroppedKept, AddedKept
     DEF SchemaInv
<1> QED
  BY StoreInit, <1>1, PTL DEF Spec

\* The schema, the recorded versions and the processes keep their types.
THEOREM StoreTypes == Spec => []TypeOK
<1>1. SchemaInv => TypeOK
  BY DEF SchemaInv
<1> QED
  BY SchemaInvariance, <1>1, PTL

\* A database recorded at version 3 or later has what that version says.
THEOREM RecordedComplete == Spec => []RecordedIsComplete
<1>1. SchemaInv => RecordedIsComplete
  BY DEF SchemaInv
<1> QED
  BY SchemaInvariance, <1>1, PTL

\* From version 3 on no migration deletes a row: only migration 3 does, and whoever
\* runs it has not recorded it.
THEOREM RowsAreKept == Spec => RowsSurvive
<1>1. SchemaInv /\ [Next]_vars => [3 \in recorded /\ Undisturbed => rows \subseteq rows']_vars
  <2> SUFFICES ASSUME SchemaInv, Next, 3 \in recorded, Undisturbed
               PROVE  rows \subseteq rows'
    BY DEF vars, schema
  <2>1. ASSUME NEW p \in Proc, Open(p) \/ Record(p) \/ Close(p) PROVE rows \subseteq rows'
    BY <2>1 DEF Open, Record, Close, schema
  <2>2. ASSUME NEW p \in Proc, Apply(p) PROVE rows \subseteq rows'
    <3>1. TypeOK /\ p \in Migrating /\ (ver[p] # 3 => rows' = rows)
      BY <2>2, ApplyKeeps DEF SchemaInv, Migrating
    <3>2. ver[p] # 3
      BY <3>1 DEF SchemaInv, AloneInv
    <3> QED
      BY <3>1, <3>2
  <2>3. ASSUME NEW p \in Proc, NEW t \in Table, Insert(p, t) PROVE rows \subseteq rows'
    BY <2>3 DEF Insert
  <2> QED
    BY <2>1, <2>2, <2>3 DEF Next, Raise, Leave
<1> QED
  BY SchemaInvariance, <1>1, PTL DEF Spec, RowsSurvive

\* A migration is refused for no other reason than the three that are stated.
THEOREM UpgradesCleanly == Spec => []CleanUpgrade
<1>1. SchemaInv => CleanUpgrade
  <2> SUFFICES ASSUME SchemaInv, NEW p \in Proc, Refused(p), overlap = {}, ver[p] \notin torn,
                      ~(ver[p] = 3 /\ "lessons" \in rows)
               PROVE  FALSE
    BY DEF CleanUpgrade
  <2> USE DEF SchemaInv
  <2>1. /\ p \in Migrating /\ ver[p] \notin recorded /\ Undisturbed
        /\ \A q \in Migrating : q = p
    BY DEF Refused, Migrating, AloneInv, Undisturbed
  <2>2. ver[p] \in 1 .. 5 /\ step[p] \in 1 .. Len(Script[ver[p]]) /\ ~Possible(Statement(p))
    <3>1. ver[p] \in 1 .. 5 /\ Len(Script[ver[p]]) \in Nat
      BY ScriptShape DEF TypeOK
    <3> QED
      BY <2>1, <3>1 DEF Refused, TypeOK
  <2>3. 1 .. ver[p] - 1 \subseteq recorded
    BY <2>1 DEF PrefixInv
  <2>4. CASE ver[p] = 1
    BY <2>2, <2>4, ScriptShape, Statements DEF Statement, Possible, Ensure
  <2>5. CASE ver[p] = 2
    BY <2>2, <2>5, ScriptShape, Statements DEF Statement, Possible, Ensure
  <2>6. CASE ver[p] = 3
    <3>1. /\ step[p] \in 2 .. 4 => "subtasks" \notin tables
          /\ step[p] = 3 => "runs" \notin tables
      BY <2>1, <2>6 DEF DroppedInv
    <3>2. rows \subseteq tables
      BY DEF TypeOK
    <3>3. step[p] \in 1 .. 4
      BY <2>2, <2>6, ScriptShape
    <3>4. CASE step[p] = 1
      BY <2>2, <2>6, <3>4, Statements DEF Statement, Possible, Drop
    <3>5. CASE step[p] = 2
      BY <2>2, <2>6, <3>1, <3>2, <3>5, Statements DEF Statement, Possible, Drop
    <3>6. CASE step[p] = 3
      BY <2>2, <2>6, <3>1, <3>6, Statements DEF Statement, Possible, Create
    <3>7. CASE step[p] = 4
      BY <2>2, <2>6, <3>1, <3>7, Statements DEF Statement, Possible, Create
    <3> QED
      BY <3>3, <3>4, <3>5, <3>6, <3>7
  <2>7. CASE ver[p] = 4
    <3>1. "agents" \in tables /\ step[p] \in 1 .. 2
      BY <2>2, <2>3, <2>7, ScriptShape DEF KeptInv
    <3>2. CASE step[p] = 1
      <4>1. <<"agents", "run_id">> \notin columns
        BY <2>1, <2>7, <3>2 DEF AddedInv, AddedBy
      <4> QED
        BY <2>2, <2>7, <3>1, <3>2, <4>1, Statements DEF Statement, Possible, AddTo
    <3>3. CASE step[p] = 2
      <4>1. <<"agents", "pgid">> \notin columns
        BY <2>1, <2>7, <3>3 DEF AddedInv, AddedBy
      <4> QED
        BY <2>2, <2>7, <3>1, <3>3, <4>1, Statements DEF Statement, Possible, AddTo
    <3> QED
      BY <3>1, <3>2, <3>3
  <2>8. CASE ver[p] = 5
    <3>1. "runs" \in tables /\ step[p] \in 1 .. 2
      <4>1. TablesAt(3) \subseteq tables
        BY <2>1, <2>3, <2>8 DEF RecordedIsComplete
      <4> QED
        BY <4>1, <2>2, <2>8, ScriptShape, SchemaAt
    <3>2. CASE step[p] = 1
      BY <2>2, <2>8, <3>2, Statements DEF Statement, Possible, Ensure
    <3>3. CASE step[p] = 2
      <4>1. <<"runs", "plan_id">> \notin columns
        BY <2>1, <2>8, <3>3 DEF AddedInv, AddedBy
      <4> QED
        BY <2>2, <2>8, <3>1, <3>3, <4>1, Statements DEF Statement, Possible, AddTo
    <3> QED
      BY <3>1, <3>2, <3>3
  <2> QED
    BY <2>2, <2>4, <2>5, <2>6, <2>7, <2>8
<1> QED
  BY SchemaInvariance, <1>1, PTL
=============================================================================
