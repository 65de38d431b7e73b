---------------------------- MODULE StoreProperties ----------------------------
(***************************************************************************)
(* The correctness properties of Store.                                    *)
(***************************************************************************)
EXTENDS Store

\* No process began to migrate while another one was, below version 4.
Undisturbed == overlap \cap 1 .. 3 = {}

\* A database recorded at version 3 or later has every table and column up to the
\* version it says, wherever the processes that migrated it died, and also when
\* two of them tried the later migrations at the same time.
RecordedIsComplete ==
  Undisturbed =>
    \A v \in recorded : v >= 3 => TablesAt(v) \subseteq tables /\ ColumnsAt(v) \subseteq columns

\* From version 3 on no migration ever deletes a row.  (Below it, migration 3 drops
\* the runs; and a second process that read the version before then drops them
\* again behind the back of the first.)
RowsSurvive == [][3 \in recorded /\ Undisturbed => rows \subseteq rows']_vars

\* From any version the program ever left, and after a death at any statement,
\* migrate() raises for no other reason than: lessons that refer to the runs
\* migration 3 drops, a migration that died after it had added a column, or another
\* process migrating at the same time.
CleanUpgrade ==
  \A p \in Proc : Refused(p) =>
    \/ overlap # {}
    \/ ver[p] \in torn
    \/ ver[p] = 3 /\ "lessons" \in rows

-----------------------------------------------------------------------------
(* The inductive invariant behind them *)

Migrating == {p \in Proc : pc[p] = "migrating"}

\* Versions are recorded in order, and a process migrates to the one after some
\* that are recorded.
PrefixInv ==
  /\ \A v \in recorded : 1 .. v \subseteq recorded
  /\ \A p \in Migrating : 1 .. ver[p] - 1 \subseteq recorded

\* Whoever migrates below version 4 is alone, unless there was an overlap there, and
\* its version is not recorded yet; without any overlap, whoever migrates is alone.
AloneInv ==
  /\ \A p, q \in Migrating : p # q => overlap # {} /\ (Undisturbed => ver[p] > 3)
  /\ \A p \in Migrating :
       overlap = {} \/ (Undisturbed /\ ver[p] <= 3) => ver[p] \notin recorded

\* What a process has done of its script so far is there.
Done(p) ==
  /\ ver[p] = 1 => /\ step[p] > 1 => "agents" \in tables
                   /\ step[p] > 4 => "mail" \in tables
  /\ ver[p] = 2 /\ step[p] > 1 => "lessons" \in tables
  /\ ver[p] = 3 /\ Undisturbed =>
       /\ step[p] > 3 => "runs" \in tables /\ <<"runs", "base">> \in columns
       /\ step[p] > 4 => "subtasks" \in tables /\ <<"subtasks", "base">> \in columns
  /\ ver[p] = 4 => /\ step[p] > 1 => <<"agents", "run_id">> \in columns
                   /\ step[p] > 2 => <<"agents", "pgid">> \in columns
  /\ ver[p] = 5 => /\ step[p] > 1 => "plans" \in tables
                   /\ step[p] > 2 /\ Undisturbed => <<"runs", "plan_id">> \in columns

DoneInv == \A p \in Migrating : Done(p)

\* The tables no migration drops.
KeptInv == /\ 1 \in recorded => {"agents", "mail"} \subseteq tables
           /\ 2 \in recorded => "lessons" \in tables

\* Without an overlap: what migration 3 dropped is gone until it creates it anew,
\* and a column that is there was added by a migration that is recorded, was
\* interrupted, or is at work.
DroppedInv ==
  overlap = {} =>
    \A p \in Migrating : ver[p] = 3 =>
      /\ step[p] \in 2 .. 4 => "subtasks" \notin tables
      /\ step[p] = 3 => "runs" \notin tables

AddedBy(c, v, k) ==
  c \in columns => \/ v \in recorded \/ v \in torn
                   \/ \E p \in Migrating : ver[p] = v /\ step[p] > k

AddedInv ==
  overlap = {} => /\ AddedBy(<<"agents", "run_id">>, 4, 1)
                  /\ AddedBy(<<"agents", "pgid">>, 4, 2)
                  /\ AddedBy(<<"runs", "plan_id">>, 5, 2)

SchemaInv ==
  /\ TypeOK /\ PrefixInv /\ AloneInv /\ DoneInv /\ KeptInv
  /\ RecordedIsComplete /\ DroppedInv /\ AddedInv
=============================================================================
