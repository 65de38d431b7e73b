----------------------------- MODULE MergeQueue -----------------------------
(***************************************************************************)
(* Merging into main: MergeQueue of src/horse_fish/merge/queue.py and      *)
(* WorktreeManager.merge of src/horse_fish/agents/worktree.py.  Several    *)
(* processes (`hf merge`, orchestrators that use the queue, orchestrators  *)
(* that merge directly) share one table and one checkout of main, with no  *)
(* lock: every git command and every statement is a step of its own.       *)
(*                                                                         *)
(* Content is abstracted to a relation: two branches clash when the second *)
(* one merged hits a conflict.  merge() recognises a conflict by the word  *)
(* "conflict" in the command line or in stderr; git reports a conflict on  *)
(* stdout, so that only the name of the branch can carry it.               *)
(***************************************************************************)
EXTENDS Naturals

CONSTANTS
  Caller,     \* coroutines that may merge
  Entries,    \* bound on the rows ever enqueued
  Branch,     \* branches of worktrees, numbered as subtasks are
  NoBranch,   \* main is not in the middle of a merge
  Priority,   \* values of the column priority
  Clash,      \* pairs {a, b} of branches that conflict
  Telltale    \* branches with the word "conflict" in their name

Entry == 1 .. Entries

ASSUME MergeQueueAssumption ==
  /\ Entries \in Nat \ {0}
  /\ Branch \subseteq Nat /\ NoBranch \notin Branch
  /\ Priority \subseteq Nat
  /\ Clash \subseteq SUBSET Branch /\ Telltale \subseteq Branch

VARIABLES
  status, prio, branch,   \* the table merge_queue; rows are numbered by created_at
  exists,                 \* branches whose worktree and ref exist
  merged, mid,            \* main: what is merged, and the conflicting merge it is in
  at, how, todo, cur      \* per caller: next step, through the queue or directly,
                          \* rows or branches left, the current one

table   == <<status, prio, branch>>
main    == <<merged, mid>>
callers == <<at, how, todo, cur>>
vars    == <<table, exists, main, callers>>

Status == {"none", "pending", "conflict", "removed", "cleared"}
How    == {"queue", "direct", "partial"}
Step   == {"idle", "turn", "commit", "checkout", "merge", "diff", "abort",
           "merged", "conflict"}

Pending   == {q \in Entry : status[q] = "pending"}
Present   == {q \in Entry : status[q] \in {"pending", "conflict"}}
Queued(c) == how[c] = "queue"
Target(c) == IF Queued(c) THEN branch[cur[c]] ELSE cur[c]

\* Callers of process() work on rows, the others on branches.
WorkOK(c) ==
  /\ todo[c] \subseteq (IF Queued(c) THEN Entry ELSE Branch)
  /\ at[c] \notin {"idle", "turn"} =>
       cur[c] \in (IF Queued(c) THEN Entry ELSE Branch)

TypeOK ==
  /\ status \in [Entry -> Status] /\ prio \in [Entry -> Nat]
  /\ branch \in [Entry -> Branch \cup {NoBranch}]
  /\ exists \subseteq Branch /\ merged \subseteq Branch
  /\ mid \in Branch \cup {NoBranch}
  /\ at \in [Caller -> Step] /\ how \in [Caller -> How]
  /\ todo \in [Caller -> SUBSET (Entry \cup Branch)]
  /\ cur \in [Caller -> Entry \cup Branch \cup {0}]
  /\ \A c \in Caller : WorkOK(c)

Init ==
  /\ status = [q \in Entry |-> "none"]
  /\ prio = [q \in Entry |-> 0] /\ branch = [q \in Entry |-> NoBranch]
  /\ exists = Branch
  /\ merged = {} /\ mid = NoBranch
  /\ at = [c \in Caller |-> "idle"] /\ how = [c \in Caller |-> "queue"]
  /\ todo = [c \in Caller |-> {}] /\ cur = [c \in Caller |-> 0]

-----------------------------------------------------------------------------
(* The table *)

\* INSERT: a row for branch b, with priority n.
Enqueue(q, b, n) ==
  /\ status[q] = "none" /\ \A p \in Entry : p < q => status[p] # "none"
  /\ status' = [status EXCEPT ![q] = "pending"]
  /\ prio' = [prio EXCEPT ![q] = n] /\ branch' = [branch EXCEPT ![q] = b]
  /\ UNCHANGED <<exists, main, callers>>

Clear ==
  /\ status' = [q \in Entry |-> IF q \in Pending THEN "cleared" ELSE status[q]]
  /\ UNCHANGED <<prio, branch, exists, main, callers>>

-----------------------------------------------------------------------------
(* process(), and the loop of _merge without a queue *)

Goto(c, from, to) ==
  /\ at[c] = from
  /\ at' = [at EXCEPT ![c] = to]

\* process() reads the pending rows once.
Fetch(c) ==
  /\ Goto(c, "idle", "turn")
  /\ how' = [how EXCEPT ![c] = "queue"] /\ todo' = [todo EXCEPT ![c] = Pending]
  /\ UNCHANGED <<table, exists, main, cur>>

\* _merge of a run without a queue whose subtasks in S are done; it may allow
\* partial success.
Begin(c, S) ==
  /\ S # {} /\ Goto(c, "idle", "turn")
  /\ how' \in {[how EXCEPT ![c] = "direct"], [how EXCEPT ![c] = "partial"]}
  /\ todo' = [todo EXCEPT ![c] = S]
  /\ UNCHANGED <<table, exists, main, cur>>

\* A mutant of Before: ORDER BY priority.
BeforeAscending(c, p, q) ==
  IF Queued(c) THEN prio[p] < prio[q] \/ (prio[p] = prio[q] /\ p < q)
  ELSE p < q

\* ORDER BY priority DESC, created_at ASC; subtasks in the order of the run.
Before(c, p, q) ==
  IF Queued(c) THEN prio[p] > prio[q] \/ (prio[p] = prio[q] /\ p < q)
  ELSE p < q

Turn(c) ==
  /\ Goto(c, "turn", "commit")
  /\ \E q \in todo[c] :
       /\ \A p \in todo[c] \ {q} : Before(c, q, p)
       /\ cur' = [cur EXCEPT ![c] = q]
       /\ todo' = [todo EXCEPT ![c] = @ \ {q}]
  /\ UNCHANGED <<table, exists, main, how>>

\* The loop goes on, or ends without looking at the rest.
Continue(c) ==
  /\ at' = [at EXCEPT ![c] = "turn"] /\ cur' = [cur EXCEPT ![c] = 0]
  /\ UNCHANGED <<how, todo>>

Leave(c) ==
  /\ at' = [at EXCEPT ![c] = "idle"] /\ cur' = [cur EXCEPT ![c] = 0]
  /\ how' = [how EXCEPT ![c] = "queue"] /\ todo' = [todo EXCEPT ![c] = {}]

Return(c) ==
  /\ at[c] = "turn" /\ todo[c] = {}
  /\ Leave(c)
  /\ UNCHANGED <<table, exists, main>>

\* An exception out of merge(): process() has no handler; _merge fails the
\* subtask and goes on only if partial success is allowed.
Raise(c) == IF how[c] = "partial" THEN Continue(c) ELSE Leave(c)

\* The row is deleted if it is still there.
RecordMerged(c) ==
  /\ at[c] = "merged"
  /\ status' = [q \in Entry |->
       IF Queued(c) /\ q = cur[c] /\ q \in Present THEN "removed" ELSE status[q]]
  /\ Continue(c)
  /\ UNCHANGED <<prio, branch, exists, main>>

\* A mutant of RecordConflict: the row is deleted like that of a merge.
RecordConflictDeletes(c) ==
  /\ at[c] = "conflict"
  /\ status' = [q \in Entry |->
       IF Queued(c) /\ q = cur[c] /\ q \in Present THEN "removed" ELSE status[q]]
  /\ IF how[c] = "direct" THEN Leave(c) ELSE Continue(c)
  /\ UNCHANGED <<prio, branch, exists, main>>

\* The row is kept and marked; a direct merge fails the subtask.
RecordConflict(c) ==
  /\ at[c] = "conflict"
  /\ status' = [q \in Entry |->
       IF Queued(c) /\ q = cur[c] /\ q \in Present THEN "conflict" ELSE status[q]]
  /\ IF how[c] = "direct" THEN Leave(c) ELSE Continue(c)
  /\ UNCHANGED <<prio, branch, exists, main>>

-----------------------------------------------------------------------------
(* WorktreeManager.merge *)

\* git add and git commit in the worktree: a git error is ignored, a missing
\* directory is not a git error.
Commit(c) ==
  /\ at[c] = "commit"
  /\ IF Target(c) \in exists
     THEN Goto(c, "commit", "checkout") /\ UNCHANGED <<how, todo, cur>>
     ELSE Raise(c)
  /\ UNCHANGED <<table, exists, main>>

\* git checkout main is refused while a merge is unresolved.
Checkout(c) ==
  /\ mid = NoBranch /\ Goto(c, "checkout", "merge")
  /\ UNCHANGED <<table, exists, main, how, todo, cur>>

\* It may fail for any other reason too (index.lock held, local changes).
CheckoutFails(c) ==
  /\ at[c] = "checkout"
  /\ Raise(c)
  /\ UNCHANGED <<table, exists, main>>

Clashes(b) == \E a \in merged \ {b} : {a, b} \in Clash

MergeClean(c) ==
  /\ Goto(c, "merge", "merged")
  /\ mid = NoBranch /\ Target(c) \in exists
  /\ ~Clashes(Target(c)) \/ Target(c) \in merged
  /\ merged' = merged \cup {Target(c)}
  /\ UNCHANGED <<table, exists, mid, how, todo, cur>>

\* What the except clause makes of an error of the merge of b.
Except(c, b) ==
  IF b \in Telltale
  THEN at' = [at EXCEPT ![c] = "diff"] /\ UNCHANGED <<how, todo, cur>>
  ELSE Raise(c)

\* A conflict: git leaves main in the middle of the merge and exits with 1.
MergeConflict(c) ==
  /\ at[c] = "merge" /\ mid = NoBranch /\ Target(c) \in exists
  /\ Clashes(Target(c)) /\ Target(c) \notin merged
  /\ mid' = Target(c)
  /\ Except(c, Target(c))
  /\ UNCHANGED <<table, exists, merged>>

\* The branch is gone, or git refuses the merge without starting it.
MergeRefused(c) ==
  /\ at[c] = "merge" /\ mid = NoBranch
  /\ Except(c, Target(c))
  /\ UNCHANGED <<table, exists, main>>

\* Someone else's merge is unresolved: git says so on stderr ("Exiting because
\* of an unresolved conflict"), which the except clause takes for our conflict.
MergeBlocked(c) ==
  /\ mid # NoBranch /\ Goto(c, "merge", "diff")
  /\ UNCHANGED <<table, exists, main, how, todo, cur>>

Diff(c) ==
  /\ Goto(c, "diff", "abort")
  /\ UNCHANGED <<table, exists, main, how, todo, cur>>

\* git merge --abort undoes whatever merge main is in; failing is ignored.
Abort(c) ==
  /\ Goto(c, "abort", "conflict")
  /\ mid' \in {mid, NoBranch}
  /\ UNCHANGED <<table, exists, merged, how, todo, cur>>

-----------------------------------------------------------------------------
(* The surroundings *)

\* The process dies, or the run is cancelled, between two commands.
Crash(c) ==
  /\ at[c] # "idle"
  /\ Leave(c)
  /\ UNCHANGED <<table, exists, main>>

\* The pool releases the agent: its worktree and its branch are deleted.
Discard(b) ==
  /\ b \in exists
  /\ exists' = exists \ {b}
  /\ UNCHANGED <<table, main, callers>>

\* A human concludes the unresolved merge, or aborts it.
Resolve ==
  /\ mid # NoBranch
  /\ mid' = NoBranch
  /\ merged' \in {merged, merged \cup {mid}}
  /\ UNCHANGED <<table, exists, callers>>

-----------------------------------------------------------------------------

Git(c) ==
  \/ Commit(c) \/ Checkout(c) \/ CheckoutFails(c)
  \/ MergeClean(c) \/ MergeConflict(c) \/ MergeRefused(c) \/ MergeBlocked(c)
  \/ Diff(c) \/ Abort(c)

Loop(c) ==
  \/ Fetch(c) \/ (\E S \in SUBSET Branch : Begin(c, S))
  \/ Turn(c) \/ Return(c) \/ RecordMerged(c) \/ RecordConflict(c)

Next ==
  \/ \E q \in Entry, b \in Branch, n \in Priority : Enqueue(q, b, n)
  \/ Clear
  \/ \E c \in Caller : Loop(c) \/ Git(c) \/ Crash(c)
  \/ \E b \in Branch : Discard(b)
  \/ Resolve

Spec == Init /\ [][Next]_vars
=============================================================================
