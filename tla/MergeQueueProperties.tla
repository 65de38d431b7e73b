----------------------- MODULE MergeQueueProperties -----------------------
(***************************************************************************)
(* The correctness properties of merging into main.                        *)
(***************************************************************************)
EXTENDS MergeQueue

Landed == {q \in Entry : branch[q] \in merged}

Promise == INSTANCE FifoQueue WITH landed <- Landed

\* process() implements the promise of FifoQueue, also when several processes
\* work on the same rows, a merge raises in the middle, or a process dies between
\* the merge and the DELETE: no entry is settled while another one waits ahead of
\* it, and an entry leaves the queue only when its branch is on main.
ImplementsFifo == Promise!Spec

\* What a docstring says of merge(): "on conflict it contains the names of files
\* that conflicted".  A conflict is answered by listing the files and aborting.
ConflictReturned ==
  [][\A c \in Caller :
       at[c] = "merge" /\ at'[c] # "merge" /\ mid' # mid => at'[c] = "diff"]_vars

-----------------------------------------------------------------------------
(* The inductive invariant *)

\* The rows a queue caller has not settled yet.
Work(c) ==
  todo[c] \cup (IF at[c] \in {"idle", "turn"} THEN {} ELSE {cur[c]})

\* Whatever still waits ahead of a row that c works on is in its hands as well,
\* and the current row precedes the rest.
OrderOf(c) ==
  /\ \A q \in Work(c), p \in Pending :
       p < q /\ prio[p] >= prio[q] => p \in Work(c)
  /\ \A q \in Work(c) : status[q] # "none"
  /\ at[c] \notin {"idle", "turn"} =>
       cur[c] \notin todo[c] /\ \A p \in todo[c] : Before(c, cur[c], p)

OrderInv == \A c \in Caller : Queued(c) => OrderOf(c)

\* Rows are inserted in the order of their numbers, and have no branch before.
InsertInv ==
  /\ \A p, q \in Entry : p < q /\ status[q] # "none" => status[p] # "none"
  /\ \A q \in Entry : status[q] = "none" => branch[q] = NoBranch

\* A row is deleted only after its branch is on main.
MergedInv ==
  /\ \A c \in Caller : Queued(c) /\ at[c] = "merged" => branch[cur[c]] \in merged
  /\ \A q \in Entry : status[q] = "removed" => branch[q] \in merged

\* The inductive invariant of the queue: types, order of insertion, order of
\* work, and what a deleted row stands for.
QInv == TypeOK /\ InsertInv /\ OrderInv /\ MergedInv
=============================================================================
