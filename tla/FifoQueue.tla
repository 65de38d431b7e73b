------------------------------ MODULE FifoQueue ------------------------------
(***************************************************************************)
(* What the merge queue of src/horse_fish/merge/queue.py promises:         *)
(* "Higher priority entries are merged first; within the same priority,    *)
(* entries are processed in FIFO order", and an entry leaves the queue     *)
(* only because it was merged.                                             *)
(***************************************************************************)
EXTENDS Naturals

CONSTANTS Entry,      \* entries, numbered in the order they are added
          Priority    \* priorities an entry may have

VARIABLES status,     \* none, pending, conflict (kept, for a human), removed, cleared
          prio,       \* the priority an entry was added with
          landed      \* entries whose branch is on main

Waiting == {q \in Entry : status[q] = "pending"}

\* p is ahead of q: added earlier, and with no lower priority.
Ahead(p, q) == p < q /\ prio[p] >= prio[q]

Init ==
  /\ status = [q \in Entry |-> "none"]
  /\ prio = [q \in Entry |-> 0]
  /\ landed = {}

\* The branch of a new entry may be on main already.
Add(q, n) ==
  /\ status[q] = "none" /\ \A p \in Entry : p < q => status[p] # "none"
  /\ status' = [status EXCEPT ![q] = "pending"]
  /\ prio' = [prio EXCEPT ![q] = n]
  /\ landed' \in {landed, landed \cup {q}}

Land == landed \subseteq landed' /\ UNCHANGED <<status, prio>>

\* Only an entry that nothing waits ahead of is settled.
Settle(q, verdict) ==
  /\ status[q] \in {"pending", "conflict"}
  /\ \A p \in Waiting : ~Ahead(p, q)
  /\ verdict = "removed" => q \in landed
  /\ status' = [status EXCEPT ![q] = verdict]
  /\ UNCHANGED <<prio, landed>>

Clear ==
  /\ status' = [q \in Entry |-> IF q \in Waiting THEN "cleared" ELSE status[q]]
  /\ UNCHANGED <<prio, landed>>

Next ==
  \/ \E q \in Entry :
       \/ \E n \in Priority : Add(q, n)
       \/ \E verdict \in {"conflict", "removed"} : Settle(q, verdict)
  \/ Land \/ Clear

Spec == Init /\ [][Next]_<<status, prio, landed>>
=============================================================================
