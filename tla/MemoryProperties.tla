--------------------------- MODULE MemoryProperties ---------------------------
(***************************************************************************)
(* The correctness properties of Memory.                                   *)
(***************************************************************************)
EXTENDS Memory

\* Entries are marked in the order of their timestamps: however many processes
\* store, learn and organize at the same time, and whichever of them is abandoned,
\* an entry is never marked while an older one waits that was in the table when the
\* newer one was fetched.  (An entry may get its row so late that a newer one has
\* been fetched already.)
OldestFirst == \A e \in ingested : \A f \in rows : f < e => f \in ingested \cup late

\* The batch of a is complete as far as a domain goes.
Delivered(a, d) ==
  /\ \E e \in batch[a] : entries[e] = d
  /\ \A e \in batch[a] : entries[e] = d => e \in copied

\* An entry is marked without a copy in Cognee only with a batch of which another
\* domain was delivered completely: a batch of which no domain came through stays,
\* and so does a batch of one domain that did not, however many others are copied
\* and marked.
LostBesideAnother ==
  [][\A e \in ingested' \ ingested :
       e \in copied'
       \/ \E a \in Actor : /\ pc'[a] # pc[a] /\ e \in batch[a]
                           /\ \E d \in Domain \ {entries[e]} : Delivered(a, d)]_vars

-----------------------------------------------------------------------------
(* The inductive invariant behind them *)

\* A batch leaves no older entry waiting but those that came after it was fetched,
\* and what was added of it without a failure in its domain has a copy.
BatchInv ==
  \A a \in Actor :
    /\ \A e \in batch[a] : \A f \in rows :
         f < e => f \in ingested \cup batch[a] \cup missed[a] \cup late
    /\ \A e \in batch[a] \ left[a] : entries[e] \in bad[a] \/ e \in copied

\* Only what is older than an entry of the batch, or than a marked one, is recorded
\* as having come too late for it.
LateInv ==
  /\ \A f \in late : \E e \in ingested : f < e
  /\ \A a \in Actor : \A f \in missed[a] : \E e \in batch[a] : f < e

IngestInv == TypeOK /\ OldestFirst /\ BatchInv /\ LateInv

-----------------------------------------------------------------------------
(* Progress *)

FailsIn(d)  == \E a \in Actor : bad'[a] # bad[a] /\ d \in bad'[a]
Abandoned   == \E a \in Actor :
                 /\ pc[a] = "adding" /\ pc'[a] = "idle"
                 /\ left[a] # {} \/ (Counted(a) /\ ~(batch[a] \subseteq ingested'))
Foreign(d)  == {e \in Waiting : entries[e] # d}
Busy        == \E a \in Actor : pc[a] = "adding"

\* The entries of a domain that Cognee accepts are all marked in the end, as long
\* as somebody organizes again while entries wait and fewer than Limit entries of
\* other domains wait too: those may fail for ever without starving the domain.
\* (With Limit of them every batch is theirs, and nothing behind them gets a turn.)
DomainDelivered ==
  \A d \in Domain :
    /\ <>[][~FailsIn(d) /\ ~Abandoned]_vars
    /\ []<>(Waiting = {} \/ Busy)
    /\ <>[](Cardinality(Foreign(d)) < Limit)
    => <>[](\A e \in Waiting : entries[e] # d)
=============================================================================
