-------------------------------- MODULE Memory --------------------------------
(***************************************************************************)
(* Write fast, organize later: the memory_entries table of                 *)
(* src/horse_fish/memory/store.py and its batch ingestion into Cognee      *)
(* (memory/cognee_store.py).  An actor is a process: it stores an entry    *)
(* (`hf memory store`), has completed a run and learns                     *)
(* (Orchestrator._learn), or organizes (`hf memory organize`); the latter  *)
(* two fetch the oldest entries not yet ingested, add them to Cognee one   *)
(* by one and mark them.  All of them work on the one table.               *)
(*                                                                         *)
(* An entry is its timestamp and its domain.  store_entry takes the        *)
(* timestamp first; then it writes the memvid file, and only then the row, *)
(* so that rows may appear in another order than that of their timestamps. *)
(* Processes of one machine read one clock: the k-th timestamp is k.       *)
(***************************************************************************)
EXTENDS Naturals, Sequences, FiniteSets

CONSTANTS
  Actor,      \* processes
  Domain,     \* domains of entries
  RunResult,  \* the domain _learn stores under
  Limit,      \* get_uningested(limit)
  MaxEntries  \* bound on the timestamps ever taken

ASSUME MemoryAssumption ==
  /\ RunResult \in Domain
  /\ Limit \in Nat \ {0} /\ MaxEntries \in Nat

VARIABLES
  entries,           \* the domain of every entry, in the order of the timestamps
  rows,              \* the entries that are in the table
  ingested,          \* those of them whose row is marked
  copied,            \* the entries of which Cognee holds a copy
  pc,                \* per actor
  draft,             \* per actor: the entry it is storing, or 0
  batch, left, bad,  \* per actor: the entries fetched, those still to be added,
                     \* the domains of the batch of which an add failed
  missed, late       \* history: rows that came while a newer entry was in the batch
                     \* of the actor; rows that came when a newer one was as good as
                     \* marked, in a batch that was marked in the end or before

table == <<entries, rows, ingested>>
work  == <<batch, left, bad>>
vars  == <<table, copied, pc, draft, work, missed, late>>

Entry   == DOMAIN entries
Waiting == rows \ ingested
Phase   == {"idle", "noting", "learning", "storing", "adding"}

TypeOK ==
  /\ entries \in Seq(Domain) /\ Len(entries) <= MaxEntries
  /\ rows \subseteq Entry /\ ingested \subseteq rows /\ copied \subseteq rows
  /\ pc \in [Actor -> Phase]
  /\ draft \in [Actor -> Entry \cup {0}]
  /\ \A a \in Actor : pc[a] \in {"noting", "storing"} <=> draft[a] # 0
  /\ batch \in [Actor -> SUBSET rows] /\ left \in [Actor -> SUBSET rows]
  /\ bad \in [Actor -> SUBSET Domain]
  /\ \A a \in Actor : left[a] \subseteq batch[a] /\ Cardinality(batch[a]) <= Limit
  /\ missed \in [Actor -> SUBSET rows] /\ late \subseteq rows

Init ==
  /\ entries = <<>> /\ rows = {} /\ ingested = {} /\ copied = {}
  /\ pc = [a \in Actor |-> "idle"] /\ draft = [a \in Actor |-> 0]
  /\ batch = [a \in Actor |-> {}] /\ left = [a \in Actor |-> {}]
  /\ bad = [a \in Actor |-> {}]
  /\ missed = [a \in Actor |-> {}] /\ late = {}

-----------------------------------------------------------------------------
(* Storing entries *)

\* store_entry takes the timestamp.
Stamp(a, domain) ==
  /\ Len(entries) < MaxEntries
  /\ entries' = Append(entries, domain)
  /\ draft' = [draft EXCEPT ![a] = Len(entries) + 1]
  /\ UNCHANGED <<rows, ingested, copied, work, missed, late>>

\* `hf memory store`
StoreEntry(a, domain) ==
  /\ pc[a] = "idle" /\ pc' = [pc EXCEPT ![a] = "noting"]
  /\ Stamp(a, domain)

\* A run has reached completed: MemoryMiddleware calls _learn.
Learn(a) ==
  /\ pc[a] = "idle"
  /\ pc' = [pc EXCEPT ![a] = "learning"]
  /\ UNCHANGED <<table, copied, draft, work, missed, late>>

\* _learn stores the result of one more subtask.
StoreResult(a) ==
  /\ pc[a] = "learning" /\ pc' = [pc EXCEPT ![a] = "storing"]
  /\ Stamp(a, RunResult)

\* store_entry inserts the row.
Insert(a) ==
  /\ pc[a] \in {"noting", "storing"}
  /\ rows' = rows \cup {draft[a]}
  /\ pc' = [pc EXCEPT ![a] = IF @ = "noting" THEN "idle" ELSE "learning"]
  /\ draft' = [draft EXCEPT ![a] = 0]
  /\ missed' = [b \in Actor |-> IF \E e \in batch[b] : draft[a] < e
                                THEN missed[b] \cup {draft[a]} ELSE missed[b]]
  /\ late' = IF \E e \in ingested : draft[a] < e THEN late \cup {draft[a]} ELSE late
  /\ UNCHANGED <<entries, ingested, copied, work>>

-----------------------------------------------------------------------------
(* Fetching, adding and marking *)

\* Two mutants of Oldest: the newest first; no limit.
Newest    == {e \in Waiting : Cardinality({f \in Waiting : f > e}) < Limit}
Unlimited == Waiting

\* get_uningested: the oldest entries not marked, up to the limit.
Oldest == {e \in Waiting : Cardinality({f \in Waiting : f < e}) < Limit}

\* After the results are stored, or storing one of them failed, or by `hf memory
\* organize`.  With nothing to do the actor is done.
Fetch(a) ==
  /\ pc[a] \in {"idle", "learning", "storing"}
  /\ pc' = [pc EXCEPT ![a] = IF Oldest = {} THEN "idle" ELSE "adding"]
  /\ batch' = [batch EXCEPT ![a] = Oldest] /\ left' = [left EXCEPT ![a] = Oldest]
  /\ bad' = [bad EXCEPT ![a] = {}] /\ draft' = [draft EXCEPT ![a] = 0]
  /\ missed' = [missed EXCEPT ![a] = {}]
  /\ UNCHANGED <<table, copied, late>>

Group(a, e) == {f \in batch[a] : entries[f] = entries[e]}

\* batch_ingest takes the domains in the order of their first entry, and the
\* entries of a domain in order.
Before(a, e, f) ==
  \/ entries[e] = entries[f] /\ e <= f
  \/ \E g \in Group(a, e) : \A h \in Group(a, f) : g < h

Turn(a, e) ==
  /\ pc[a] = "adding" /\ e \in left[a] /\ \A f \in left[a] : Before(a, e, f)
  /\ UNCHANGED <<table, pc, draft, batch, missed, late>>

Add(a, e) ==
  /\ Turn(a, e)
  /\ copied' = copied \cup {e}
  /\ left' = [left EXCEPT ![a] = @ \ {e}]
  /\ UNCHANGED bad

\* A mutant of AddFails: the entry is skipped and its domain still counts.
AddFailsUncounted(a, e) ==
  /\ Turn(a, e)
  /\ left' = [left EXCEPT ![a] = @ \ {e}]
  /\ UNCHANGED <<copied, bad>>

\* cognee.add raises: the rest of the domain is not tried, and none of it counts.
AddFails(a, e) ==
  /\ Turn(a, e)
  /\ left' = [left EXCEPT ![a] = @ \ Group(a, e)]
  /\ bad' = [bad EXCEPT ![a] = @ \cup {entries[e]}]
  /\ UNCHANGED copied

\* A mutant of Counted: only a batch that was added completely counts.
CountedWhole(a) == bad[a] = {}

\* batch_ingest returned more than 0.
Counted(a) == \E e \in batch[a] : entries[e] \notin bad[a]

Done(a) ==
  /\ pc[a] = "adding" /\ left[a] = {}
  /\ pc' = [pc EXCEPT ![a] = "idle"]
  /\ batch' = [batch EXCEPT ![a] = {}] /\ bad' = [bad EXCEPT ![a] = {}]
  /\ missed' = [missed EXCEPT ![a] = {}]
  /\ UNCHANGED <<entries, rows, copied, draft, left>>

\* A count above 0 marks the whole batch, the entries that failed included.
Mark(a) ==
  /\ Done(a)
  /\ ingested' = IF Counted(a) THEN ingested \cup batch[a] ELSE ingested
  /\ late' = IF Counted(a) THEN late \cup missed[a] ELSE late

\* The actor goes away: the process dies, the run is cancelled at an await, a
\* database call fails, or there is no Cognee to organize into.
Abandon(a) ==
  /\ pc[a] # "idle"
  /\ pc' = [pc EXCEPT ![a] = "idle"]
  /\ batch' = [batch EXCEPT ![a] = {}] /\ left' = [left EXCEPT ![a] = {}]
  /\ bad' = [bad EXCEPT ![a] = {}] /\ draft' = [draft EXCEPT ![a] = 0]
  /\ missed' = [missed EXCEPT ![a] = {}]
  /\ UNCHANGED <<table, copied, late>>

-----------------------------------------------------------------------------

Ingest(a) == (\E e \in left[a] : Add(a, e) \/ AddFails(a, e)) \/ Mark(a)

Next ==
  \/ \E a \in Actor, d \in Domain : StoreEntry(a, d)
  \/ \E a \in Actor : Learn(a) \/ StoreResult(a) \/ Insert(a) \/ Fetch(a) \/ Ingest(a) \/ Abandon(a)

Spec == Init /\ [][Next]_vars

\* An actor that has fetched a batch goes on with it, unless it is abandoned;
\* nothing obliges anybody to store, to complete a run or to organize.
FairSpec == Spec /\ \A a \in Actor : WF_vars(Ingest(a))
=============================================================================
