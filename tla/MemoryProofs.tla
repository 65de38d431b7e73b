----------------------------- MODULE MemoryProofs -----------------------------
(***************************************************************************)
(* Proofs, for every number of actors, every set of domains and every      *)
(* limit, of the safety of Memory: IngestInv is an inductive invariant.    *)
(***************************************************************************)
EXTENDS MemoryProperties, TLAPS, FiniteSetTheorems

-----------------------------------------------------------------------------
(* The batch that get_uningested returns *)

Below(e) == {f \in Waiting : f < e}

\* The entries of the table are the positions up to its length, and finite.
LEMMA EntriesCounted ==
  ASSUME TypeOK
  PROVE  /\ Entry = 1 .. Len(entries) /\ Len(entries) \in Nat
         /\ rows \subseteq Entry
         /\ \A S \in SUBSET Entry : IsFiniteSet(S) /\ Cardinality(S) \in Nat
<1>1. Entry = 1 .. Len(entries) /\ Len(entries) \in Nat
  BY DEF TypeOK, Entry
<1>2. IsFiniteSet(Entry)
  BY <1>1, FS_Interval
<1> QED
  BY <1>1, <1>2, FS_Subset, FS_CardinalityType DEF TypeOK

\* Of two waiting entries the younger has more waiting entries before it.
LEMMA BelowGrows ==
  ASSUME TypeOK, NEW e \in Waiting, NEW f \in Waiting, e < f
  PROVE  Cardinality(Below(e)) < Cardinality(Below(f))
<1>1. Below(e) \subseteq Below(f) /\ e \in Below(f) /\ e \notin Below(e) /\ Below(f) \subseteq Entry
  BY EntriesCounted DEF Below, Waiting
<1>2. IsFiniteSet(Below(f)) /\ Cardinality(Below(f)) \in Nat /\ Cardinality(Below(e)) \in Nat
  BY <1>1, EntriesCounted
<1>3. Cardinality(Below(e)) <= Cardinality(Below(f)) /\ Cardinality(Below(e)) # Cardinality(Below(f))
  BY <1>1, <1>2, FS_Subset
<1> QED
  BY <1>2, <1>3

\* The batch has at most Limit entries: they have different numbers of waiting
\* entries before them, all below Limit.
LEMMA BatchLimited ==
  ASSUME TypeOK
  PROVE  Oldest \subseteq Waiting /\ Cardinality(Oldest) <= Limit
<1>1. Oldest \subseteq Waiting /\ Oldest \subseteq Entry
  BY EntriesCounted DEF Oldest, Waiting
<1>2. IsFiniteSet(Oldest) /\ Cardinality(Oldest) \in Nat
  BY <1>1, EntriesCounted
<1>3. IsFiniteSet(0 .. Limit - 1) /\ Cardinality(0 .. Limit - 1) = Limit
  BY MemoryAssumption, FS_Interval
<1> DEFINE rank == [e \in Oldest |-> Cardinality(Below(e))]
<1>4. rank \in [Oldest -> 0 .. Limit - 1]
  <2> SUFFICES ASSUME NEW e \in Oldest PROVE Cardinality(Below(e)) \in 0 .. Limit - 1
    OBVIOUS
  <2>1. Cardinality(Below(e)) \in Nat
    BY EntriesCounted DEF Below, Waiting
  <2>2. Cardinality(Below(e)) < Limit
    BY DEF Oldest, Below
  <2> QED
    BY <2>1, <2>2, MemoryAssumption
<1>5. \A e, f \in Oldest : e # f => rank[e] # rank[f]
  <2> SUFFICES ASSUME NEW e \in Oldest, NEW f \in Oldest, e # f
               PROVE  Cardinality(Below(e)) # Cardinality(Below(f))
    OBVIOUS
  <2>1. /\ e \in Waiting /\ f \in Waiting /\ e \in Nat /\ f \in Nat
        /\ Cardinality(Below(e)) \in Nat /\ Cardinality(Below(f)) \in Nat
    BY <1>1, EntriesCounted DEF Below, Waiting
  <2>2. CASE e < f
    BY <2>1, <2>2, BelowGrows
  <2>3. CASE f < e
    BY <2>1, <2>3, BelowGrows
  <2> QED
    BY <2>1, <2>2, <2>3
<1> HIDE DEF rank
<1>6. ~ (Limit < Cardinality(Oldest))
  BY <1>2, <1>3, <1>4, <1>5, FS_PigeonHole
<1> QED
  BY <1>1, <1>2, <1>6, MemoryAssumption

\* The batch leaves no older entry waiting.
LEMMA BatchIsOldest ==
  ASSUME TypeOK, NEW e \in Oldest, NEW f \in rows, f < e
  PROVE  f \in ingested \cup Oldest
<1>1. e \in Waiting /\ e \in Entry /\ f \in Entry
  BY EntriesCounted DEF Oldest, Waiting
<1>2. CASE f \in Waiting
  <2>1. Cardinality(Below(f)) < Cardinality(Below(e)) /\ Cardinality(Below(e)) < Limit
    BY <1>1, <1>2, BelowGrows DEF Oldest, Below
  <2>2. Cardinality(Below(f)) \in Nat /\ Cardinality(Below(e)) \in Nat
    BY EntriesCounted DEF Below, Waiting
  <2>3. Cardinality(Below(f)) < Limit
    BY <2>1, <2>2, MemoryAssumption
  <2> QED
    BY <1>2, <2>3 DEF Oldest, Below
<1> QED
  BY <1>2 DEF Waiting

-----------------------------------------------------------------------------
(* Every step keeps IngestInv *)

\* Initially the table is empty.
LEMMA MemoryInit == Init => IngestInv
<1> SUFFICES ASSUME Init PROVE IngestInv
  OBVIOUS
<1>1. TypeOK
  BY MemoryAssumption, FS_EmptySet DEF Init, TypeOK, Entry, Phase
<1>2. OldestFirst /\ BatchInv /\ LateInv
  BY DEF Init, OldestFirst, BatchInv, LateInv
<1> QED
  BY <1>1, <1>2 DEF IngestInv

\* A further timestamp changes nothing about the entries before it.
LEMMA StampKeeps ==
  ASSUME IngestInv, NEW a \in Actor, NEW d \in Domain, Stamp(a, d),
         pc' \in [Actor -> Phase], \A b \in Actor \ {a} : pc'[b] = pc[b],
         pc'[a] \in {"noting", "storing"}
  PROVE  IngestInv'
<1> USE DEF IngestInv, Stamp, work
<1>1. entries \in Seq(Domain) /\ Entry = 1 .. Len(entries) /\ Len(entries) \in Nat
  BY EntriesCounted DEF TypeOK
<1>2. /\ entries' \in Seq(Domain) /\ Len(entries') = Len(entries) + 1
      /\ Entry' = 1 .. Len(entries) + 1
      /\ \A e \in Entry : entries'[e] = entries[e]
  BY <1>1 DEF Entry
<1>3. TypeOK'
  <2>1. Len(entries') <= MaxEntries
    BY <1>1, <1>2, MemoryAssumption
  <2>2. Entry \subseteq Entry' /\ Len(entries) + 1 \in Entry' /\ Len(entries) + 1 # 0
    BY <1>1, <1>2
  <2>3. draft' \in [Actor -> Entry' \cup {0}]
    BY <2>2 DEF TypeOK
  <2>4. \A b \in Actor : pc'[b] \in {"noting", "storing"} <=> draft'[b] # 0
    BY <2>2 DEF TypeOK
  <2> QED
    BY <1>2, <2>1, <2>2, <2>3, <2>4 DEF TypeOK
<1>4. OldestFirst' /\ LateInv'
  BY DEF OldestFirst, LateInv
<1>5. BatchInv'
  <2> SUFFICES ASSUME NEW b \in Actor, NEW e \in batch[b] \ left[b]
               PROVE  entries'[e] \in bad[b] \/ e \in copied
    BY DEF BatchInv
  <2>1. e \in Entry
    BY EntriesCounted DEF TypeOK
  <2> QED
    BY <1>2, <2>1 DEF BatchInv
<1> QED
  BY <1>3, <1>4, <1>5

\* A row that appears among newer ones that are fetched or marked is recorded.
LEMMA InsertKeeps ==
  ASSUME IngestInv, NEW a \in Actor, Insert(a)
  PROVE  IngestInv'
<1> USE DEF IngestInv, Insert, work
<1>0. Entry' = Entry /\ draft[a] \in Entry /\ rows' = rows \cup {draft[a]}
  BY DEF Entry, TypeOK
<1>1. TypeOK'
  <2>1. pc' \in [Actor -> Phase] /\ draft' \in [Actor -> Entry \cup {0}]
    BY DEF TypeOK, Phase
  <2>2. \A b \in Actor : pc'[b] \in {"noting", "storing"} <=> draft'[b] # 0
    BY DEF TypeOK
  <2>3. missed' \in [Actor -> SUBSET rows'] /\ late' \subseteq rows'
    BY <1>0 DEF TypeOK
  <2>4. batch' \in [Actor -> SUBSET rows'] /\ left' \in [Actor -> SUBSET rows']
    BY <1>0 DEF TypeOK
  <2> QED
    BY <1>0, <2>1, <2>2, <2>3, <2>4 DEF TypeOK
<1>2. OldestFirst'
  BY <1>0 DEF OldestFirst
<1>3. BatchInv'
  <2>1. ASSUME NEW b \in Actor, NEW e \in batch[b], NEW f \in rows', f < e
        PROVE  f \in ingested \cup batch[b] \cup missed'[b] \cup late'
    <3>1. CASE f = draft[a]
      BY <2>1, <3>1
    <3>2. CASE f \in rows
      BY <2>1, <3>2 DEF BatchInv
    <3> QED
      BY <1>0, <2>1, <3>1, <3>2
  <2> QED
    BY <2>1 DEF BatchInv
<1>4. LateInv'
  BY DEF LateInv
<1> QED
  BY <1>1, <1>2, <1>3, <1>4

\* A batch is fetched as BatchLimited and BatchIsOldest say.
LEMMA FetchKeeps ==
  ASSUME IngestInv, NEW a \in Actor, Fetch(a)
  PROVE  IngestInv'
<1> USE DEF IngestInv, Fetch, table
<1>0. Oldest \subseteq rows /\ Cardinality(Oldest) <= Limit /\ Entry' = Entry
  BY BatchLimited DEF Waiting, Entry
<1>1. TypeOK'
  <2>1. pc' \in [Actor -> Phase] /\ draft' \in [Actor -> Entry \cup {0}]
    BY DEF TypeOK, Phase
  <2>2. \A b \in Actor : pc'[b] \in {"noting", "storing"} <=> draft'[b] # 0
    BY DEF TypeOK
  <2> QED
    BY <1>0, <2>1, <2>2 DEF TypeOK
<1>2. OldestFirst' /\ LateInv'
  BY DEF OldestFirst, LateInv, TypeOK
<1>3. BatchInv'
  BY BatchIsOldest DEF BatchInv, TypeOK
<1> QED
  BY <1>1, <1>2, <1>3

\* An entry is added, or the rest of its domain is given up.
LEMMA AddKeeps ==
  ASSUME IngestInv, NEW a \in Actor, NEW e \in left[a], Add(a, e) \/ AddFails(a, e)
  PROVE  IngestInv'
<1> USE DEF IngestInv, Turn, table
<1>0. /\ UNCHANGED <<entries, rows, ingested, pc, draft, batch, missed, late>>
      /\ Entry' = Entry /\ copied \subseteq copied'
  BY DEF Add, AddFails, Entry
<1>1. e \in rows /\ entries[e] \in Domain
  BY DEF TypeOK, Entry
<1>2. TypeOK'
  BY <1>0, <1>1 DEF TypeOK, Add, AddFails
<1>3. OldestFirst' /\ LateInv'
  BY <1>0 DEF OldestFirst, LateInv
<1>4. BatchInv'
  <2>1. CASE Add(a, e)
    BY <1>0, <2>1 DEF BatchInv, TypeOK, Add
  <2>2. CASE AddFails(a, e)
    BY <1>0, <2>2 DEF BatchInv, TypeOK, AddFails, Group
  <2> QED
    BY <2>1, <2>2
<1> QED
  BY <1>2, <1>3, <1>4

\* A batch is marked whole, and with it what it missed becomes late.
LEMMA MarkKeeps ==
  ASSUME IngestInv, NEW a \in Actor, Mark(a)
  PROVE  IngestInv'
<1> USE DEF IngestInv, Mark, Done
<1>0. /\ UNCHANGED <<entries, rows, copied, draft, left>> /\ Entry' = Entry /\ left[a] = {}
      /\ \/ ingested' = ingested /\ late' = late
         \/ ingested' = ingested \cup batch[a] /\ late' = late \cup missed[a]
      /\ batch' = [batch EXCEPT ![a] = {}] /\ bad' = [bad EXCEPT ![a] = {}]
      /\ missed' = [missed EXCEPT ![a] = {}]
  BY DEF Entry
<1>1. TypeOK'
  <2>1. Cardinality({}) <= Limit
    BY FS_EmptySet, MemoryAssumption
  <2> QED
    BY <1>0, <2>1 DEF TypeOK, Phase
<1>2. OldestFirst'
  BY <1>0 DEF OldestFirst, BatchInv
<1>3. BatchInv'
  BY <1>0 DEF BatchInv, TypeOK
<1>4. LateInv'
  BY <1>0 DEF LateInv, TypeOK
<1> QED
  BY <1>1, <1>2, <1>3, <1>4

\* An actor that goes away takes only its draft and its batch with it.
LEMMA AbandonKeeps ==
  ASSUME IngestInv, NEW a \in Actor, Abandon(a)
  PROVE  IngestInv'
<1> USE DEF IngestInv, Abandon, table
<1>0. Entry' = Entry
  BY DEF Entry
<1>1. TypeOK'
  <2>1. Cardinality({}) <= Limit
    BY FS_EmptySet, MemoryAssumption
  <2> QED
    BY <1>0, <2>1 DEF TypeOK, Phase
<1>2. OldestFirst' /\ BatchInv' /\ LateInv'
  BY DEF OldestFirst, BatchInv, LateInv, TypeOK
<1> QED
  BY <1>1, <1>2

-----------------------------------------------------------------------------
(* The theorems *)

\* IngestInv holds in every reachable state.
THEOREM MemoryInvariance == Spec => []IngestInv
<1>1. IngestInv /\ [Next]_vars => IngestInv'
  <2> SUFFICES ASSUME IngestInv, [Next]_vars PROVE IngestInv'
    OBVIOUS
  <2>1. ASSUME NEW a \in Actor, NEW d \in Domain, StoreEntry(a, d) PROVE IngestInv'
    BY <2>1, StampKeeps DEF StoreEntry, IngestInv, TypeOK, Phase
  <2>2. ASSUME NEW a \in Actor, StoreResult(a) PROVE IngestInv'
    BY <2>2, StampKeeps, MemoryAssumption DEF StoreResult, IngestInv, TypeOK, Phase
  <2>3. ASSUME NEW a \in Actor, Learn(a) PROVE IngestInv'
    <3>1. /\ UNCHANGED <<entries, rows, ingested, copied, draft, batch, left, bad, missed, late>>
          /\ pc' \in [Actor -> Phase]
          /\ \A b \in Actor : pc'[b] \in {"noting", "storing"} <=> draft'[b] # 0
      BY <2>3 DEF Learn, table, work, IngestInv, TypeOK, Phase
    <3> QED
      BY <3>1 DEF IngestInv, TypeOK, Entry, OldestFirst, BatchInv, LateInv
  <2>4. ASSUME NEW a \in Actor, Fetch(a) PROVE IngestInv'
    BY <2>4, FetchKeeps
  <2>5. ASSUME NEW a \in Actor, Ingest(a) PROVE IngestInv'
    BY <2>5, AddKeeps, MarkKeeps DEF Ingest
  <2>6. ASSUME NEW a \in Actor, Abandon(a) PROVE IngestInv'
    BY <2>6, AbandonKeeps
  <2>7. ASSUME NEW a \in Actor, Insert(a) PROVE IngestInv'
    BY <2>7, InsertKeeps
  <2>8. CASE UNCHANGED vars
    BY <2>8 DEF vars, table, work, IngestInv, TypeOK, Entry, OldestFirst, BatchInv, LateInv
  <2> QED
    BY <2>1, <2>2, <2>3, <2>4, <2>5, <2>6, <2>7, <2>8 DEF Next
<1> QED
  BY MemoryInit, <1>1, PTL DEF Spec

\* The table and the batches keep their types, and no batch exceeds the limit.
THEOREM MemoryTypes == Spec => []TypeOK
<1>1. IngestInv => TypeOK
  BY DEF IngestInv
<1> QED
  BY MemoryInvariance, <1>1, PTL

\* An entry is never marked while an older one waits that was in the table when it
\* was fetched.
THEOREM MarkedInOrder == Spec => []OldestFirst
<1>1. IngestInv => OldestFirst
  BY DEF IngestInv
<1> QED
  BY MemoryInvariance, <1>1, PTL

\* Marking is the only step that marks; the domain for which the batch counted came
\* through completely, and an entry of it that has no copy is of another.
LEMMA MarkLoses ==
  ASSUME IngestInv, NEW a \in Actor, Mark(a),
         NEW e \in ingested' \ ingested, e \notin copied
  PROVE  /\ pc'[a] # pc[a] /\ e \in batch[a]
         /\ \E d \in Domain \ {entries[e]} : Delivered(a, d)
<1> USE DEF IngestInv, Mark, Done
<1>1. Counted(a) /\ e \in batch[a] /\ left[a] = {} /\ pc'[a] # pc[a]
  BY DEF TypeOK
<1>2. PICK g \in batch[a] : entries[g] \notin bad[a]
  BY <1>1 DEF Counted
<1>3. entries[g] \in Domain
  BY <1>2 DEF TypeOK, Entry
<1>4. \A h \in batch[a] : entries[h] = entries[g] => h \in copied
  BY <1>1, <1>2 DEF BatchInv
<1>5. Delivered(a, entries[g]) /\ entries[g] # entries[e]
  BY <1>1, <1>2, <1>4 DEF Delivered
<1> QED
  BY <1>1, <1>3, <1>5

\* An entry is marked without a copy only with a batch of which another domain was
\* delivered completely.
THEOREM LossIsPartial == Spec => LostBesideAnother
<1> DEFINE Loss == \A e \in ingested' \ ingested :
                     e \in copied'
                     \/ \E a \in Actor : /\ pc'[a] # pc[a] /\ e \in batch[a]
                                         /\ \E d \in Domain \ {entries[e]} : Delivered(a, d)
<1>1. IngestInv /\ [Next]_vars => [Loss]_vars
  <2> SUFFICES ASSUME IngestInv, [Next]_vars, NEW e \in ingested' \ ingested, e \notin copied'
               PROVE  \E a \in Actor : /\ pc'[a] # pc[a] /\ e \in batch[a]
                                       /\ \E d \in Domain \ {entries[e]} : Delivered(a, d)
    OBVIOUS
  <2>1. ASSUME ingested' = ingested PROVE FALSE
    BY <2>1
  <2>2. PICK a \in Actor : Mark(a)
    BY <2>1 DEF Next, vars, table, work, StoreEntry, StoreResult, Stamp, Learn, Insert,
                Fetch, Ingest, Add, AddFails, Turn, Abandon
  <2>3. e \notin copied
    BY <2>2 DEF Mark, Done
  <2> QED
    BY <2>2, <2>3, MarkLoses
<1> QED
  BY MemoryInvariance, <1>1, PTL DEF LostBesideAnother, Spec
=============================================================================
