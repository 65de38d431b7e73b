---------------------------- MODULE PlanningProofs ----------------------------
(***************************************************************************)
(* Proofs, for all descriptions, answers and numbers of polls, that the    *)
(* plan is what the planner made of the answer: PlanInv is an inductive    *)
(* invariant of Planning, and the properties of PlanningProperties follow  *)
(* from it.                                                                *)
(***************************************************************************)
EXTENDS PlanningProperties, TLAPS, FiniteSetTheorems, SequenceTheorems, FunctionTheorems

-----------------------------------------------------------------------------
(* Places in a set of positions *)

\* The places of the elements of a set of positions are 1, 2, ... up to its size,
\* each taken once.
LEMMA Places ==
  ASSUME NEW n \in Nat, NEW P \in SUBSET (1 .. n)
  PROVE  /\ IsFiniteSet(P) /\ Cardinality(P) \in Nat
         /\ \A i \in P : Place(P, i) \in 1 .. Cardinality(P)
         /\ \A i, j \in P : i < j => Place(P, i) < Place(P, j)
         /\ \A i, j \in P : Place(P, i) = Place(P, j) => i = j
         /\ \A k \in 1 .. Cardinality(P) : \E i \in P : Place(P, i) = k
<1> DEFINE Upto(i) == {j \in P : j <= i}
<1>1. IsFiniteSet(P) /\ Cardinality(P) \in Nat
  <2>1. 1 \in Int /\ n \in Int
    OBVIOUS
  <2>2. IsFiniteSet(1 .. n)
    BY <2>1, FS_Interval
  <2> QED
    BY <2>2, FS_Subset, FS_CardinalityType
<1>2. \A i \in P : IsFiniteSet(Upto(i)) /\ Place(P, i) = Cardinality(Upto(i))
  BY <1>1, FS_Subset DEF Place
<1>3. ASSUME NEW i \in P PROVE Place(P, i) \in 1 .. Cardinality(P)
  <2>1. Upto(i) \in SUBSET P /\ i \in Upto(i)
    OBVIOUS
  <2>2. Cardinality(Upto(i)) \in Nat /\ Cardinality(Upto(i)) <= Cardinality(P)
    BY <1>1, <1>2, <2>1, FS_Subset, FS_CardinalityType
  <2>3. Cardinality(Upto(i)) # 0
    BY <1>2, <2>1, FS_EmptySet
  <2> QED
    BY <1>1, <1>2, <2>2, <2>3
<1>4. ASSUME NEW i \in P, NEW j \in P, i < j PROVE Place(P, i) < Place(P, j)
  <2>0. j <= j /\ ~(j <= i) /\ \A k \in P : k <= i => k <= j
    <3>1. i \in Int /\ j \in Int /\ \A k \in P : k \in Int
      OBVIOUS
    <3> QED
      BY <1>4, <3>1
  <2>1. Upto(i) \in SUBSET Upto(j) /\ j \in Upto(j) /\ j \notin Upto(i)
    BY <2>0
  <2>2. Cardinality(Upto(i)) <= Cardinality(Upto(j)) /\ Cardinality(Upto(i)) # Cardinality(Upto(j))
    BY <1>2, <2>1, FS_Subset
  <2> QED
    BY <1>2, <1>3, <2>2, <1>1
<1>5. ASSUME NEW i \in P, NEW j \in P, Place(P, i) = Place(P, j) PROVE i = j
  <2>1. i \in Int /\ j \in Int /\ Place(P, i) \in Int
    BY <1>1, <1>3
  <2>2. ~(i < j) /\ ~(j < i)
    BY <1>4, <1>5, <2>1
  <2> QED
    BY <2>1, <2>2
<1>6. \A k \in 1 .. Cardinality(P) : \E i \in P : Place(P, i) = k
  <2> DEFINE f == [i \in P |-> Place(P, i)]
             T == 1 .. Cardinality(P)
  <2>1. f \in [P -> T]
    BY <1>3
  <2>2. \A i, j \in P : f[i] = f[j] => i = j
    BY <1>5
  <2>3. f \in Injection(P, T)
    BY <2>1, <2>2 DEF Injection, IsInjective
  <2>4. IsFiniteSet(T) /\ Cardinality(T) = Cardinality(P)
    BY <1>1, FS_Interval
  <2>5. f \in Surjection(P, T)
    BY <2>3, <2>4, FS_Injection
  <2>6. \A k \in T : \E i \in P : f[i] = k
    BY <2>5 DEF Surjection
  <2> QED
    BY <2>6
<1> QED
  BY <1>1, <1>3, <1>4, <1>5, <1>6

\* A set of positions that is not empty has a last one.
LEMMA Last ==
  ASSUME NEW n \in Nat, NEW P \in SUBSET (1 .. n), P # {}
  PROVE  \E j \in P : \A k \in P : k <= j
<1>1. Cardinality(P) \in Nat /\ Cardinality(P) # 0
  BY Places, FS_EmptySet
<1>2. PICK j \in P : Place(P, j) = Cardinality(P)
  <2>1. Cardinality(P) \in 1 .. Cardinality(P)
    BY <1>1
  <2>2. \A k \in 1 .. Cardinality(P) : \E i \in P : Place(P, i) = k
    BY Places
  <2> QED
    BY <2>1, <2>2
<1>3. \A k \in P : j < k => Place(P, j) < Place(P, k) /\ Place(P, k) \in 1 .. Cardinality(P)
  BY Places
<1>4. \A k \in P : k \in Int
  OBVIOUS
<1>5. \A k \in P : ~(j < k)
  BY <1>1, <1>2, <1>3
<1> QED
  BY <1>4, <1>5

-----------------------------------------------------------------------------
(* Stripping and capping *)

\* What is left of an answer is the items of the answer that are not ceremony, each
\* of them, and from different positions.
LEMMA WorkOfAnswer ==
  ASSUME NEW a \in Seq(Item)
  PROVE  /\ Work(a) \in Seq(Item)
         /\ \A k \in DOMAIN Work(a) : \E i \in DOMAIN a : Work(a)[k] = a[i]
         /\ \A i \in DOMAIN a : a[i].desc \notin Ceremony => \E k \in DOMAIN Work(a) : Work(a)[k] = a[i]
         /\ Distinct(a) => Distinct(Work(a))
<1> DEFINE P == WorkAt(a)
           at(k) == CHOOSE i \in P : Place(P, i) = k
           n == Cardinality(P)
<1>1. DOMAIN a = 1 .. Len(a) /\ Len(a) \in Nat /\ \A i \in 1 .. Len(a) : a[i] \in Item
  BY LenProperties
<1>2. P \in SUBSET (1 .. Len(a))
  BY <1>1 DEF WorkAt
<1>3. n \in Nat
  BY <1>1, <1>2, Places
<1>4. \A k \in 1 .. n : at(k) \in P /\ Place(P, at(k)) = k
  <2>1. \A k \in 1 .. n : \E i \in P : Place(P, i) = k
    BY <1>1, <1>2, Places
  <2> QED
    BY <2>1
<1>5. Work(a) = [k \in 1 .. n |-> a[at(k)]]
  BY DEF Work
<1>6. Work(a) \in Seq(Item) /\ DOMAIN Work(a) = 1 .. n
  <2>1. \A k \in 1 .. n : a[at(k)] \in Item
    BY <1>1, <1>2, <1>4
  <2>2. Work(a) \in [1 .. n -> Item]
    BY <1>5, <2>1
  <2> QED
    BY <1>3, <1>5, <2>2, SeqDef
<1>7. \A k \in DOMAIN Work(a) : \E i \in DOMAIN a : Work(a)[k] = a[i]
  BY <1>1, <1>2, <1>4, <1>5, <1>6
<1>8. ASSUME NEW i \in DOMAIN a, a[i].desc \notin Ceremony
      PROVE  \E k \in DOMAIN Work(a) : Work(a)[k] = a[i]
  <2>1. i \in P
    BY <1>8 DEF WorkAt
  <2>2. Place(P, i) \in 1 .. n
    BY <1>1, <1>2, <2>1, Places
  <2>3. at(Place(P, i)) = i
    <3>1. at(Place(P, i)) \in P /\ Place(P, at(Place(P, i))) = Place(P, i)
      BY <1>4, <2>2
    <3>2. \A j, k \in P : Place(P, j) = Place(P, k) => j = k
      BY <1>1, <1>2, Places
    <3> QED
      BY <2>1, <3>1, <3>2
  <2>4. Work(a)[Place(P, i)] = a[i]
    BY <1>5, <2>2, <2>3
  <2> QED
    BY <1>6, <2>2, <2>4
<1>9. ASSUME Distinct(a) PROVE Distinct(Work(a))
  <2> SUFFICES ASSUME NEW k \in 1 .. n, NEW l \in 1 .. n, Work(a)[k].desc = Work(a)[l].desc
               PROVE  k = l
    BY <1>6 DEF Distinct
  <2>1. a[at(k)].desc = a[at(l)].desc /\ at(k) \in DOMAIN a /\ at(l) \in DOMAIN a
    BY <1>1, <1>2, <1>4, <1>5
  <2>2. at(k) = at(l)
    BY <1>9, <2>1 DEF Distinct
  <2> QED
    BY <1>4, <2>2
<1> QED
  BY <1>6, <1>7, <1>8, <1>9

\* A capped list is the first items of the list, all of them unless it is full.
LEMMA CappedList ==
  ASSUME NEW a \in Seq(Item), NEW n \in Nat
  PROVE  /\ Capped(a, n) \in Seq(Item)
         /\ DOMAIN Capped(a, n) = 1 .. Len(Capped(a, n)) /\ Len(Capped(a, n)) <= n
         /\ DOMAIN Capped(a, n) \subseteq DOMAIN a
         /\ \A i \in DOMAIN Capped(a, n) : Capped(a, n)[i] = a[i]
         /\ Len(Capped(a, n)) = n \/ DOMAIN Capped(a, n) = DOMAIN a
<1>1. DOMAIN a = 1 .. Len(a) /\ \A i \in 1 .. Len(a) : a[i] \in Item
  BY LenProperties
<1>2. Len(a) \in Nat
  BY LenProperties
<1>3. PICK m \in Nat : m = IF Len(a) < n THEN Len(a) ELSE n
  BY <1>2
<1>4. m <= Len(a) /\ m <= n /\ (m = n \/ m = Len(a))
  BY <1>2, <1>3
<1>5. Capped(a, n) = SubSeq(a, 1, m)
  BY <1>3 DEF Capped
<1>6. 1 .. m \subseteq 1 .. Len(a)
  BY <1>2, <1>4
<1>7. /\ SubSeq(a, 1, m) \in Seq(Item)
      /\ Len(SubSeq(a, 1, m)) = IF 1 <= m THEN m - 1 + 1 ELSE 0
      /\ \A i \in 1 .. m - 1 + 1 : SubSeq(a, 1, m)[i] = a[1 + i - 1]
  <2>1. 1 \in Int /\ m \in Int
    OBVIOUS
  <2>2. \A i \in 1 .. m : a[i] \in Item
    BY <1>1, <1>6
  <2> QED
    BY <2>1, <2>2, SubSeqProperties
<1>8. Len(SubSeq(a, 1, m)) = m
  BY <1>7
<1>9. DOMAIN SubSeq(a, 1, m) = 1 .. m
  BY <1>7, <1>8, LenProperties
<1>10. \A i \in 1 .. m : SubSeq(a, 1, m)[i] = a[i]
  BY <1>7
<1> QED
  BY <1>1, <1>4, <1>5, <1>6, <1>7, <1>8, <1>9, <1>10

\* What is kept of an answer: items of the answer, at most as many as the tier has
\* room for, and all the work unless the tier is full.
LEMMA KeptOfAnswer ==
  ASSUME NEW a \in Seq(Item)
  PROVE  /\ Kept(a) \in Seq(Item) /\ Len(Kept(a)) <= Cap(complexity)
         /\ \A k \in DOMAIN Kept(a) : \E i \in DOMAIN a : Kept(a)[k] = a[i]
         /\ \/ Len(Kept(a)) = Cap(complexity)
            \/ \A i \in DOMAIN a :
                 a[i].desc \notin Ceremony => \E k \in DOMAIN Kept(a) : Kept(a)[k] = a[i]
         /\ Distinct(a) => Distinct(Kept(a))
<1>1. Cap(complexity) \in Nat
  BY DEF Cap
<1>2. /\ Work(a) \in Seq(Item)
      /\ \A k \in DOMAIN Work(a) : \E i \in DOMAIN a : Work(a)[k] = a[i]
      /\ \A i \in DOMAIN a : a[i].desc \notin Ceremony => \E k \in DOMAIN Work(a) : Work(a)[k] = a[i]
      /\ Distinct(a) => Distinct(Work(a))
  BY WorkOfAnswer
<1>3. Kept(a) = Capped(Work(a), Cap(complexity))
  BY DEF Kept
<1>4. /\ Kept(a) \in Seq(Item) /\ Len(Kept(a)) <= Cap(complexity)
      /\ DOMAIN Kept(a) \subseteq DOMAIN Work(a)
      /\ \A i \in DOMAIN Kept(a) : Kept(a)[i] = Work(a)[i]
      /\ Len(Kept(a)) = Cap(complexity) \/ DOMAIN Kept(a) = DOMAIN Work(a)
  BY <1>1, <1>2, <1>3, CappedList
<1>5. Distinct(a) => Distinct(Kept(a))
  BY <1>2, <1>4 DEF Distinct
<1> QED
  BY <1>2, <1>4, <1>5

-----------------------------------------------------------------------------
(* PlanInv is inductive *)

\* A description is resolved to a subtask that has it, or to 0.
LEMMA IdOfRange ==
  ASSUME subtasks \in Seq(Subtask), NEW d
  PROVE  /\ IdOf(d) \in 0 .. Len(subtasks)
         /\ Named(d) # {} => IdOf(d) \in Named(d)
         /\ Named(d) = {} => IdOf(d) = 0
<1>1. Len(subtasks) \in Nat /\ DOMAIN subtasks = 1 .. Len(subtasks)
  BY LenProperties
<1>2. Named(d) \in SUBSET (1 .. Len(subtasks))
  BY <1>1 DEF Named
<1>3. ASSUME Named(d) # {} PROVE IdOf(d) \in Named(d)
  <2>1. \E j \in Named(d) : \A k \in Named(d) : k <= j
    BY <1>1, <1>2, <1>3, Last
  <2> QED
    BY <1>3, <2>1 DEF IdOf
<1>4. ASSUME Named(d) = {} PROVE IdOf(d) = 0
  BY <1>4 DEF IdOf
<1>5. 0 \in 0 .. Len(subtasks) /\ 1 .. Len(subtasks) \subseteq 0 .. Len(subtasks)
  BY <1>1
<1> QED
  BY <1>2, <1>3, <1>4, <1>5

\* The subtasks made of a list of items are a list of subtasks.
LEMMA SubtasksOf ==
  ASSUME NEW a \in Seq(Item), NEW c \in BOOLEAN, NEW b,
         b = [i \in DOMAIN a |-> [desc |-> a[i].desc, deps |-> a[i].deps, criteria |-> c]]
  PROVE  /\ b \in Seq(Subtask) /\ DOMAIN b = DOMAIN a
         /\ \A i \in DOMAIN a : b[i].desc = a[i].desc /\ b[i].deps = a[i].deps
<1>1. DOMAIN a = 1 .. Len(a) /\ Len(a) \in Nat /\ \A i \in 1 .. Len(a) : a[i] \in Item
  BY LenProperties
<1>2. \A i \in 1 .. Len(a) : b[i] \in Subtask
  BY <1>1 DEF Item, Subtask
<1>3. b \in [1 .. Len(a) -> Subtask]
  BY <1>1, <1>2
<1>4. b \in Seq(Subtask)
  BY <1>1, <1>3, SeqDef
<1> QED
  BY <1>4

\* So is the whole task.
LEMMA WholeType ==
  ASSUME NEW c \in BOOLEAN
  PROVE  Whole(c) \in Seq(Subtask) /\ Len(Whole(c)) = 1 /\ Whole(c) # <<>>
<1>1. [desc |-> Task, deps |-> {}, criteria |-> c] \in Subtask
  BY PlanningAssumption DEF Subtask
<1> QED
  BY <1>1 DEF Whole

\* Nothing is planned in the beginning.
LEMMA PlanInit == Init => PlanInv
<1> SUFFICES ASSUME Init PROVE PlanInv
  OBVIOUS
<1>1. <<>> \in Seq(Item) /\ <<>> \in Seq(Subtask) /\ <<>> \in Seq(SUBSET (0 .. Len(<<>>)))
  OBVIOUS
<1>2. 0 \in 0 .. MaxPolls
  BY PlanningAssumption
<1> QED
  BY <1>1, <1>2
  DEF Init, PlanInv, TypeOK, ScoutGone, UnpolledInv, SourceInv, ResolvedInv, Phase, Brief, Complexity,
      ScoutState

\* The scout phase leaves the plan alone.
LEMMA ScoutStep == PlanInv /\ (Scout \/ Cancel) => PlanInv'
<1> SUFFICES ASSUME PlanInv, Scout \/ Cancel PROVE PlanInv'
  OBVIOUS
<1>0. TypeOK /\ ScoutGone /\ UnpolledInv /\ SourceInv /\ ResolvedInv
  BY DEF PlanInv
<1>1. /\ UNCHANGED <<smart, complexity, answer, subtasks, deps>>
      /\ pc \notin {"resolve", "planned"} /\ pc' \in Phase \ {"decompose", "resolve", "planned"}
      /\ scout' \in ScoutState /\ brief' \in Brief /\ ScoutGone' /\ UnpolledInv'
  <2>1. CASE SpawnScout
    BY <1>0, <2>1 DEF SpawnScout, planVars, TypeOK, ScoutGone, UnpolledInv, Phase, ScoutState
  <2>2. CASE ScoutReady
    BY <1>0, <2>2 DEF ScoutReady, planVars, TypeOK, ScoutGone, UnpolledInv, Phase, ScoutState
  <2>3. CASE ScoutNotReady
    BY <1>0, <2>3 DEF ScoutNotReady, planVars, TypeOK, ScoutGone, UnpolledInv, Phase, ScoutState
  <2>4. CASE PromptScout
    BY <1>0, <2>4 DEF PromptScout, scoutVars, planVars, TypeOK, ScoutGone, UnpolledInv, Phase, ScoutState
  <2>5. CASE PollScout
    BY <1>0, <2>5 DEF PollScout, planVars, TypeOK, ScoutGone, UnpolledInv, Phase, Parsed
  <2>6. CASE ReleaseScout
    BY <1>0, <2>6 DEF ReleaseScout, planVars, TypeOK, ScoutGone, UnpolledInv, Phase, ScoutState
  <2>7. CASE FallbackScout
    BY <1>0, <2>7 DEF FallbackScout, planVars, TypeOK, ScoutGone, UnpolledInv, Phase, Brief
  <2>8. CASE Cancel
    BY <1>0, <2>8 DEF Cancel, AfterCancel, planVars, TypeOK, ScoutGone, UnpolledInv, Phase, ScoutState
  <2> QED
    BY <2>1, <2>2, <2>3, <2>4, <2>5, <2>6, <2>7, <2>8 DEF Scout
<1>2. polls' \in 0 .. MaxPolls
  <2>1. polls \in 0 .. MaxPolls /\ MaxPolls \in Nat
    BY <1>0, PlanningAssumption DEF TypeOK
  <2>2. CASE PollScout
    BY <2>1, <2>2 DEF PollScout
  <2>3. CASE \/ SpawnScout \/ ScoutReady \/ ScoutNotReady \/ PromptScout
             \/ ReleaseScout \/ FallbackScout \/ Cancel
    BY <2>1, <2>3 DEF SpawnScout, ScoutReady, ScoutNotReady, PromptScout, ReleaseScout,
                      FallbackScout, Cancel, scoutVars
  <2> QED
    BY <2>2, <2>3 DEF Scout
<1> QED
  BY <1>0, <1>1, <1>2 DEF PlanInv, TypeOK, SourceInv, ResolvedInv

\* A step of the planner that sets the subtasks keeps PlanInv when they are what the
\* invariant says they are.
LEMMA SubtasksSet ==
  ASSUME PlanInv, UNCHANGED <<smart, scout, polls, brief, deps>>,
         pc \in {"plan", "decompose"},
         pc' \in Phase \ {"planned", "scout", "ready", "prompt", "poll", "release"},
         complexity' \in Complexity \cup {"none"}, answer' \in Seq(Item),
         subtasks' \in Seq(Subtask), SourceInv'
  PROVE  PlanInv'
<1>1. deps = <<>> /\ scout \notin {"live", "starting"}
  BY DEF PlanInv, ResolvedInv, ScoutGone
<1>2. deps' \in Seq(SUBSET (0 .. Len(subtasks')))
  BY <1>1
<1> QED
  BY <1>1, <1>2 DEF PlanInv, TypeOK, ScoutGone, UnpolledInv, ResolvedInv

\* Classification plans the whole task, or leaves the plan to the decomposition.
LEMMA ClassifyStep == PlanInv /\ Classify => PlanInv'
<1> SUFFICES ASSUME PlanInv, Classify PROVE PlanInv'
  OBVIOUS
<1>0. TypeOK
  BY DEF PlanInv
<1>1. /\ UNCHANGED <<smart, scout, polls, brief, deps, answer>> /\ pc = "plan" /\ smart
      /\ complexity' \in Complexity
  BY DEF Classify, scoutVars
<1>2. HasCriteria \in BOOLEAN
  BY DEF HasCriteria
<1>3. CASE complexity' = "SOLO"
  <2>1. subtasks' = Whole(HasCriteria) /\ pc' = "resolve"
    BY <1>3 DEF Classify
  <2>2. subtasks' \in Seq(Subtask)
    BY <1>2, <2>1, WholeType
  <2>3. \E criteria \in BOOLEAN : subtasks' = Whole(criteria)
    BY <1>2, <2>1
  <2>4. (\E criteria \in BOOLEAN : subtasks = Whole(criteria))'
    BY <2>3 DEF Whole
  <2>5. SourceInv'
    BY <1>1, <1>3, <2>1, <2>4 DEF SourceInv
  <2> QED
    BY <1>0, <1>1, <2>1, <2>2, <2>5, SubtasksSet DEF TypeOK, Phase
<1>4. CASE complexity' # "SOLO"
  <2>1. subtasks' = subtasks /\ pc' = "decompose"
    BY <1>4 DEF Classify
  <2>2. SourceInv'
    BY <1>1, <2>1 DEF SourceInv
  <2> QED
    BY <1>0, <1>1, <2>1, <2>2, SubtasksSet DEF TypeOK, Phase
<1> QED
  BY <1>3, <1>4

\* The decomposition plans what was kept of the answer.
LEMMA DecomposeStep == PlanInv /\ Decompose => PlanInv'
<1> SUFFICES ASSUME PlanInv, Decompose PROVE PlanInv'
  OBVIOUS
<1>0. TypeOK /\ HasCriteria \in BOOLEAN
  BY DEF PlanInv, HasCriteria
<1>1. /\ UNCHANGED <<smart, scout, polls, brief, deps, complexity>>
      /\ pc = "decompose" /\ pc' = "resolve" /\ answer' \in Answers
  BY DEF Decompose, scoutVars
<1>2. answer' \in Seq(Item)
  BY <1>1, PlanningAssumption
<1>3. Kept(answer') \in Seq(Item) /\ Kept(answer)' = Kept(answer') /\ smart
  BY <1>1, <1>2, KeptOfAnswer DEF Kept, PlanInv, SourceInv
<1>4. CASE Kept(answer') = <<>>
  <2>1. subtasks' = Whole(FALSE)
    BY <1>4 DEF Decompose
  <2>2. subtasks' \in Seq(Subtask)
    BY <2>1, WholeType
  <2>3. SourceInv'
    BY <1>1, <1>3, <1>4, <2>1 DEF SourceInv, Whole
  <2> QED
    BY <1>0, <1>1, <1>2, <2>2, <2>3, SubtasksSet DEF TypeOK, Phase
<1>5. CASE Kept(answer') # <<>>
  <2>1. subtasks' = [i \in DOMAIN Kept(answer') |->
                       [desc |-> Kept(answer')[i].desc, deps |-> Kept(answer')[i].deps,
                        criteria |-> HasCriteria]]
    BY <1>5 DEF Decompose
  <2>2. /\ subtasks' \in Seq(Subtask) /\ DOMAIN subtasks' = DOMAIN Kept(answer')
        /\ \A i \in DOMAIN Kept(answer') :
             subtasks'[i].desc = Kept(answer')[i].desc /\ subtasks'[i].deps = Kept(answer')[i].deps
    BY <1>0, <1>3, <2>1, SubtasksOf
  <2>3. Mirrors(Kept(answer))'
    BY <1>3, <1>5, <2>2 DEF Mirrors
  <2>4. SourceInv'
    BY <1>1, <1>3, <2>3 DEF SourceInv
  <2> QED
    BY <1>0, <1>1, <1>2, <2>2, <2>4, SubtasksSet DEF TypeOK, Phase
<1> QED
  BY <1>4, <1>5

\* When the runtime fails the whole task is the plan.
LEMMA DecomposeFailsStep == PlanInv /\ DecomposeFails => PlanInv'
<1> SUFFICES ASSUME PlanInv, DecomposeFails PROVE PlanInv'
  OBVIOUS
<1>1. /\ UNCHANGED <<smart, scout, polls, brief, deps, answer>> /\ smart
      /\ pc = "decompose" /\ pc' = "resolve" /\ complexity' = "SOLO" /\ subtasks' = Whole(FALSE)
  BY DEF DecomposeFails, scoutVars, PlanInv, SourceInv
<1>2. subtasks' \in Seq(Subtask)
  BY <1>1, WholeType
<1>3. SourceInv'
  BY <1>1 DEF SourceInv, Whole
<1>4. answer' \in Seq(Item)
  BY <1>1 DEF PlanInv, TypeOK
<1> QED
  BY <1>1, <1>2, <1>3, <1>4, SubtasksSet DEF Phase, Complexity

\* Without a SmartPlanner the answer is the plan.
LEMMA PlainStep == PlanInv /\ PlainDecompose => PlanInv'
<1> SUFFICES ASSUME PlanInv, PlainDecompose PROVE PlanInv'
  OBVIOUS
<1>0. TypeOK
  BY DEF PlanInv
<1>1. /\ UNCHANGED <<smart, scout, polls, brief, deps, complexity>> /\ ~smart
      /\ pc = "plan" /\ pc' \in {"resolve", "failed"}
  BY DEF PlainDecompose, scoutVars
<1>2. CASE pc' = "resolve"
  <2>1. answer' \in Answers \ {<<>>} /\ answer' \in Seq(Item)
    BY <1>2, PlanningAssumption DEF PlainDecompose
  <2>2. subtasks' = [i \in DOMAIN answer' |->
                       [desc |-> answer'[i].desc, deps |-> answer'[i].deps, criteria |-> FALSE]]
    BY <1>2 DEF PlainDecompose
  <2>3. /\ subtasks' \in Seq(Subtask) /\ DOMAIN subtasks' = DOMAIN answer'
        /\ \A i \in DOMAIN answer' :
             subtasks'[i].desc = answer'[i].desc /\ subtasks'[i].deps = answer'[i].deps
    BY <2>1, <2>2, SubtasksOf
  <2>4. Mirrors(answer)'
    BY <2>1, <2>3 DEF Mirrors
  <2>5. SourceInv'
    BY <1>1, <1>2, <2>4 DEF SourceInv
  <2> QED
    BY <1>0, <1>1, <1>2, <2>1, <2>3, <2>5, SubtasksSet DEF TypeOK, Phase
<1>3. CASE pc' = "failed"
  <2>1. UNCHANGED <<answer, subtasks>>
    BY <1>3 DEF PlainDecompose
  <2>2. SourceInv'
    BY <1>3 DEF SourceInv
  <2> QED
    BY <1>0, <1>1, <1>3, <2>1, <2>2, SubtasksSet DEF TypeOK, Phase
<1> QED
  BY <1>1, <1>2, <1>3

\* The plan is what the subtasks were before their dependencies are resolved.
LEMMA ResolveStep == PlanInv /\ Resolve => PlanInv'
<1> SUFFICES ASSUME PlanInv, Resolve PROVE PlanInv'
  OBVIOUS
<1>0. TypeOK /\ ScoutGone /\ SourceInv
  BY DEF PlanInv
<1>1. /\ UNCHANGED <<smart, scout, polls, brief, complexity, answer, subtasks>>
      /\ pc = "resolve" /\ pc' = "planned"
      /\ deps' = [i \in DOMAIN subtasks |-> {IdOf(d) : d \in subtasks[i].deps}]
  BY DEF Resolve, scoutVars
<1>2. subtasks \in Seq(Subtask) /\ DOMAIN subtasks = 1 .. Len(subtasks) /\ Len(subtasks) \in Nat
  BY <1>0, LenProperties DEF TypeOK
<1>3. deps' \in Seq(SUBSET (0 .. Len(subtasks)))
  <2>1. \A i \in DOMAIN subtasks : {IdOf(d) : d \in subtasks[i].deps} \in SUBSET (0 .. Len(subtasks))
    BY <1>2, IdOfRange
  <2>2. deps' \in [1 .. Len(subtasks) -> SUBSET (0 .. Len(subtasks))]
    BY <1>1, <1>2, <2>1
  <2> QED
    BY <1>2, <2>2, SeqDef
<1>4. subtasks # <<>>
  <2>1. ASSUME NEW a, Mirrors(a), a \in Seq(Item) PROVE subtasks # <<>>
    BY <2>1 DEF Mirrors
  <2>2. Kept(answer) \in Seq(Item) /\ answer \in Seq(Item)
    BY <1>0, KeptOfAnswer DEF TypeOK
  <2>3. CASE \E c \in BOOLEAN : subtasks = Whole(c)
    BY <2>3, WholeType
  <2> QED
    BY <1>0, <1>1, <2>1, <2>2, <2>3 DEF SourceInv
<1>5. SourceInv'
  BY <1>0, <1>1 DEF SourceInv, Mirrors, Kept, Whole
<1>6. ResolvedInv'
  BY <1>1 DEF ResolvedInv, IdOf, Named
<1>7. TypeOK'
  BY <1>0, <1>1, <1>3, <1>4 DEF TypeOK, Phase
<1> QED
  BY <1>0, <1>1, <1>5, <1>6, <1>7 DEF PlanInv, ScoutGone, UnpolledInv

\* PlanInv holds in every reachable state.
THEOREM PlanningInvariance == Spec => []PlanInv
<1>1. PlanInv /\ [Next]_vars => PlanInv'
  <2>1. ASSUME PlanInv, UNCHANGED vars PROVE PlanInv'
    <3>1. UNCHANGED <<pc, smart, scout, polls, brief, complexity, answer, subtasks, deps>>
      BY <2>1 DEF vars, scoutVars, planVars
    <3>2. TypeOK' /\ ScoutGone' /\ UnpolledInv'
      BY <2>1, <3>1 DEF PlanInv, TypeOK, ScoutGone, UnpolledInv
    <3>3. SourceInv'
      BY <2>1, <3>1 DEF PlanInv, SourceInv, Mirrors, Kept, Whole
    <3>4. ResolvedInv'
      BY <2>1, <3>1 DEF PlanInv, ResolvedInv, IdOf, Named
    <3> QED
      BY <3>2, <3>3, <3>4 DEF PlanInv
  <2> QED
    BY <2>1, ScoutStep, ClassifyStep, DecomposeStep, DecomposeFailsStep, PlainStep, ResolveStep
    DEF Next, Plan, Over
<1> QED
  BY PlanInit, <1>1, PTL DEF Spec

\* Every variable of the two phases keeps its type; a plan has at least one subtask
\* and knows the dependencies of each.
THEOREM PlanningTypes == Spec => []TypeOK
<1>1. PlanInv => TypeOK
  BY DEF PlanInv
<1> QED
  BY PlanningInvariance, <1>1, PTL

\* A scout that has its row is never left without a try to release it, whatever
\* becomes of it and also when the run is cancelled; one whose spawn broke off is
\* never waited for.
THEOREM ScoutReleased == Spec => []ScoutGone
<1>1. PlanInv => ScoutGone
  BY DEF PlanInv
<1> QED
  BY PlanningInvariance, <1>1, PTL

-----------------------------------------------------------------------------
(* The plan fits its tier *)

\* The plan has at most the subtasks of its tier, and work is left out only when the
\* tier is full: what the planner strips and caps, and nothing else, is missing.
THEOREM PlanBounded == Spec => []PlanFits
<1>1. ASSUME PlanInv PROVE PlanFits
  <2> SUFFICES ASSUME pc = "planned", smart
               PROVE  /\ Len(subtasks) <= Cap(complexity)
                      /\ complexity # "SOLO" =>
                           \A i \in DOMAIN answer :
                             \/ answer[i].desc \in Ceremony
                             \/ \E j \in DOMAIN subtasks : subtasks[j].desc = answer[i].desc
                             \/ Len(subtasks) = Cap(complexity)
    BY DEF PlanFits
  <2>1. answer \in Seq(Item) /\ subtasks \in Seq(Subtask)
    BY <1>1 DEF PlanInv, TypeOK
  <2>2. /\ Kept(answer) \in Seq(Item) /\ Len(Kept(answer)) <= Cap(complexity)
        /\ \/ Len(Kept(answer)) = Cap(complexity)
           \/ \A i \in DOMAIN answer :
                answer[i].desc \notin Ceremony =>
                  \E k \in DOMAIN Kept(answer) : Kept(answer)[k] = answer[i]
    BY <2>1, KeptOfAnswer
  <2>3. CASE Mirrors(Kept(answer))
    <3>1. Len(subtasks) = Len(Kept(answer))
      <4>1. 1 .. Len(subtasks) = 1 .. Len(Kept(answer))
        BY <2>1, <2>2, <2>3, LenProperties DEF Mirrors
      <4>2. Len(subtasks) \in Nat /\ Len(Kept(answer)) \in Nat
        BY <2>1, <2>2, LenProperties
      <4> QED
        BY <4>1, <4>2
    <3> QED
      BY <2>2, <2>3, <3>1 DEF Mirrors
  <2>4. CASE /\ \E criteria \in BOOLEAN : subtasks = Whole(criteria)
             /\ complexity = "SOLO" \/ Kept(answer) = <<>>
    <3>1. Len(subtasks) = 1 /\ 1 <= Cap(complexity)
      BY <2>4, WholeType DEF Cap
    <3>2. ASSUME Kept(answer) = <<>> PROVE \A i \in DOMAIN answer : answer[i].desc \in Ceremony
      <4>1. Len(Kept(answer)) = 0 /\ DOMAIN Kept(answer) = {}
        BY <3>2
      <4> QED
        BY <2>2, <3>1, <4>1 DEF Cap
    <3> QED
      BY <2>4, <3>1, <3>2
  <2> QED
    BY <1>1, <2>3, <2>4 DEF PlanInv, SourceInv
<1> QED
  BY PlanningInvariance, <1>1, PTL

-----------------------------------------------------------------------------
(* Blocked subtasks are orphans *)

\* A subtask that depends on an item the planner removed, or on an orphan, is one.
LEMMA OrphansInherit ==
  ASSUME NEW i \in DOMAIN subtasks, NEW d \in subtasks[i].deps,
         \/ \A j \in DOMAIN subtasks : subtasks[j].desc # d
         \/ \E j \in Orphan : subtasks[j].desc = d
  PROVE  i \in Orphan
<1> DEFINE kept == {subtasks[j].desc : j \in DOMAIN subtasks}
<1> SUFFICES ASSUME NEW C \in SUBSET DOMAIN subtasks,
                    \A k \in DOMAIN subtasks :
                      (\E e \in subtasks[k].deps : e \notin kept \/ \E j \in C : subtasks[j].desc = e)
                        => k \in C
             PROVE  i \in C
  BY DEF Orphan
<1>1. Orphan \subseteq C
  BY DEF Orphan
<1>2. d \notin kept \/ \E j \in C : subtasks[j].desc = d
  BY <1>1
<1> QED
  BY <1>2

\* An orphan never starts: the subtasks that never start inherit as orphans do.
LEMMA OrphansAreBlocked ==
  ASSUME subtasks \in Seq(Subtask), Distinct(subtasks),
         deps = [i \in DOMAIN subtasks |-> {IdOf(d) : d \in subtasks[i].deps}]
  PROVE  Orphan \subseteq DOMAIN subtasks \ Startable
<1> DEFINE D == DOMAIN subtasks
           kept == {subtasks[j].desc : j \in D}
           Closed(C) == C \in SUBSET D /\ \A i \in D : deps[i] \subseteq C => i \in C
           H == D \ Startable
<1>1. DOMAIN deps = D /\ D = 1 .. Len(subtasks) /\ Len(subtasks) \in Nat
  BY LenProperties
<1>2. \A i \in D : i \notin Startable <=> \E C : Closed(C) /\ i \notin C
  BY <1>1 DEF Startable
<1>3. ASSUME NEW i \in D, NEW d \in subtasks[i].deps,
             d \notin kept \/ \E j \in H : subtasks[j].desc = d
      PROVE  i \in H
  <2>1. IdOf(d) \in deps[i]
    OBVIOUS
  <2>2. CASE d \notin kept
    <3>1. IdOf(d) = 0
      BY <2>2, IdOfRange DEF Named
    <3>2. 0 \notin D
      BY <1>1
    <3>3. Closed(D \ {i})
      BY <2>1, <3>1, <3>2
    <3> QED
      BY <1>2, <3>3
  <2>3. CASE \E j \in H : subtasks[j].desc = d
    <3>1. PICK j \in H : subtasks[j].desc = d
      BY <2>3
    <3>2. Named(d) = {j}
      BY <3>1 DEF Named, Distinct
    <3>3. IdOf(d) = j
      BY <3>2, IdOfRange
    <3>4. PICK C : Closed(C) /\ j \notin C
      BY <1>2
    <3>5. Closed(C \ {i})
      BY <2>1, <3>3, <3>4
    <3> QED
      BY <1>2, <3>5
  <2> QED
    BY <1>3, <2>2, <2>3
<1>4. H \in SUBSET D
  OBVIOUS
<1>5. Orphan \subseteq H
  BY <1>3, <1>4 DEF Orphan
<1> QED
  BY <1>5

\* When the subtasks are items of a sound answer, nobody else is blocked: what would
\* be missing to start a subtask that is no orphan would be missing in the answer.
LEMMA OthersStart ==
  ASSUME subtasks \in Seq(Subtask), NEW a, Sound(a),
         \A j \in DOMAIN subtasks : \E k \in DOMAIN a :
           subtasks[j].desc = a[k].desc /\ subtasks[j].deps = a[k].deps,
         deps = [i \in DOMAIN subtasks |-> {IdOf(d) : d \in subtasks[i].deps}]
  PROVE  DOMAIN subtasks \ Orphan \subseteq Startable
<1> DEFINE D == DOMAIN subtasks
<1> SUFFICES ASSUME NEW C \in SUBSET D, \A i \in D : deps[i] \subseteq C => i \in C
             PROVE  D \ Orphan \subseteq C
  BY DEF Startable
<1> DEFINE Covered == {k \in DOMAIN a : \A j \in D \ Orphan : subtasks[j].desc = a[k].desc => j \in C}
<1>1. ASSUME NEW k \in DOMAIN a, a[k].deps \subseteq {a[m].desc : m \in Covered}
      PROVE  k \in Covered
  <2> SUFFICES ASSUME NEW j \in D \ Orphan, subtasks[j].desc = a[k].desc
               PROVE  j \in C
    OBVIOUS
  <2>1. subtasks[j].deps = a[k].deps
    BY DEF Sound, Distinct
  <2>2. ASSUME NEW d \in subtasks[j].deps PROVE IdOf(d) \in C
    <3>1. PICK m \in Covered : d = a[m].desc
      BY <1>1, <2>1
    <3>2. Named(d) # {}
      BY OrphansInherit DEF Named
    <3>3. IdOf(d) \in D /\ subtasks[IdOf(d)].desc = d
      BY <3>2, IdOfRange DEF Named
    <3>4. IdOf(d) \notin Orphan
      BY <3>3, OrphansInherit
    <3> QED
      BY <3>1, <3>3, <3>4
  <2>3. deps[j] \subseteq C
    BY <2>2
  <2> QED
    BY <2>3
<1>2. Doable(a) \subseteq Covered
  BY <1>1 DEF Doable
<1>3. Covered = DOMAIN a
  BY <1>2 DEF Sound
<1> QED
  BY <1>3

\* Given a sound answer, a plan deadlocks on exactly the subtasks that depend,
\* directly or not, on an item the planner stripped or capped: whatever the answer,
\* however long.
THEOREM BlockedOrphans == Spec => []BlockedAreOrphans
<1>1. ASSUME PlanInv PROVE BlockedAreOrphans
  <2> SUFFICES ASSUME pc = "planned", Sound(answer) PROVE DOMAIN subtasks \ Startable = Orphan
    BY DEF BlockedAreOrphans
  <2>1. /\ answer \in Seq(Item) /\ subtasks \in Seq(Subtask)
        /\ deps = [i \in DOMAIN subtasks |-> {IdOf(d) : d \in subtasks[i].deps}]
    BY <1>1 DEF PlanInv, TypeOK, ResolvedInv
  <2>2. ASSUME NEW a \in {Kept(answer), answer}, Mirrors(a)
        PROVE  DOMAIN subtasks \ Startable = Orphan
    <3>1. Distinct(a) /\ \A k \in DOMAIN a : \E i \in DOMAIN answer : a[k] = answer[i]
      BY <2>1, <2>2, KeptOfAnswer DEF Sound
    <3>2. Distinct(subtasks)
      BY <2>2, <3>1 DEF Mirrors, Distinct
    <3>3. \A j \in DOMAIN subtasks : \E k \in DOMAIN answer :
            subtasks[j].desc = answer[k].desc /\ subtasks[j].deps = answer[k].deps
      BY <2>2, <3>1 DEF Mirrors
    <3>4. Orphan \subseteq DOMAIN subtasks \ Startable
      BY <2>1, <3>2, OrphansAreBlocked
    <3>5. DOMAIN subtasks \ Orphan \subseteq Startable
      BY <2>1, <3>3, OthersStart
    <3> QED
      BY <3>4, <3>5
  <2>3. ASSUME NEW c \in BOOLEAN, subtasks = Whole(c) PROVE DOMAIN subtasks \ Startable = Orphan
    <3>1. DOMAIN subtasks = {1} /\ subtasks[1].deps = {} /\ Distinct(subtasks)
      BY <2>3 DEF Whole, Distinct
    <3>2. DOMAIN deps = {1} /\ deps[1] = {}
      BY <2>1, <3>1
    <3>3. Startable = {1}
      BY <3>2 DEF Startable
    <3>4. Orphan \subseteq DOMAIN subtasks \ Startable
      BY <2>1, <3>1, OrphansAreBlocked
    <3> QED
      BY <3>1, <3>3, <3>4
  <2> QED
    BY <1>1, <2>2, <2>3 DEF PlanInv, SourceInv
<1> QED
  BY PlanningInvariance, <1>1, PTL
=============================================================================
