-------------------------- MODULE MergeQueueProofs --------------------------
(***************************************************************************)
(* Proofs, for every set of callers, branches and priorities and any       *)
(* number of entries, that QInv is inductive and that the queue implements *)
(* FifoQueue.                                                              *)
(***************************************************************************)
EXTENDS MergeQueueProperties, TLAPS

\* The moves of a caller inside one merge(): the rows are left alone.
Moves(c) ==
  /\ at[c] \notin {"idle", "turn"} /\ at'[c] \notin {"idle", "turn"}
  /\ at' = [at EXCEPT ![c] = at'[c]]
  /\ UNCHANGED <<table, how, todo, cur>>

\* The moves that end a merge() and drop its row from the caller's work.
Drops(c) ==
  /\ at[c] # "idle"
  /\ Continue(c) \/ Leave(c)

\* The step of a caller that touches no row is a move or a drop.
GitStep(c) == (Moves(c) \/ (Drops(c) /\ UNCHANGED table)) /\ merged \subseteq merged'

\* Every git command either goes on inside merge() or leaves it.
LEMMA GitShape ==
  ASSUME TypeOK, NEW c \in Caller, Git(c)
  PROVE  GitStep(c) /\ (at'[c] = "merged" => Target(c) \in merged')
<1>0. at \in [Caller -> Step] /\ how \in [Caller -> How]
  BY DEF TypeOK, WorkOK
<1>1. CASE Commit(c)
  BY <1>0, <1>1 DEF Commit, Goto, Raise, GitStep, Moves, Drops, Continue, Leave, main
<1>2. CASE Checkout(c)
  BY <1>0, <1>2 DEF Checkout, Goto, GitStep, Moves, main
<1>3. CASE CheckoutFails(c)
  BY <1>0, <1>3 DEF CheckoutFails, Raise, GitStep, Drops, Continue, Leave, main
<1>4. CASE MergeClean(c)
  BY <1>0, <1>4 DEF MergeClean, Goto, GitStep, Moves
<1>5. CASE MergeConflict(c)
  BY <1>0, <1>5 DEF MergeConflict, Except, Raise, GitStep, Moves, Drops, Continue, Leave
<1>6. CASE MergeRefused(c)
  BY <1>0, <1>6 DEF MergeRefused, Except, Raise, GitStep, Moves, Drops, Continue, Leave, main
<1>7. CASE MergeBlocked(c)
  BY <1>0, <1>7 DEF MergeBlocked, Goto, GitStep, Moves, main
<1>8. CASE Diff(c)
  BY <1>0, <1>8 DEF Diff, Goto, GitStep, Moves, main
<1>9. CASE Abort(c)
  BY <1>0, <1>9 DEF Abort, Goto, GitStep, Moves
<1> QED
  BY <1>1, <1>2, <1>3, <1>4, <1>5, <1>6, <1>7, <1>8, <1>9 DEF Git

-----------------------------------------------------------------------------
(* QInv is inductive *)

\* Initially the table is empty and nobody merges.
LEMMA QueueInit == Init => QInv
<1> SUFFICES ASSUME Init PROVE QInv
  OBVIOUS
<1>1. TypeOK
  BY MergeQueueAssumption DEF Init, TypeOK, WorkOK, Status, How, Step
<1>2. InsertInv /\ MergedInv
  BY DEF Init, InsertInv, MergedInv
<1>3. OrderInv
  BY DEF Init, OrderInv, OrderOf, Work
<1> QED
  BY <1>1, <1>2, <1>3 DEF QInv

\* Every step keeps the table, main and the callers well typed.
LEMMA QueueTypeStep == QInv /\ [Next]_vars => TypeOK'
<1> SUFFICES ASSUME QInv, [Next]_vars PROVE TypeOK'
  OBVIOUS
<1> USE MergeQueueAssumption
<1>0. TypeOK
  BY DEF QInv
<1>1. ASSUME NEW q \in Entry, NEW b \in Branch, NEW n \in Priority, Enqueue(q, b, n)
      PROVE  TypeOK'
  BY <1>0, <1>1 DEF TypeOK, WorkOK, Enqueue, main, callers, Status, Queued
<1>2. CASE Clear
  BY <1>0, <1>2 DEF TypeOK, WorkOK, Clear, main, callers, Status, Queued
<1>3. ASSUME NEW c \in Caller, Loop(c)
      PROVE  TypeOK'
  <2>1. CASE Fetch(c)
    BY <1>0, <2>1 DEF TypeOK, WorkOK, Fetch, Goto, table, main, Step, How, Queued, Pending
  <2>2. ASSUME NEW S \in SUBSET Branch, Begin(c, S)
        PROVE  TypeOK'
    BY <1>0, <2>2 DEF TypeOK, WorkOK, Begin, Goto, table, main, Step, How, Queued
  <2>3. CASE Turn(c)
    BY <1>0, <2>3 DEF TypeOK, WorkOK, Turn, Goto, table, main, Step, How, Queued
  <2>4. CASE Return(c)
    BY <1>0, <2>4 DEF TypeOK, WorkOK, Return, Leave, table, main, Step, How, Queued
  <2>5. CASE RecordMerged(c)
    BY <1>0, <2>5 DEF TypeOK, WorkOK, RecordMerged, Continue, main, Step, Status, Queued
  <2>6. CASE RecordConflict(c)
    <3>1. at' \in [Caller -> Step] /\ how' \in [Caller -> How] /\ cur'[c] = 0
          /\ at'[c] \in {"idle", "turn"} /\ todo'[c] \subseteq todo[c]
          /\ (how'[c] = how[c] \/ todo'[c] = {})
          /\ todo' \in [Caller -> SUBSET (Entry \cup Branch)]
          /\ cur' \in [Caller -> Entry \cup Branch \cup {0}]
          /\ \A d \in Caller \ {c} :
               at'[d] = at[d] /\ how'[d] = how[d] /\ todo'[d] = todo[d] /\ cur'[d] = cur[d]
      BY <1>0, <2>6 DEF TypeOK, WorkOK, RecordConflict, Continue, Leave, Step, How
    <3>2. status' \in [Entry -> Status]
      BY <1>0, <2>6 DEF TypeOK, WorkOK, RecordConflict, Status
    <3>3. \A d \in Caller : WorkOK(d)'
      BY <1>0, <3>1 DEF TypeOK, WorkOK, Queued
    <3>4. prio' = prio /\ branch' = branch /\ exists' = exists
          /\ merged' = merged /\ mid' = mid
      BY <2>6 DEF RecordConflict, main
    <3>5. prio' \in [Entry -> Nat] /\ branch' \in [Entry -> Branch \cup {NoBranch}]
          /\ exists' \subseteq Branch /\ merged' \subseteq Branch
          /\ mid' \in Branch \cup {NoBranch}
      BY <1>0, <3>4 DEF TypeOK, WorkOK
    <3> QED
      BY <3>1, <3>2, <3>3, <3>5 DEF TypeOK
  <2> QED
    BY <1>3, <2>1, <2>2, <2>3, <2>4, <2>5, <2>6 DEF Loop
<1>4. ASSUME NEW c \in Caller, Git(c)
      PROVE  TypeOK'
  <2>1. merged' \subseteq Branch /\ mid' \in Branch \cup {NoBranch} /\ exists' = exists
        /\ at' \in [Caller -> Step]
    <3>1. at[c] \in {"commit", "checkout", "merge", "diff", "abort"}
      BY <1>4 DEF Git, Commit, Checkout, CheckoutFails, MergeClean, MergeConflict,
                  MergeRefused, MergeBlocked, Diff, Abort, Goto
    <3>2. at[c] = "merge" /\ Target(c) \in exists => Target(c) \in Branch
      BY <1>0 DEF TypeOK, WorkOK
    <3> QED
      BY <1>0, <1>4, <3>1, <3>2
      DEF TypeOK, WorkOK, Git, Commit, Checkout, CheckoutFails, MergeClean, MergeConflict,
          MergeRefused, MergeBlocked, Diff, Abort, Goto, Raise, Except, Continue, Leave,
          main, Step
  <2>2. CASE Moves(c)
    BY <1>0, <2>1, <2>2 DEF TypeOK, WorkOK, Moves, table, Step, Queued
  <2>3. CASE Continue(c) /\ UNCHANGED table
    BY <1>0, <2>1, <2>3 DEF TypeOK, WorkOK, Continue, table, Queued
  <2>4. CASE Leave(c) /\ UNCHANGED table
    BY <1>0, <2>1, <2>4 DEF TypeOK, WorkOK, Leave, table, How, Queued
  <2> QED
    BY <1>0, <1>4, <2>2, <2>3, <2>4, GitShape DEF GitStep, Drops
<1>5. ASSUME NEW c \in Caller, Crash(c)
      PROVE  TypeOK'
  BY <1>0, <1>5 DEF TypeOK, WorkOK, Crash, Leave, table, main, Step, How, Queued
<1>6. ASSUME NEW b \in Branch, Discard(b)
      PROVE  TypeOK'
  BY <1>0, <1>6 DEF TypeOK, WorkOK, Discard, table, main, callers, Queued
<1>7. CASE Resolve
  BY <1>0, <1>7 DEF TypeOK, WorkOK, Resolve, table, callers, Queued
<1>8. CASE UNCHANGED vars
  BY <1>0, <1>8 DEF TypeOK, WorkOK, vars, table, main, callers, Queued
<1> QED
  BY <1>1, <1>2, <1>3, <1>4, <1>5, <1>6, <1>7, <1>8 DEF Next

\* Rows keep the order in which they were inserted.
LEMMA QueueInsertStep == QInv /\ [Next]_vars => InsertInv'
<1> SUFFICES ASSUME QInv, [Next]_vars PROVE InsertInv'
  OBVIOUS
<1>0. TypeOK /\ InsertInv
  BY DEF QInv
<1>1. ASSUME NEW q \in Entry, NEW b \in Branch, NEW n \in Priority, Enqueue(q, b, n)
      PROVE  InsertInv'
  BY <1>0, <1>1 DEF TypeOK, WorkOK, Enqueue, InsertInv, Entry
<1>2. CASE branch' = branch /\ \A q \in Entry : status[q] # "none" <=> status'[q] # "none"
  BY <1>0, <1>2 DEF InsertInv
<1>3. ASSUME Clear \/ \E c \in Caller : RecordMerged(c) \/ RecordConflict(c)
      PROVE  branch' = branch /\ \A q \in Entry : status[q] # "none" <=> status'[q] # "none"
  BY <1>0, <1>3 DEF TypeOK, Clear, RecordMerged, RecordConflict, Pending, Present
<1>4. ASSUME NEW c \in Caller, Git(c)
      PROVE  UNCHANGED table
  BY <1>0, <1>4, GitShape DEF GitStep, Moves
<1> QED
  BY <1>1, <1>2, <1>3, <1>4
  DEF Next, Loop, Fetch, Begin, Turn, Return, Crash, Discard, Resolve, vars, table

\* An existing row keeps its priority and its branch; it never waits again.
LEMMA RowsKept ==
  ASSUME QInv, [Next]_vars, NEW q \in Entry, status[q] # "none"
  PROVE  /\ prio'[q] = prio[q] /\ branch'[q] = branch[q] /\ status'[q] # "none"
         /\ status'[q] = "pending" => status[q] = "pending"
<1>0. TypeOK
  BY DEF QInv
<1>1. ASSUME NEW r \in Entry, NEW b \in Branch, NEW n \in Priority, Enqueue(r, b, n)
      PROVE  /\ prio'[q] = prio[q] /\ branch'[q] = branch[q] /\ status'[q] = status[q]
  BY <1>0, <1>1 DEF TypeOK, WorkOK, Enqueue
<1>2. ASSUME Clear \/ \E c \in Caller : RecordMerged(c) \/ RecordConflict(c)
      PROVE  /\ prio'[q] = prio[q] /\ branch'[q] = branch[q] /\ status'[q] # "none"
             /\ status'[q] = "pending" => status[q] = "pending"
  BY <1>0, <1>2 DEF TypeOK, WorkOK, Clear, RecordMerged, RecordConflict, Pending, Present
<1>3. ASSUME NEW c \in Caller, Git(c)
      PROVE  UNCHANGED table
  BY <1>0, <1>3, GitShape DEF GitStep, Moves
<1> QED
  BY <1>1, <1>2, <1>3
  DEF Next, Loop, Fetch, Begin, Turn, Return, Crash, Discard, Resolve, vars, table

\* The row a caller has just recorded does not wait any more.
LEMMA RecordedIsSettled ==
  ASSUME TypeOK, NEW c \in Caller, Queued(c), RecordMerged(c) \/ RecordConflict(c)
  PROVE  status'[cur[c]] # "pending" /\ Continue(c)
<1>1. cur[c] \in Entry
  BY DEF TypeOK, WorkOK, RecordMerged, RecordConflict
<1> QED
  BY <1>1 DEF TypeOK, WorkOK, RecordMerged, RecordConflict, Present, Queued

\* What a step makes of the work of a caller d: the same work; the next row of
\* it; all of it but a settled row; none; or all the rows that wait.
WorkStep(d) ==
  \/ /\ at'[d] = at[d] /\ how'[d] = how[d] /\ todo'[d] = todo[d] /\ cur'[d] = cur[d]
  \/ Moves(d)
  \/ Turn(d)
  \/ Continue(d) /\ status'[cur[d]] # "pending"
  \/ at'[d] \in {"idle", "turn"} /\ todo'[d] = {}
  \/ Fetch(d)
  \/ how'[d] # "queue"

\* These are the steps there are.
LEMMA WorkShape ==
  ASSUME QInv, [Next]_vars, NEW d \in Caller
  PROVE  WorkStep(d)
<1>0. TypeOK
  BY DEF QInv
<1>a. at \in [Caller -> Step] /\ how \in [Caller -> How]
      /\ todo \in [Caller -> SUBSET (Entry \cup Branch)]
      /\ cur \in [Caller -> Entry \cup Branch \cup {0}]
  BY <1>0 DEF TypeOK, WorkOK
<1>1. CASE UNCHANGED callers
  BY <1>1 DEF WorkStep, callers
<1>2. ASSUME NEW c \in Caller, Continue(c) \/ Leave(c), c # d
      PROVE  WorkStep(d)
  BY <1>a, <1>2 DEF WorkStep, Continue, Leave
<1>3. ASSUME NEW c \in Caller, Leave(c)
      PROVE  WorkStep(d)
  BY <1>a, <1>2, <1>3 DEF WorkStep, Leave
<1>4. ASSUME NEW c \in Caller, Loop(c)
      PROVE  WorkStep(d)
  <2>1. CASE Fetch(c) \/ Turn(c) \/ \E S \in SUBSET Branch : Begin(c, S)
    BY <1>a, <2>1 DEF WorkStep, Fetch, Turn, Begin, Goto
  <2>2. CASE Return(c)
    BY <1>3, <2>2 DEF Return
  <2>3. CASE RecordMerged(c) \/ RecordConflict(c)
    <3>1. Continue(c) \/ Leave(c)
      BY <2>3 DEF RecordMerged, RecordConflict
    <3>2. CASE c = d /\ Queued(c)
      BY <1>0, <2>3, <3>2, RecordedIsSettled DEF WorkStep
    <3>3. CASE c = d /\ ~Queued(c) /\ Continue(c)
      BY <1>a, <3>3 DEF WorkStep, Continue, Queued
    <3> QED
      BY <1>2, <1>3, <3>1, <3>2, <3>3
  <2> QED
    BY <1>4, <2>1, <2>2, <2>3 DEF Loop
<1>5. ASSUME NEW c \in Caller, Git(c)
      PROVE  WorkStep(d)
  <2>1. CASE Moves(c)
    BY <1>a, <2>1 DEF WorkStep, Moves
  <2>2. CASE Continue(c) /\ c = d
    <3>1. how[c] # "queue"
      BY <1>a, <1>5, <2>2
      DEF Git, Commit, Checkout, CheckoutFails, MergeClean, MergeConflict, MergeRefused,
          MergeBlocked, Diff, Abort, Goto, Raise, Except, Continue, Leave, Step
    <3> QED
      BY <2>2, <3>1 DEF WorkStep, Continue
  <2> QED
    BY <1>0, <1>2, <1>3, <1>5, <2>1, <2>2, GitShape DEF GitStep, Drops
<1>6. ASSUME NEW c \in Caller, Crash(c)
      PROVE  WorkStep(d)
  BY <1>3, <1>6 DEF Crash
<1>7. ASSUME Clear \/ Resolve \/ (\E b \in Branch : Discard(b)) \/ UNCHANGED vars
             \/ \E q \in Entry, b \in Branch, n \in Priority : Enqueue(q, b, n)
      PROVE  UNCHANGED callers
  BY <1>7 DEF Clear, Resolve, Discard, Enqueue, vars
<1> QED
  BY <1>1, <1>4, <1>5, <1>6, <1>7 DEF Next

\* Every step keeps the order in which callers work.
LEMMA QueueOrderStep == QInv /\ [Next]_vars => OrderInv'
<1> SUFFICES ASSUME QInv, [Next]_vars PROVE OrderInv'
  OBVIOUS
<1>0. TypeOK /\ TypeOK' /\ InsertInv /\ InsertInv' /\ OrderInv
  BY QueueTypeStep, QueueInsertStep DEF QInv
<1>1. SUFFICES ASSUME NEW d \in Caller, Queued(d)' PROVE OrderOf(d)'
  BY DEF OrderInv
<1>2. Work(d) \subseteq Entry \/ ~Queued(d)
  BY <1>0 DEF TypeOK, WorkOK, Work, Queued
<1>3. CASE Fetch(d)
  <2>1. Work(d)' = Pending /\ table' = table /\ at'[d] = "turn"
    BY <1>0, <1>3 DEF Fetch, Goto, Work, TypeOK, WorkOK
  <2> QED
    BY <2>1 DEF table, Pending, OrderOf
<1>4. ASSUME Queued(d), Work(d)' \subseteq Work(d),
             \A p \in Work(d) \ Work(d)' : status'[p] # "pending",
             \/ at'[d] \in {"idle", "turn"}
             \/ /\ cur'[d] \in Work(d) /\ todo'[d] \subseteq Work(d) /\ cur'[d] \notin todo'[d]
                /\ \A p \in todo'[d] : Before(d, cur'[d], p)
      PROVE  OrderOf(d)'
  <2>1. OrderOf(d) /\ Work(d) \subseteq Entry
    BY <1>0, <1>2, <1>4 DEF OrderInv
  <2>2. \A q \in Work(d) : status[q] # "none" /\ prio'[q] = prio[q] /\ status'[q] # "none"
    BY <2>1, RowsKept DEF OrderOf
  <2>3. ASSUME NEW q \in Work(d)', NEW p \in Pending', p < q, prio'[p] >= prio'[q]
        PROVE  p \in Work(d)'
    <3>1. p \in Entry /\ status'[p] = "pending" /\ q \in Work(d) /\ q \in Entry
      BY <1>4, <2>1, <2>3 DEF Pending
    <3>2. status[p] # "none"
      BY <1>0, <2>2, <2>3, <3>1 DEF InsertInv
    <3>3. p \in Pending /\ prio'[p] = prio[p] /\ prio'[q] = prio[q]
      BY <2>2, <3>1, <3>2, RowsKept DEF Pending
    <3>4. p \in Work(d)
      BY <2>1, <2>3, <3>1, <3>3 DEF OrderOf
    <3> QED
      BY <1>4, <3>1, <3>4
  <2>4. \A q \in Work(d)' : status'[q] # "none"
    BY <1>4, <2>2
  <2>5. at'[d] \notin {"idle", "turn"} =>
          cur'[d] \notin todo'[d] /\ \A p \in todo'[d] : Before(d, cur[d], p)'
    BY <1>1, <1>4, <2>2 DEF Before, Queued
  <2> QED
    BY <2>3, <2>4, <2>5 DEF OrderOf
<1>5. CASE at'[d] = at[d] /\ how'[d] = how[d] /\ todo'[d] = todo[d] /\ cur'[d] = cur[d]
  BY <1>0, <1>1, <1>4, <1>5 DEF Work, Queued, OrderInv, OrderOf
<1>6. CASE Moves(d)
  BY <1>0, <1>1, <1>4, <1>6 DEF Moves, Work, Queued, OrderInv, OrderOf
<1>7. CASE Turn(d)
  <2>1. PICK q \in todo[d] : /\ \A p \in todo[d] \ {q} : Before(d, q, p)
                            /\ cur'[d] = q /\ todo'[d] = todo[d] \ {q}
                            /\ at'[d] = "commit" /\ at[d] = "turn" /\ how' = how
    BY <1>0, <1>7 DEF Turn, Goto, TypeOK, WorkOK
  <2>2. Queued(d) /\ Work(d)' = Work(d)
    BY <1>1, <2>1 DEF Queued, Work
  <2> QED
    BY <1>4, <2>1, <2>2 DEF Work
<1>8. CASE Continue(d) /\ status'[cur[d]] # "pending"
  <2>1. Queued(d) /\ Work(d)' = todo[d] /\ at'[d] = "turn"
    BY <1>0, <1>1, <1>8 DEF Continue, Queued, Work, TypeOK, WorkOK
  <2> QED
    BY <1>4, <1>8, <2>1 DEF Work
<1>9. CASE at'[d] \in {"idle", "turn"} /\ todo'[d] = {}
  BY <1>9 DEF OrderOf, Work
<1> QED
  BY <1>1, <1>3, <1>5, <1>6, <1>7, <1>8, <1>9, WorkShape DEF WorkStep, Queued

\* Every step keeps what a deleted row stands for.
LEMMA QueueMergedStep == QInv /\ [Next]_vars => MergedInv'
<1> SUFFICES ASSUME QInv, [Next]_vars PROVE MergedInv'
  OBVIOUS
<1>0. TypeOK /\ OrderInv /\ MergedInv
  BY DEF QInv
<1>1. merged \subseteq merged'
  <2>1. ASSUME NEW c \in Caller, Git(c)
        PROVE  merged \subseteq merged'
    BY <1>0, <2>1, GitShape DEF GitStep
  <2> QED
    BY <2>1 DEF Next, Enqueue, Clear, Loop, Fetch, Begin, Turn, Return, RecordMerged,
                RecordConflict, Crash, Discard, Resolve, main, vars
<1>2. ASSUME NEW q \in Entry, status'[q] = "removed"
      PROVE  branch'[q] \in merged'
  <2>1. CASE status[q] = "removed"
    BY <1>0, <1>1, <2>1, RowsKept DEF MergedInv
  <2>2. ASSUME NEW c \in Caller, RecordMerged(c) \/ RecordConflict(c), status[q] # "removed"
        PROVE  branch'[q] \in merged'
    <3>1. RecordMerged(c) /\ q = cur[c] /\ Queued(c)
      BY <1>0, <1>2, <2>2 DEF RecordMerged, RecordConflict, TypeOK, WorkOK
    <3>2. branch[q] \in merged /\ branch' = branch
      BY <1>0, <3>1 DEF MergedInv, RecordMerged
    <3> QED
      BY <1>1, <3>2
  <2>3. ASSUME Clear \/ (\E r \in Entry, b \in Branch, n \in Priority : Enqueue(r, b, n))
        PROVE  status[q] = "removed"
    BY <1>0, <1>2, <2>3 DEF TypeOK, WorkOK, Clear, Enqueue
  <2>4. ASSUME NEW c \in Caller, Git(c)
        PROVE  status'[q] = status[q]
    BY <1>0, <2>4, GitShape DEF GitStep, Moves, table
  <2> QED
    BY <1>2, <2>1, <2>2, <2>3, <2>4
    DEF Next, Loop, Fetch, Begin, Turn, Return, Crash, Discard, Resolve, vars, table
<1>3. ASSUME NEW d \in Caller, Queued(d)', at'[d] = "merged"
      PROVE  branch'[cur'[d]] \in merged'
  <2>1. CASE at[d] = "merged" /\ cur'[d] = cur[d] /\ how'[d] = how[d]
    <3>1. cur[d] \in Entry /\ status[cur[d]] # "none"
      BY <1>0, <1>3, <2>1 DEF TypeOK, WorkOK, Queued, OrderInv, OrderOf, Work
    <3> QED
      BY <1>0, <1>1, <1>3, <2>1, <3>1, RowsKept DEF MergedInv, Queued
  <2>2. ASSUME NEW c \in Caller, Git(c)
        PROVE  branch'[cur'[d]] \in merged'
    <3>1. at \in [Caller -> Step] /\ how \in [Caller -> How]
          /\ todo \in [Caller -> SUBSET (Entry \cup Branch)]
          /\ cur \in [Caller -> Entry \cup Branch \cup {0}]
      BY <1>0 DEF TypeOK, WorkOK
    <3>2. CASE c # d
      <4>1. at[d] = "merged" /\ cur'[d] = cur[d] /\ how'[d] = how[d]
        BY <1>0, <1>3, <2>2, <3>1, <3>2, GitShape
        DEF GitStep, Moves, Drops, Continue, Leave
      <4> QED
        BY <2>1, <4>1
    <3>3. CASE c = d
      <4>1. Target(d) \in merged' /\ Moves(d)
        BY <1>0, <1>3, <2>2, <3>1, <3>3, GitShape
        DEF GitStep, Drops, Continue, Leave
      <4> QED
        BY <1>3, <4>1 DEF Moves, Target, Queued, table
    <3> QED
      BY <3>2, <3>3
  <2>3. ASSUME NEW c \in Caller, Loop(c) \/ Crash(c)
        PROVE  at[d] = "merged" /\ cur'[d] = cur[d] /\ how'[d] = how[d]
    <3>1. c # d
      BY <1>0, <1>3, <2>3
      DEF TypeOK, WorkOK, Loop, Fetch, Begin, Turn, Return, RecordMerged, RecordConflict, Crash,
          Goto, Continue, Leave
    <3> QED
      BY <1>0, <1>3, <2>3, <3>1
      DEF TypeOK, WorkOK, Loop, Fetch, Begin, Turn, Return, RecordMerged, RecordConflict, Crash,
          Goto, Continue, Leave
  <2> QED
    BY <1>3, <2>1, <2>2, <2>3 DEF Next, Enqueue, Clear, Discard, Resolve, vars, callers
<1> QED
  BY <1>2, <1>3 DEF MergedInv

\* QInv holds in every reachable state.
THEOREM QueueInvariant == Spec => []QInv
<1>1. QInv /\ [Next]_vars => QInv'
  BY QueueTypeStep, QueueInsertStep, QueueOrderStep, QueueMergedStep DEF QInv
<1> QED
  BY <1>1, QueueInit, PTL DEF Spec

-----------------------------------------------------------------------------
(* The queue implements FifoQueue *)

\* What is on main stays there, and existing rows keep their branch.
LEMMA LandedGrows ==
  ASSUME QInv, QInv', [Next]_vars, UNCHANGED branch, merged \subseteq merged'
  PROVE  Landed \subseteq Landed'
BY DEF Landed

\* A caller settles its current row only when nothing waits ahead of it.
LEMMA NothingAhead ==
  ASSUME QInv, NEW c \in Caller, Queued(c), at[c] \in {"merged", "conflict"}
  PROVE  cur[c] \in Entry /\ \A p \in Promise!Waiting : ~Promise!Ahead(p, cur[c])
<1>1. cur[c] \in Entry /\ OrderOf(c) /\ todo[c] \subseteq Entry
  BY DEF QInv, TypeOK, WorkOK, OrderInv
<1>2. ASSUME NEW p \in Pending, p < cur[c], prio[p] >= prio[cur[c]]
      PROVE  FALSE
  <2>1. p \in Work(c) /\ p # cur[c]
    BY <1>1, <1>2 DEF OrderOf, Work, Pending, Entry
  <2>2. p \in todo[c] /\ Before(c, cur[c], p)
    BY <1>1, <2>1 DEF OrderOf, Work
  <2>3. prio[p] \in Nat /\ prio[cur[c]] \in Nat /\ p \in Nat /\ cur[c] \in Nat
    BY <1>1 DEF QInv, TypeOK, Pending, Entry
  <2> QED
    BY <1>2, <2>2, <2>3 DEF Before
<1> QED
  BY <1>1, <1>2 DEF Promise!Waiting, Promise!Ahead, Pending

\* Every step of the queue is a step of FifoQueue, or leaves it alone.
LEMMA FifoStep ==
  ASSUME QInv, QInv', [Next]_vars
  PROVE  [Promise!Next]_<<status, prio, Landed>>
<1>0. TypeOK /\ TypeOK'
  BY DEF QInv
<1>1. ASSUME NEW q \in Entry, NEW b \in Branch, NEW n \in Priority, Enqueue(q, b, n)
      PROVE  Promise!Add(q, n)
  <2>1. \A r \in Entry \ {q} : branch'[r] = branch[r]
    BY <1>0, <1>1 DEF Enqueue, TypeOK
  <2>2. merged' = merged
    BY <1>1 DEF Enqueue, main
  <2>3. q \notin Landed
    BY <1>0, <1>1, MergeQueueAssumption DEF QInv, InsertInv, Enqueue, Landed, TypeOK
  <2>4. Landed' \in {Landed, Landed \cup {q}}
    BY <2>1, <2>2, <2>3 DEF Landed
  <2> QED
    BY <1>1, <2>4 DEF Enqueue, Promise!Add
<1>2. ASSUME NEW c \in Caller, RecordMerged(c) \/ RecordConflict(c)
      PROVE  \/ UNCHANGED <<status, prio, Landed>>
             \/ \E q \in Entry, verdict \in {"conflict", "removed"} : Promise!Settle(q, verdict)
  <2>0. prio' = prio /\ Landed' = Landed
    BY <1>2 DEF RecordMerged, RecordConflict, main, Landed
  <2>1. CASE Queued(c) /\ cur[c] \in Present
    <3>1. cur[c] \in Entry /\ \A p \in Promise!Waiting : ~Promise!Ahead(p, cur[c])
      BY <1>2, <2>1, NothingAhead DEF RecordMerged, RecordConflict
    <3>2. status[cur[c]] \in {"pending", "conflict"}
      BY <2>1 DEF Present
    <3>3. CASE RecordMerged(c)
      <4>1. cur[c] \in Landed
        BY <2>1, <3>1, <3>3 DEF QInv, MergedInv, RecordMerged, Landed
      <4>2. status' = [status EXCEPT ![cur[c]] = "removed"]
        BY <1>0, <2>1, <3>1, <3>3 DEF RecordMerged, TypeOK
      <4> QED
        BY <2>0, <3>1, <3>2, <4>1, <4>2 DEF Promise!Settle
    <3>4. CASE RecordConflict(c)
      <4>1. status' = [status EXCEPT ![cur[c]] = "conflict"]
        BY <1>0, <2>1, <3>1, <3>4 DEF RecordConflict, TypeOK
      <4> QED
        BY <2>0, <3>1, <3>2, <4>1 DEF Promise!Settle
    <3> QED
      BY <1>2, <3>3, <3>4
  <2>2. CASE ~(Queued(c) /\ cur[c] \in Present)
    <3>1. status' = status
      BY <1>0, <1>2, <2>2 DEF RecordMerged, RecordConflict, TypeOK
    <3> QED
      BY <2>0, <3>1
  <2> QED
    BY <2>1, <2>2
<1>3. ASSUME Clear
      PROVE  Promise!Clear
  BY <1>3 DEF Clear, main, Landed, Pending, Promise!Clear, Promise!Waiting
<1>4. ASSUME UNCHANGED table, merged \subseteq merged'
      PROVE  Promise!Land
  BY <1>4, LandedGrows DEF table, Promise!Land
<1>5. ASSUME NEW c \in Caller, Git(c)
      PROVE  Promise!Land
  BY <1>0, <1>4, <1>5, GitShape DEF GitStep, Moves
<1>6. ASSUME NEW c \in Caller,
             \/ Fetch(c) \/ (\E S \in SUBSET Branch : Begin(c, S))
             \/ Turn(c) \/ Return(c) \/ Crash(c)
      PROVE  Promise!Land
  BY <1>4, <1>6 DEF Fetch, Begin, Turn, Return, Crash, main
<1>7. ASSUME Resolve \/ (\E b \in Branch : Discard(b)) \/ UNCHANGED vars
      PROVE  Promise!Land
  BY <1>4, <1>7 DEF Resolve, Discard, main, vars
<1> QED
  BY <1>1, <1>2, <1>3, <1>5, <1>6, <1>7 DEF Next, Loop, Promise!Next

\* The queue implements FifoQueue: an entry is settled only when nothing waits
\* ahead of it, and removed only when its branch is on main.
THEOREM QueueImplementsFifo == Spec => ImplementsFifo
<1>1. Init => Promise!Init
  BY DEF Init, Promise!Init, Landed
<1>2. QInv /\ QInv' /\ [Next]_vars => [Promise!Next]_<<status, prio, Landed>>
  BY FifoStep
<1> QED
  BY <1>1, <1>2, QueueInvariant, PTL DEF Spec, ImplementsFifo, Promise!Spec
=============================================================================
