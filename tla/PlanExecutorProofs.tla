-------------------------- MODULE PlanExecutorProofs --------------------------
(***************************************************************************)
(* Proofs, for every set of answers and every number of rounds, of the     *)
(* safety of PlanExecutor: PInv is an inductive invariant.                 *)
(***************************************************************************)
EXTENDS PlanExecutorProperties, TLAPS

\* What Append does to the record of the tasks.
LEMMA OneMoreTask ==
  ASSUME NEW s \in Seq(Ran), NEW t \in Ran
  PROVE  /\ Append(s, t) \in Seq(Ran)
         /\ DOMAIN Append(s, t) = DOMAIN s \cup {Len(s) + 1}
         /\ \A k \in DOMAIN s : Append(s, t)[k] = s[k]
         /\ Append(s, t)[Len(s) + 1] = t
         /\ \A k \in DOMAIN s : k \in Nat /\ 1 <= k /\ k <= Len(s)
         /\ Len(s) \in Nat
OBVIOUS

\* The items of every batch are items.
LEMMA BatchesTyped == Batches \cup {Fallback} \subseteq Seq(Item)
<1>1. [desc |-> Goal, deps |-> {}] \in Item
  BY PlanAssumption DEF Item
<1>2. Fallback \in Seq(Item)
  BY <1>1 DEF Fallback
<1> QED
  BY <1>2, PlanAssumption

-----------------------------------------------------------------------------
(* What a run of a task does *)

\* The step that runs item i, with the outcome it has.
LEMMA RunStep ==
  ASSUME TypeOK, NEW i \in DOMAIN batch, Run(i)
  PROVE  \E t \in Ran :
           /\ t.round = round /\ t.desc = batch[i].desc /\ t.deps = batch[i].deps
           /\ tasks' = Append(tasks, t)
           /\ done' = done \cup {batch[i].desc}
           /\ pending' = pending \ {i} /\ ready' = ready \ {i}
           /\ i \in ready /\ pc = "run" /\ pc' \in {"scan", "run"}
           /\ UNCHANGED <<plan, round, turn, batch, row>>
<1>1. PICK state \in Outcome :
        tasks' = Append(tasks, [round |-> round, desc |-> batch[i].desc,
                                deps |-> batch[i].deps, state |-> state])
  BY DEF Run
<1>2. batch[i] \in Item /\ round \in Nat
  BY DEF TypeOK
<1>3. [round |-> round, desc |-> batch[i].desc, deps |-> batch[i].deps, state |-> state] \in Ran
  BY <1>2 DEF Item, Ran
<1> QED
  BY <1>1, <1>3 DEF Run, planVars

-----------------------------------------------------------------------------
(* Each part of PInv is kept by every step *)

\* Nothing has run initially.
LEMMA PlanInit == Init => PInv
<1> SUFFICES ASSUME Init PROVE PInv
  OBVIOUS
<1>1. TypeOK
  BY DEF Init, TypeOK, Phase, PlanState
<1>2. DepsRanFirst /\ FailInv /\ RoundInv /\ LoopInv
  BY DEF Init, DepsRanFirst, FailInv, NoFailure, RoundInv, LoopInv
<1> QED
  BY <1>1, <1>2 DEF PInv

\* Every step keeps the variables well typed.
LEMMA PlanTypeStep == PInv /\ [Next]_vars => TypeOK'
<1> SUFFICES ASSUME PInv, [Next]_vars PROVE TypeOK'
  OBVIOUS
<1>0. TypeOK /\ LoopInv
  BY DEF PInv
<1> USE <1>0 DEF TypeOK, Phase, PlanState, Become, Persist, Conclude, planVars, roundVars
<1>1. CASE Create
  BY <1>1 DEF Create
<1>2. CASE Decompose
  <2>1. batch' \in Seq(Item) /\ pending' = {} /\ ready' = {}
    BY <1>2, <1>0, BatchesTyped DEF Decompose, Parsed, LoopInv
  <2> QED
    BY <1>2, <2>1 DEF Decompose
<1>3. CASE BeginRound
  BY <1>3 DEF BeginRound
<1>4. CASE Scan
  BY <1>4 DEF Scan, Unblocked
<1>5. ASSUME NEW i \in DOMAIN batch, Run(i) PROVE TypeOK'
  <2>1. PICK t \in Ran :
           /\ tasks' = Append(tasks, t)
           /\ done' = done \cup {batch[i].desc}
           /\ pending' = pending \ {i} /\ ready' = ready \ {i}
           /\ pc' \in {"scan", "run"}
           /\ UNCHANGED <<plan, round, turn, batch, row>>
    BY <1>5, RunStep
  <2>2. batch[i].desc \in Name
    <3>1. batch[i] \in Item
      OBVIOUS
    <3> QED
      BY <3>1 DEF Item
  <2>3. tasks' \in Seq(Ran)
    BY <2>1
  <2> QED
    BY <2>1, <2>2, <2>3
<1>6. CASE EndRound
  BY <1>6 DEF EndRound
<1>7. CASE GoalMet
  BY <1>7 DEF GoalMet
<1>8. CASE NothingNext
  BY <1>8 DEF NothingNext
<1>9. CASE NextRound
  BY <1>9, BatchesTyped DEF NextRound
<1>10. CASE RoundsExceeded
  BY <1>10 DEF RoundsExceeded
<1>11. CASE Abort
  BY <1>11 DEF Abort
<1>12. CASE Ended \/ UNCHANGED vars
  BY <1>12 DEF Ended, vars
<1> QED
  BY <1>1, <1>2, <1>3, <1>4, <1>5, <1>6, <1>7, <1>8, <1>9, <1>10, <1>11, <1>12 DEF Next, Execute

\* Only a run adds to the record of tasks, and it is of an item of the pass.
LEMMA DepsStep == PInv /\ [Next]_vars => DepsRanFirst'
<1> SUFFICES ASSUME PInv, [Next]_vars PROVE DepsRanFirst'
  OBVIOUS
<1>0. TypeOK /\ DepsRanFirst /\ RoundInv
  BY DEF PInv
<1>1. ASSUME NEW i \in DOMAIN batch, Run(i) PROVE DepsRanFirst'
  <2>1. PICK t \in Ran :
           /\ t.round = round /\ t.deps = batch[i].deps
           /\ tasks' = Append(tasks, t) /\ i \in ready /\ pc = "run"
    BY <1>0, <1>1, RunStep
  <2>2. tasks \in Seq(Ran)
    BY <1>0 DEF TypeOK
  <2>3. \A d \in t.deps : \E k \in DOMAIN tasks : tasks[k].round = round /\ tasks[k].desc = d
    BY <1>0, <2>1 DEF RoundInv
  <2> SUFFICES ASSUME NEW k \in DOMAIN tasks', NEW d \in tasks'[k].deps
               PROVE  \E j \in 1 .. k - 1 : tasks'[j].round = tasks'[k].round /\ tasks'[j].desc = d
    BY DEF DepsRanFirst
  <2>4. CASE k \in DOMAIN tasks
    <3>1. tasks'[k] = tasks[k] /\ k \in 1 .. Len(tasks)
      BY <2>1, <2>2, <2>4, OneMoreTask
    <3>2. PICK j \in 1 .. k - 1 : tasks[j].round = tasks[k].round /\ tasks[j].desc = d
      BY <1>0, <2>4, <3>1 DEF DepsRanFirst
    <3>3. j \in DOMAIN tasks /\ tasks'[j] = tasks[j]
      BY <2>1, <2>2, <3>1, OneMoreTask
    <3> QED
      BY <3>1, <3>2, <3>3
  <2>5. CASE k = Len(tasks) + 1
    <3>1. tasks'[k] = t
      BY <2>1, <2>2, <2>5, OneMoreTask
    <3>2. PICK j \in DOMAIN tasks : tasks[j].round = round /\ tasks[j].desc = d
      BY <2>3, <3>1
    <3>3. tasks'[j] = tasks[j] /\ j \in 1 .. k - 1
      BY <2>1, <2>2, <2>5, <3>2, OneMoreTask
    <3> QED
      BY <2>1, <3>1, <3>2, <3>3
  <2> QED
    BY <2>1, <2>2, <2>4, <2>5, OneMoreTask
<1>2. CASE ~ \E i \in DOMAIN batch : Run(i)
  <2>1. UNCHANGED tasks
    BY <1>2 DEF Next, Execute, Create, Decompose, BeginRound, Scan, EndRound, GoalMet, NothingNext,
                NextRound, RoundsExceeded, Abort, Ended, Conclude, vars
  <2> QED
    BY <1>0, <2>1 DEF DepsRanFirst
<1> QED
  BY <1>1, <1>2

\* A failure ends the plan at the end of its round.
LEMMA FailStep == PInv /\ [Next]_vars => FailInv'
<1> SUFFICES ASSUME PInv, [Next]_vars PROVE FailInv'
  OBVIOUS
<1>0. TypeOK /\ FailInv
  BY DEF PInv
<1> USE <1>0 DEF FailInv, NoFailure, Become, Persist, Conclude, planVars, roundVars
<1>1. CASE Create
  BY <1>1 DEF Create
<1>2. CASE Decompose
  BY <1>2 DEF Decompose
<1>3. CASE BeginRound
  BY <1>3 DEF BeginRound
<1>4. CASE Scan
  BY <1>4 DEF Scan
<1>5. ASSUME NEW i \in DOMAIN batch, Run(i) PROVE FailInv'
  <2>1. PICK t \in Ran :
           /\ t.round = round /\ tasks' = Append(tasks, t) /\ pc = "run" /\ pc' \in {"scan", "run"}
           /\ UNCHANGED <<plan, round, row>>
    BY <1>5, RunStep
  <2>2. tasks \in Seq(Ran)
    BY DEF TypeOK
  <2>3. \A k \in DOMAIN tasks' : tasks'[k] = t \/ (k \in DOMAIN tasks /\ tasks'[k] = tasks[k])
    BY <2>1, <2>2, OneMoreTask
  <2> QED
    BY <2>1, <2>3
<1>6. CASE EndRound
  BY <1>6 DEF EndRound, RoundFailed
<1>7. CASE GoalMet
  BY <1>7 DEF GoalMet
<1>8. CASE NothingNext
  BY <1>8 DEF NothingNext
<1>9. CASE NextRound
  BY <1>9 DEF NextRound
<1>10. CASE RoundsExceeded
  BY <1>10 DEF RoundsExceeded
<1>11. CASE Abort
  BY <1>11 DEF Abort
<1>12. CASE Ended \/ UNCHANGED vars
  BY <1>12 DEF Ended, vars
<1> QED
  BY <1>1, <1>2, <1>3, <1>4, <1>5, <1>6, <1>7, <1>8, <1>9, <1>10, <1>11, <1>12 DEF Next, Execute

\* A round starts with nothing completed, and a description is completed by the task
\* that bears it.
LEMMA RoundStep == PInv /\ [Next]_vars => RoundInv'
<1> SUFFICES ASSUME PInv, [Next]_vars PROVE RoundInv'
  OBVIOUS
<1>0. TypeOK /\ RoundInv
  BY DEF PInv
<1> USE <1>0 DEF RoundInv, Attempted
<1>1. CASE BeginRound
  BY <1>1 DEF BeginRound
<1>2. CASE Scan
  BY <1>2 DEF Scan, Unblocked, planVars
<1>3. ASSUME NEW i \in DOMAIN batch, Run(i) PROVE RoundInv'
  <2>1. PICK t \in Ran :
           /\ t.round = round /\ t.desc = batch[i].desc /\ tasks' = Append(tasks, t)
           /\ done' = done \cup {batch[i].desc}
           /\ pending' = pending \ {i} /\ ready' = ready \ {i}
           /\ i \in ready /\ pc = "run"
           /\ UNCHANGED <<round, batch>>
    BY <1>3, RunStep
  <2>2. tasks \in Seq(Ran) /\ i \in pending
    BY <2>1 DEF TypeOK
  <2>3. done' = {batch[j].desc : j \in DOMAIN batch \ pending'}
    BY <2>1, <2>2
  <2>4. \A d \in done' : \E k \in DOMAIN tasks' : tasks'[k].round = round /\ tasks'[k].desc = d
    BY <2>1, <2>2, OneMoreTask
  <2> QED
    BY <2>1, <2>3, <2>4
<1>4. CASE EndRound
  BY <1>4 DEF EndRound, Conclude, roundVars
<1>5. CASE Create \/ Decompose \/ GoalMet \/ NothingNext \/ NextRound \/ RoundsExceeded \/ Abort
  BY <1>5 DEF Create, Decompose, GoalMet, NothingNext, NextRound, RoundsExceeded, Abort, Conclude
<1>6. CASE Ended \/ UNCHANGED vars
  BY <1>6 DEF Ended, vars, planVars, roundVars
<1> QED
  BY <1>1, <1>2, <1>3, <1>4, <1>5, <1>6 DEF Next, Execute

\* Whatever the loop runs is in every closed set, and it stops at a closed set.
LEMMA LoopStep == PInv /\ [Next]_vars => LoopInv'
<1> SUFFICES ASSUME PInv, [Next]_vars PROVE LoopInv'
  OBVIOUS
<1>0. TypeOK /\ RoundInv /\ LoopInv
  BY DEF PInv
<1> USE <1>0 DEF LoopInv, Attempted
<1>1. CASE BeginRound
  BY <1>1 DEF BeginRound
<1>2. CASE Scan
  <2> SUFFICES ASSUME NEW C \in Closed(batch) PROVE Attempted \cup Unblocked \subseteq C
    BY <1>2 DEF Scan
  <2>1. Attempted \subseteq C
    BY <1>2 DEF Scan
  <2>2. done \subseteq {batch[j].desc : j \in C}
    BY <1>2, <2>1 DEF Scan, RoundInv
  <2>3. \A i \in Unblocked : i \in C
    BY <2>2 DEF Unblocked, Closed, TypeOK
  <2> QED
    BY <2>1, <2>3
<1>3. ASSUME NEW i \in DOMAIN batch, Run(i) PROVE LoopInv'
  BY <1>3 DEF Run, TypeOK
<1>4. CASE EndRound
  BY <1>4 DEF EndRound, Conclude, Unblocked, roundVars
<1>5. CASE Create \/ Decompose \/ GoalMet \/ NothingNext \/ NextRound \/ RoundsExceeded \/ Abort
  BY <1>5 DEF Create, Decompose, GoalMet, NothingNext, NextRound, RoundsExceeded, Abort, Conclude,
              roundVars
<1>6. CASE Ended \/ UNCHANGED vars
  BY <1>6 DEF Ended, vars, planVars, roundVars, Unblocked
<1> QED
  BY <1>1, <1>2, <1>3, <1>4, <1>5, <1>6 DEF Next, Execute

-----------------------------------------------------------------------------
(* The theorems *)

\* PInv holds in every reachable state of the executor.
THEOREM PlanInvariance == Spec => []PInv
<1>1. PInv /\ [Next]_vars => PInv'
  BY PlanTypeStep, DepsStep, FailStep, RoundStep, LoopStep DEF PInv
<1> QED
  BY PlanInit, <1>1, PTL DEF Spec

\* The plan, its batches and its tasks keep their types.
THEOREM PlanTypes == Spec => []TypeOK
<1>1. PInv => TypeOK
  BY DEF PInv
<1> QED
  BY PlanInvariance, <1>1, PTL

\* A task runs after a task of its own round for each of its dependencies.
THEOREM DependenciesFirst == Spec => []DepsRanFirst
<1>1. PInv => DepsRanFirst
  BY DEF PInv
<1> QED
  BY PlanInvariance, <1>1, PTL

\* A failed task ends the plan, which is never completed.
THEOREM FailureIsFinal == Spec => []FailureEnds
<1>1. PInv => FailureEnds
  BY DEF PInv, FailInv, NoFailure, FailureEnds
<1> QED
  BY PlanInvariance, <1>1, PTL

\* The tasks a round drops are exactly those no order of the batch could have run.
THEOREM LoopIsComplete == Spec => []DropsOnlyBlocked
<1>1. PInv => DropsOnlyBlocked
  <2> SUFFICES ASSUME PInv, pc = "evaluate"
               PROVE  DOMAIN batch \ pending = Runnable(batch)
    BY DEF DropsOnlyBlocked
  <2>1. /\ done = {batch[i].desc : i \in Attempted}
        /\ \A C \in Closed(batch) : Attempted \subseteq C
        /\ Unblocked = {}
    BY DEF PInv, RoundInv, LoopInv
  <2>2. Attempted \in Closed(batch)
    <3> SUFFICES ASSUME NEW i \in DOMAIN batch, batch[i].deps \subseteq done
                 PROVE  i \in Attempted
      BY <2>1 DEF Closed, Attempted
    <3> QED
      BY <2>1 DEF Unblocked, Attempted
  <2>3. Runnable(batch) = Attempted
    BY <2>1, <2>2 DEF Runnable, Attempted
  <2> QED
    BY <2>3 DEF Attempted
<1> QED
  BY PlanInvariance, <1>1, PTL
=============================================================================
