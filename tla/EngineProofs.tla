---------------------------- MODULE EngineProofs ----------------------------
(***************************************************************************)
(* Proofs, for every number of subtasks, plan, limit and mode, that the    *)
(* bookkeeping of one run is right: IInv is an inductive invariant of      *)
(* Engine, and the properties of EngineProperties follow from it; and that *)
(* the engine implements RunLifecycle, by LifeInv on top of IInv.          *)
(***************************************************************************)
EXTENDS EngineProperties, TLAPS, FiniteSetTheorems

-----------------------------------------------------------------------------
(* Counting the running subtasks *)

\* The set of subtasks in one state is finite, so it can be counted.
LEMMA StateFinite ==
  ASSUME NEW f \in [Subtask -> SubtaskState], NEW v
  PROVE  /\ IsFiniteSet({s \in Subtask : f[s] = v})
         /\ Cardinality({s \in Subtask : f[s] = v}) \in Nat
<1>1. IsFiniteSet(Subtask)
  BY FS_Interval, EngineAssumption DEF Subtask
<1>2. IsFiniteSet({s \in Subtask : f[s] = v})
  BY <1>1, FS_Subset
<1> QED
  BY <1>2, FS_CardinalityType

\* A subtask that starts running adds one to the count.
LEMMA CountUp ==
  ASSUME NEW f \in [Subtask -> SubtaskState], NEW s \in Subtask, f[s] # "running",
         NEW g, g = [f EXCEPT ![s] = "running"]
  PROVE  Cardinality({t \in Subtask : g[t] = "running"})
           = Cardinality({t \in Subtask : f[t] = "running"}) + 1
<1> DEFINE F == {t \in Subtask : f[t] = "running"}
           G == {t \in Subtask : g[t] = "running"}
<1>1. IsFiniteSet(F)
  BY StateFinite
<1>2. G = F \cup {s} /\ s \notin F
  OBVIOUS
<1>3. Cardinality(F \cup {s}) = Cardinality(F) + 1
  BY <1>1, <1>2, FS_AddElement
<1> QED
  BY <1>2, <1>3

\* A subtask that stops running takes one from the count, which was positive.
LEMMA CountDown ==
  ASSUME NEW f \in [Subtask -> SubtaskState], NEW s \in Subtask, f[s] = "running",
         NEW v, v # "running", NEW g, g = [f EXCEPT ![s] = v]
  PROVE  /\ Cardinality({t \in Subtask : f[t] = "running"})
              = Cardinality({t \in Subtask : g[t] = "running"}) + 1
         /\ Cardinality({t \in Subtask : g[t] = "running"}) \in Nat
<1> DEFINE F == {t \in Subtask : f[t] = "running"}
           G == {t \in Subtask : g[t] = "running"}
<1>1. IsFiniteSet(F)
  BY StateFinite
<1>2. G = F \ {s} /\ s \in F
  OBVIOUS
<1>3. IsFiniteSet(G) /\ F = G \cup {s} /\ s \notin G
  BY <1>1, <1>2, FS_Subset
<1>4. Cardinality(G \cup {s}) = Cardinality(G) + 1
  BY <1>3, FS_AddElement
<1> QED
  BY <1>3, <1>4, FS_CardinalityType

\* Changes between states other than running leave the count alone.
LEMMA CountSame ==
  ASSUME NEW f \in [Subtask -> SubtaskState], NEW s \in Subtask, f[s] # "running",
         NEW v, v # "running", NEW g, g = [f EXCEPT ![s] = v]
  PROVE  {t \in Subtask : g[t] = "running"} = {t \in Subtask : f[t] = "running"}
OBVIOUS

-----------------------------------------------------------------------------
(* Type correctness of a step *)

\* Initially nothing has been spawned and no loop is running.
LEMMA InitInv == Init => IInv
<1> SUFFICES ASSUME Init PROVE IInv
  OBVIOUS
<1>1. TypeOK
  <2>1. /\ None \in [Subtask -> Nat]
        /\ None \in [Subtask -> 0 .. MaxRetries]
        /\ None \in [Subtask -> 0 .. MaxGateRetries]
        /\ None \in [Subtask -> 0 .. MaxEdits]
    BY EngineAssumption DEF None
  <2>2. /\ mode \in Modes /\ runState \in RunState /\ pc \in Phase /\ todo \subseteq Subtask
        /\ deps \in [Subtask -> SUBSET (0 .. N)]
        /\ st \in [Subtask -> SubtaskState]
        /\ active \in Nat /\ stalled \in Nat
        /\ session \in [Subtask -> BOOLEAN] /\ wt \in [Subtask -> BOOLEAN]
    BY DEF Init, RunState, SubtaskState, Phase
  <2>3. /\ reexec \in BOOLEAN /\ allPassed \in BOOLEAN
        /\ anyPassed \in BOOLEAN /\ mergeFailed \in BOOLEAN
    BY DEF Init
  <2> QED
    BY <2>1, <2>2, <2>3 DEF Init, TypeOK
<1>2. PhaseInv /\ TurnInv /\ AttemptInv /\ CurrentAgent /\ ActiveCountExact /\ DepsStartFirst
  BY DEF Init, None, PhaseInv, TurnInv, AttemptInv, CurrentAgent, ActiveCountExact,
         DepsStartFirst, PollLoop
<1> QED
  BY <1>1, <1>2 DEF IInv

\* The counter is positive when a polled subtask settles, and covers the stalls.
LEMMA CounterPositive ==
  ASSUME IInv
  PROVE  /\ \A s \in Subtask : pc = "poll" /\ s \in todo => active - 1 \in Nat
         /\ pc = "stalls" => active - stalled \in Nat
<1> USE DEF IInv, In
<1>1. ASSUME NEW s \in Subtask, pc = "poll", s \in todo
      PROVE  active - 1 \in Nat
  <2>1. st \in [Subtask -> SubtaskState] /\ st[s] = "running"
    BY <1>1 DEF TypeOK, TurnInv
  <2>2. active = Cardinality({t \in Subtask : st[t] = "running"}) + stalled /\ stalled \in Nat
    BY <1>1 DEF ActiveCountExact, PollLoop, TypeOK
  <2>3. Cardinality({t \in Subtask : st[t] = "running"}) \in Nat \ {0}
    <3> DEFINE R == {t \in Subtask : st[t] = "running"}
    <3>1. IsFiniteSet(R) /\ Cardinality(R) \in Nat
      BY <2>1, StateFinite
    <3>2. s \in R
      BY <2>1
    <3> QED
      BY <3>1, <3>2, FS_EmptySet
  <2> QED
    BY <2>2, <2>3
<1>2. ASSUME pc = "stalls"
      PROVE  active - stalled \in Nat
  <2>1. st \in [Subtask -> SubtaskState]
    BY DEF TypeOK
  <2>2. active = Cardinality({t \in Subtask : st[t] = "running"}) + stalled /\ stalled \in Nat
    BY <1>2 DEF ActiveCountExact, PollLoop, TypeOK
  <2>3. Cardinality({t \in Subtask : st[t] = "running"}) \in Nat
    BY <2>1, StateFinite
  <2> QED
    BY <2>2, <2>3
<1> QED
  BY <1>1, <1>2

\* The worktree and session variables keep their types under Release.
LEMMA ReleaseType ==
  ASSUME TypeOK, NEW s \in Subtask, Release(s)
  PROVE  /\ session' \in [Subtask -> BOOLEAN] /\ wt' \in [Subtask -> BOOLEAN]
         /\ ver' \in [Subtask -> 0 .. MaxEdits] /\ head' \in [Subtask -> 0 .. MaxEdits]
<1>1. PICK alive \in BOOLEAN, tree \in BOOLEAN :
        /\ session' = [session EXCEPT ![s] = alive] /\ wt' = [wt EXCEPT ![s] = tree]
        /\ ver' = [ver EXCEPT ![s] = IF tree THEN @ ELSE 0]
        /\ head' = [head EXCEPT ![s] = IF tree THEN @ ELSE 0]
  <2>1. session[s] \in BOOLEAN /\ wt[s] \in BOOLEAN
    BY DEF TypeOK
  <2> QED
    BY <2>1 DEF Release
<1>2. session' \in [Subtask -> BOOLEAN] /\ wt' \in [Subtask -> BOOLEAN]
  BY <1>1 DEF TypeOK
<1>3. ver' \in [Subtask -> 0 .. MaxEdits] /\ head' \in [Subtask -> 0 .. MaxEdits]
  BY <1>1, EngineAssumption DEF TypeOK
<1> QED
  BY <1>2, <1>3

\* Every step keeps the types.
LEMMA TypeStep == IInv /\ [Next]_vars => TypeOK'
<1> SUFFICES ASSUME IInv, [Next]_vars PROVE TypeOK'
  OBVIOUS
<1>0. TypeOK
  BY DEF IInv
<1> USE <1>0, EngineAssumption DEF TypeOK, RunState, SubtaskState, Phase, PollLoop, setup, loopVars,
        taskVars, execVars, verdictVars, envVars, historyVars
<1>1. CASE EnterPlan
  BY <1>1 DEF EnterPlan, Enter
<1>2. CASE EnterExecute
  <2>1. IsFiniteSet(In("running")) /\ {s \in In("running") : agent[s] # 0} \subseteq In("running")
    BY StateFinite DEF In
  <2>2. active' \in Nat
    BY <1>2, <2>1, FS_Subset, FS_CardinalityType DEF EnterExecute
  <2> QED
    BY <1>2, <2>2 DEF EnterExecute, Enter
<1>3. CASE EnterReview
  BY <1>3 DEF EnterReview, Enter, In
<1>4. CASE EnterMerge
  BY <1>4 DEF EnterMerge, Enter, In
<1>5. CASE Finish
  BY <1>5 DEF Finish, Enter
<1>6. CASE Scout
  BY <1>6 DEF Scout, Return
<1>7. CASE Plan
  BY <1>7 DEF Plan, Return
<1>8. CASE EndDispatch
  BY <1>8 DEF EndDispatch, LeaveExecute, Return, None, In
<1>9. CASE Wake
  BY <1>9 DEF Wake
<1>10. CASE EndPoll
  BY <1>10 DEF EndPoll, In
<1>11. CASE EndStalls
  <2>1. active' \in Nat
    BY <1>11, CounterPositive DEF EndStalls
  <2> QED
    BY <1>11, <2>1 DEF EndStalls
<1>12. CASE EndReview
  BY <1>12 DEF EndReview, Return, None
<1>13. CASE EndMerge
  BY <1>13 DEF EndMerge, Return
<1>14. CASE PollAborts
  BY <1>14 DEF PollAborts, Stop
<1>15. CASE QueueRaises
  BY <1>15 DEF QueueRaises, Stop
<1>16. CASE Cancel
  BY <1>16 DEF Cancel, Stop
<1>17. CASE ForeignCleanup
  BY <1>17 DEF ForeignCleanup
<1>18. ASSUME NEW s \in Subtask, DispatchOk(s) PROVE TypeOK'
  BY <1>18 DEF DispatchOk, DispatchTurn
<1>19. ASSUME NEW s \in Subtask, DispatchFails(s) PROVE TypeOK'
  BY <1>19 DEF DispatchFails, DispatchTurn
<1>20. ASSUME NEW s \in Subtask, PollDead(s) PROVE TypeOK'
  <2>1. active' \in Nat
    BY <1>20, CounterPositive DEF PollDead, PollTurn, Settle, Collected, First
  <2> QED
    BY <1>20, <2>1 DEF PollDead, PollTurn, Settle, Collected
<1>21. ASSUME NEW s \in Subtask, PollDone(s) PROVE TypeOK'
  <2>1. active' \in Nat
    BY <1>21, CounterPositive DEF PollDone, PollTurn, Settle, First
  <2> QED
    BY <1>21, <2>1 DEF PollDone, PollTurn, Settle
<1>22. ASSUME NEW s \in Subtask, PollBusy(s) PROVE TypeOK'
  BY <1>22 DEF PollBusy, PollTurn, Heartbeat
<1>23. ASSUME NEW s \in Subtask, StallRetry(s) PROVE TypeOK'
  <2>1. /\ session' \in [Subtask -> BOOLEAN] /\ wt' \in [Subtask -> BOOLEAN]
        /\ ver' \in [Subtask -> 0 .. MaxEdits] /\ head' \in [Subtask -> 0 .. MaxEdits]
    BY <1>23, ReleaseType DEF StallRetry, StallTurn
  <2>2. retry' \in [Subtask -> 0 .. MaxRetries]
    BY <1>23 DEF StallRetry
  <2>3. stalled' \in Nat /\ todo' \subseteq Subtask
    BY <1>23 DEF StallRetry, StallTurn
  <2>4. /\ st' \in [Subtask -> SubtaskState] /\ agent' \in [Subtask -> Nat]
        /\ agentMap' \in [Subtask -> Nat] /\ quiet' \in [Subtask -> Nat]
    BY <1>23 DEF StallRetry, StallTurn
  <2>5. UNCHANGED <<runState, pc, setup, spawns, gateRetry, active, verdictVars, historyVars>>
    BY <1>23 DEF StallRetry, StallTurn
  <2> QED
    BY <2>1, <2>2, <2>3, <2>4, <2>5
<1>24. ASSUME NEW s \in Subtask, StallExhausted(s) PROVE TypeOK'
  <2>1. /\ session' \in [Subtask -> BOOLEAN] /\ wt' \in [Subtask -> BOOLEAN]
        /\ ver' \in [Subtask -> 0 .. MaxEdits] /\ head' \in [Subtask -> 0 .. MaxEdits]
    BY <1>24, ReleaseType DEF StallExhausted, StallTurn
  <2>2. /\ st' \in [Subtask -> SubtaskState] /\ agentMap' \in [Subtask -> Nat]
        /\ quiet' \in [Subtask -> Nat] /\ stalled' \in Nat /\ todo' \subseteq Subtask
    BY <1>24 DEF StallExhausted, StallTurn
  <2>3. UNCHANGED <<retry, agent, runState, pc, setup, spawns, gateRetry, active,
                    verdictVars, historyVars>>
    BY <1>24 DEF StallExhausted, StallTurn
  <2> QED
    BY <2>1, <2>2, <2>3
<1>25. ASSUME NEW s \in Subtask, GatesPass(s) PROVE TypeOK'
  BY <1>25 DEF GatesPass, ReviewTurn, AutoCommit
<1>26. ASSUME NEW s \in Subtask, GateRetry(s) PROVE TypeOK'
  BY <1>26 DEF GateRetry, ReviewTurn, AutoCommit
<1>27. ASSUME NEW s \in Subtask, GateReject(s) PROVE TypeOK'
  <2>1. /\ session' \in [Subtask -> BOOLEAN] /\ wt' \in [Subtask -> BOOLEAN]
        /\ ver' \in [Subtask -> 0 .. MaxEdits] /\ head' \in [Subtask -> 0 .. MaxEdits]
    <3>1. CASE AutoCommit(s) /\ UNCHANGED <<wt, ver>>
               /\ \E alive \in BOOLEAN : session' = [session EXCEPT ![s] = alive]
      BY <3>1 DEF AutoCommit
    <3>2. CASE /\ wt' = [wt EXCEPT ![s] = FALSE]
               /\ ver' = [ver EXCEPT ![s] = 0] /\ head' = [head EXCEPT ![s] = 0]
               /\ UNCHANGED session
      BY <3>2
    <3> QED
      BY <1>27, <3>1, <3>2 DEF GateReject
  <2> QED
    BY <1>27, <2>1 DEF GateReject, ReviewTurn
<1>28. ASSUME NEW s \in Subtask, MergeOk(s) PROVE TypeOK'
  BY <1>28 DEF MergeOk, MergeTurn
<1>29. ASSUME NEW s \in Subtask, MergeFails(s) PROVE TypeOK'
  BY <1>29 DEF MergeFails, MergeTurn, MergeCommit, Return
<1>30. ASSUME NEW s \in Subtask, QueueConflict(s) PROVE TypeOK'
  BY <1>30 DEF QueueConflict, MergeTurn, MergeCommit
<1>31. ASSUME NEW s \in Subtask, Edit(s) PROVE TypeOK'
  BY <1>31 DEF Edit
<1>32. ASSUME NEW s \in Subtask, Commit(s) PROVE TypeOK'
  BY <1>32 DEF Commit
<1>33. ASSUME NEW s \in Subtask, Exit(s) PROVE TypeOK'
  BY <1>33 DEF Exit
<1>34. CASE UNCHANGED vars
  BY <1>34 DEF vars
<1> QED
  BY <1>1, <1>2, <1>3, <1>4, <1>5, <1>6, <1>7, <1>8, <1>9, <1>10, <1>11, <1>12, <1>13, <1>14, <1>15, <1>16, <1>17, <1>18, <1>19, <1>20, <1>21, <1>22, <1>23, <1>24, <1>25, <1>26, <1>27, <1>28, <1>29, <1>30, <1>31, <1>32, <1>33, <1>34
  DEF Next, Coroutine, RunLoop, Execute, Review, Merge, Raise, Agents, Ended

-----------------------------------------------------------------------------
(* What a step does to the subtask records *)

\* The actions that touch the state, agent, spawns or retry count of a subtask,
\* or the plan; every other step leaves them alone.
LEMMA SubtaskStep ==
  ASSUME [Next]_vars
  PROVE  \/ UNCHANGED <<st, agent, spawns, retry, deps>>
         \/ Plan
         \/ \E s \in Subtask :
              \/ DispatchOk(s) \/ DispatchFails(s) \/ PollDead(s) \/ PollDone(s)
              \/ StallRetry(s) \/ StallExhausted(s) \/ GateRetry(s) \/ GateReject(s)
              \/ MergeFails(s)
<1> USE DEF setup, loopVars, taskVars
<1>1. CASE RunLoop
  BY <1>1 DEF RunLoop, EnterPlan, EnterExecute, EnterReview, EnterMerge, Finish, Enter
<1>2. CASE Scout
  BY <1>2 DEF Scout
<1>3. CASE Execute
  <2>1. CASE EndDispatch \/ Wake \/ EndPoll \/ EndStalls
    BY <2>1 DEF EndDispatch, Wake, EndPoll, EndStalls
  <2>2. ASSUME NEW s \in Subtask, PollBusy(s) PROVE UNCHANGED <<st, agent, spawns, retry, deps>>
    BY <2>2 DEF PollBusy, PollTurn, Heartbeat
  <2> QED
    BY <1>3, <2>1, <2>2 DEF Execute
<1>4. CASE Review
  <2>1. CASE EndReview
    BY <2>1 DEF EndReview
  <2>2. ASSUME NEW s \in Subtask, GatesPass(s) PROVE UNCHANGED <<st, agent, spawns, retry, deps>>
    BY <2>2 DEF GatesPass, ReviewTurn
  <2> QED
    BY <1>4, <2>1, <2>2 DEF Review
<1>5. CASE Merge
  <2>1. CASE EndMerge
    BY <2>1 DEF EndMerge
  <2>2. ASSUME NEW s \in Subtask, MergeOk(s) \/ QueueConflict(s)
        PROVE  UNCHANGED <<st, agent, spawns, retry, deps>>
    BY <2>2 DEF MergeOk, QueueConflict, MergeTurn
  <2> QED
    BY <1>5, <2>1, <2>2 DEF Merge
<1>6. CASE Raise
  BY <1>6 DEF Raise, PollAborts, QueueRaises, Cancel, Stop
<1>7. CASE Agents
  BY <1>7 DEF Agents, ForeignCleanup, Edit, Commit, Exit
<1>8. CASE UNCHANGED vars
  BY <1>8 DEF vars
<1> QED
  BY <1>1, <1>2, <1>3, <1>4, <1>5, <1>6, <1>7, <1>8 DEF Next, Coroutine, Ended

-----------------------------------------------------------------------------
(* Phases and loops *)

\* Every handler leaves the run in the state of the handler that comes next.
LEMMA PhaseStep == IInv /\ [Next]_vars => PhaseInv'
<1> SUFFICES ASSUME IInv, [Next]_vars PROVE PhaseInv'
  OBVIOUS
<1>0. TypeOK /\ PhaseInv
  BY DEF IInv
<1> USE <1>0 DEF PhaseInv, PollLoop, setup, loopVars, taskVars
<1>1. CASE EnterPlan
  BY <1>1 DEF EnterPlan, Enter
<1>2. CASE EnterExecute
  BY <1>2 DEF EnterExecute, Enter
<1>3. CASE EnterReview
  BY <1>3 DEF EnterReview, Enter
<1>4. CASE EnterMerge
  BY <1>4 DEF EnterMerge, Enter
<1>5. CASE Finish
  BY <1>5 DEF Finish, Enter
<1>6. CASE Scout
  BY <1>6 DEF Scout, Return, TypeOK
<1>7. CASE Plan
  BY <1>7 DEF Plan, Return
<1>8. CASE EndDispatch
  BY <1>8 DEF EndDispatch, LeaveExecute, Return
<1>9. CASE Wake
  BY <1>9 DEF Wake
<1>10. CASE EndPoll
  BY <1>10 DEF EndPoll
<1>11. CASE EndStalls
  BY <1>11 DEF EndStalls
<1>12. CASE EndReview
  BY <1>12 DEF EndReview, Return
<1>13. CASE EndMerge
  BY <1>13 DEF EndMerge, Return
<1>14. CASE PollAborts
  BY <1>14 DEF PollAborts, Stop
<1>15. CASE QueueRaises
  BY <1>15 DEF QueueRaises, Stop
<1>16. CASE Cancel
  BY <1>16 DEF Cancel, Stop
<1>17. CASE ForeignCleanup
  BY <1>17 DEF ForeignCleanup
<1>18. ASSUME NEW s \in Subtask, DispatchOk(s) PROVE PhaseInv'
  BY <1>18 DEF DispatchOk, DispatchTurn, TypeOK
<1>19. ASSUME NEW s \in Subtask, DispatchFails(s) PROVE PhaseInv'
  BY <1>19 DEF DispatchFails, DispatchTurn, TypeOK
<1>20. ASSUME NEW s \in Subtask, PollDead(s) PROVE PhaseInv'
  BY <1>20 DEF PollDead, PollTurn, Settle, Collected
<1>21. ASSUME NEW s \in Subtask, PollDone(s) PROVE PhaseInv'
  BY <1>21 DEF PollDone, PollTurn, Settle
<1>22. ASSUME NEW s \in Subtask, PollBusy(s) PROVE PhaseInv'
  BY <1>22 DEF PollBusy, PollTurn, Heartbeat
<1>23. ASSUME NEW s \in Subtask, StallRetry(s) PROVE PhaseInv'
  BY <1>23 DEF StallRetry, StallTurn
<1>24. ASSUME NEW s \in Subtask, StallExhausted(s) PROVE PhaseInv'
  BY <1>24 DEF StallExhausted, StallTurn
<1>25. ASSUME NEW s \in Subtask, GatesPass(s) PROVE PhaseInv'
  BY <1>25 DEF GatesPass, ReviewTurn
<1>26. ASSUME NEW s \in Subtask, GateRetry(s) PROVE PhaseInv'
  BY <1>26 DEF GateRetry, ReviewTurn
<1>27. ASSUME NEW s \in Subtask, GateReject(s) PROVE PhaseInv'
  BY <1>27 DEF GateReject, ReviewTurn
<1>28. ASSUME NEW s \in Subtask, MergeOk(s) PROVE PhaseInv'
  BY <1>28 DEF MergeOk, MergeTurn
<1>29. ASSUME NEW s \in Subtask, MergeFails(s) PROVE PhaseInv'
  BY <1>29 DEF MergeFails, MergeTurn, Return
<1>30. ASSUME NEW s \in Subtask, QueueConflict(s) PROVE PhaseInv'
  BY <1>30 DEF QueueConflict, MergeTurn
<1>31. ASSUME NEW s \in Subtask, Edit(s) PROVE PhaseInv'
  BY <1>31 DEF Edit
<1>32. ASSUME NEW s \in Subtask, Commit(s) PROVE PhaseInv'
  BY <1>32 DEF Commit
<1>33. ASSUME NEW s \in Subtask, Exit(s) PROVE PhaseInv'
  BY <1>33 DEF Exit
<1>34. CASE UNCHANGED vars
  BY <1>34 DEF vars
<1> QED
  BY <1>1, <1>2, <1>3, <1>4, <1>5, <1>6, <1>7, <1>8, <1>9, <1>10, <1>11,
     <1>12, <1>13, <1>14, <1>15, <1>16, <1>17, <1>18, <1>19, <1>20, <1>21,
     <1>22, <1>23, <1>24, <1>25, <1>26, <1>27, <1>28, <1>29, <1>30, <1>31,
     <1>32, <1>33, <1>34
  DEF Next, Coroutine, RunLoop, Execute, Review, Merge, Raise, Agents, Ended

\* A loop over running (done) subtasks only removes the one it has dealt with.
LEMMA TurnStep == IInv /\ [Next]_vars => TurnInv'
<1> SUFFICES ASSUME IInv, [Next]_vars PROVE TurnInv'
  OBVIOUS
<1>0. TypeOK /\ TurnInv
  BY DEF IInv
<1> USE <1>0 DEF TypeOK, TurnInv, In, setup, loopVars, taskVars
<1>1. CASE EnterPlan
  BY <1>1 DEF EnterPlan, Enter
<1>2. CASE EnterExecute
  BY <1>2 DEF EnterExecute, Enter
<1>3. CASE EnterReview
  BY <1>3 DEF EnterReview, Enter
<1>4. CASE EnterMerge
  BY <1>4 DEF EnterMerge, Enter
<1>5. CASE Finish
  BY <1>5 DEF Finish, Enter
<1>6. CASE Scout
  BY <1>6 DEF Scout, Return
<1>7. CASE Plan
  BY <1>7 DEF Plan, Return
<1>8. CASE EndDispatch
  BY <1>8 DEF EndDispatch, LeaveExecute, Return
<1>9. CASE Wake
  BY <1>9 DEF Wake
<1>10. CASE EndPoll
  BY <1>10 DEF EndPoll
<1>11. CASE EndStalls
  BY <1>11 DEF EndStalls
<1>12. CASE EndReview
  BY <1>12 DEF EndReview, Return
<1>13. CASE EndMerge
  BY <1>13 DEF EndMerge, Return
<1>14. CASE PollAborts
  BY <1>14 DEF PollAborts, Stop
<1>15. CASE QueueRaises
  BY <1>15 DEF QueueRaises, Stop
<1>16. CASE Cancel
  BY <1>16 DEF Cancel, Stop
<1>17. CASE ForeignCleanup
  BY <1>17 DEF ForeignCleanup
<1>18. ASSUME NEW s \in Subtask, DispatchOk(s) PROVE TurnInv'
  BY <1>18 DEF DispatchOk, DispatchTurn
<1>19. ASSUME NEW s \in Subtask, DispatchFails(s) PROVE TurnInv'
  BY <1>19 DEF DispatchFails, DispatchTurn
<1>20. ASSUME NEW s \in Subtask, PollDead(s) PROVE TurnInv'
  BY <1>20 DEF PollDead, PollTurn, Settle, Collected, First
<1>21. ASSUME NEW s \in Subtask, PollDone(s) PROVE TurnInv'
  BY <1>21 DEF PollDone, PollTurn, Settle, First
<1>22. ASSUME NEW s \in Subtask, PollBusy(s) PROVE TurnInv'
  BY <1>22 DEF PollBusy, PollTurn, Heartbeat, First
<1>23. ASSUME NEW s \in Subtask, StallRetry(s) PROVE TurnInv'
  BY <1>23 DEF StallRetry, StallTurn, First
<1>24. ASSUME NEW s \in Subtask, StallExhausted(s) PROVE TurnInv'
  BY <1>24 DEF StallExhausted, StallTurn, First
<1>25. ASSUME NEW s \in Subtask, GatesPass(s) PROVE TurnInv'
  BY <1>25 DEF GatesPass, ReviewTurn, First
<1>26. ASSUME NEW s \in Subtask, GateRetry(s) PROVE TurnInv'
  BY <1>26 DEF GateRetry, ReviewTurn, First
<1>27. ASSUME NEW s \in Subtask, GateReject(s) PROVE TurnInv'
  BY <1>27 DEF GateReject, ReviewTurn, First
<1>28. ASSUME NEW s \in Subtask, MergeOk(s) PROVE TurnInv'
  BY <1>28 DEF MergeOk, MergeTurn, First
<1>29. ASSUME NEW s \in Subtask, MergeFails(s) PROVE TurnInv'
  BY <1>29 DEF MergeFails, MergeTurn, Return, First
<1>30. ASSUME NEW s \in Subtask, QueueConflict(s) PROVE TurnInv'
  BY <1>30 DEF QueueConflict, MergeTurn, First
<1>31. ASSUME NEW s \in Subtask, Edit(s) PROVE TurnInv'
  BY <1>31 DEF Edit
<1>32. ASSUME NEW s \in Subtask, Commit(s) PROVE TurnInv'
  BY <1>32 DEF Commit
<1>33. ASSUME NEW s \in Subtask, Exit(s) PROVE TurnInv'
  BY <1>33 DEF Exit
<1>34. CASE UNCHANGED vars
  BY <1>34 DEF vars
<1> QED
  BY <1>1, <1>2, <1>3, <1>4, <1>5, <1>6, <1>7, <1>8, <1>9, <1>10, <1>11,
     <1>12, <1>13, <1>14, <1>15, <1>16, <1>17, <1>18, <1>19, <1>20, <1>21,
     <1>22, <1>23, <1>24, <1>25, <1>26, <1>27, <1>28, <1>29, <1>30, <1>31,
     <1>32, <1>33, <1>34
  DEF Next, Coroutine, RunLoop, Execute, Review, Merge, Raise, Agents, Ended
-----------------------------------------------------------------------------
(* Attempts, agents and dependencies *)

\* Each step that spawns uses up an attempt, each that retries grants one more.
LEMMA AttemptStep == IInv /\ [Next]_vars => AttemptInv'
<1> SUFFICES ASSUME IInv, [Next]_vars PROVE AttemptInv'
  OBVIOUS
<1>0. TypeOK /\ TurnInv /\ AttemptInv
  BY DEF IInv
<1> USE <1>0, EngineAssumption DEF TypeOK, TurnInv, AttemptInv, In
<1>1. CASE UNCHANGED <<st, agent, spawns, retry, deps>>
  BY <1>1
<1>2. CASE Plan
  BY <1>2 DEF Plan, taskVars
<1>3. ASSUME NEW s \in Subtask, DispatchOk(s) PROVE AttemptInv'
  BY <1>3 DEF DispatchOk, DispatchTurn, Dispatchable
<1>4. ASSUME NEW s \in Subtask, DispatchFails(s) PROVE AttemptInv'
  BY <1>4 DEF DispatchFails, DispatchTurn, Dispatchable
<1>5. ASSUME NEW s \in Subtask, PollDead(s) PROVE AttemptInv'
  BY <1>5 DEF PollDead, PollTurn, Settle, Collected, First
<1>6. ASSUME NEW s \in Subtask, PollDone(s) PROVE AttemptInv'
  BY <1>6 DEF PollDone, PollTurn, Settle, First
<1>7. ASSUME NEW s \in Subtask, StallRetry(s) PROVE AttemptInv'
  BY <1>7 DEF StallRetry, StallTurn, First
<1>8. ASSUME NEW s \in Subtask, StallExhausted(s) PROVE AttemptInv'
  BY <1>8 DEF StallExhausted, StallTurn, First
<1>9. ASSUME NEW s \in Subtask, GateRetry(s) PROVE AttemptInv'
  BY <1>9 DEF GateRetry, ReviewTurn, First
<1>10. ASSUME NEW s \in Subtask, GateReject(s) PROVE AttemptInv'
  BY <1>10 DEF GateReject, ReviewTurn, First
<1>11. ASSUME NEW s \in Subtask, MergeFails(s) PROVE AttemptInv'
  BY <1>11 DEF MergeFails, MergeTurn, Return, First
<1> QED
  BY SubtaskStep, <1>1, <1>2, <1>3, <1>4, <1>5, <1>6, <1>7, <1>8, <1>9,
     <1>10, <1>11

\* Spawning, retrying and re-entering _execute keep the agent of a subtask current.
LEMMA AgentStep == IInv /\ [Next]_vars => CurrentAgent'
<1> SUFFICES ASSUME IInv, [Next]_vars PROVE CurrentAgent'
  OBVIOUS
<1>0. TypeOK /\ TurnInv /\ CurrentAgent
  BY DEF IInv
<1> USE <1>0 DEF TypeOK, TurnInv, CurrentAgent, In, PollLoop, setup, loopVars, taskVars, execVars
<1>1. CASE EnterPlan
  BY <1>1 DEF EnterPlan, Enter
<1>2. CASE EnterExecute
  BY <1>2 DEF EnterExecute, Enter
<1>3. CASE EnterReview
  BY <1>3 DEF EnterReview, Enter
<1>4. CASE EnterMerge
  BY <1>4 DEF EnterMerge, Enter
<1>5. CASE Finish
  BY <1>5 DEF Finish, Enter
<1>6. CASE Scout
  BY <1>6 DEF Scout, Return
<1>7. CASE Plan
  BY <1>7 DEF Plan, Return
<1>8. CASE EndDispatch
  BY <1>8 DEF EndDispatch, LeaveExecute, Return
<1>9. CASE Wake
  BY <1>9 DEF Wake
<1>10. CASE EndPoll
  BY <1>10 DEF EndPoll
<1>11. CASE EndStalls
  BY <1>11 DEF EndStalls
<1>12. CASE EndReview
  BY <1>12 DEF EndReview, Return
<1>13. CASE EndMerge
  BY <1>13 DEF EndMerge, Return
<1>14. CASE PollAborts
  BY <1>14 DEF PollAborts, Stop
<1>15. CASE QueueRaises
  BY <1>15 DEF QueueRaises, Stop
<1>16. CASE Cancel
  BY <1>16 DEF Cancel, Stop
<1>17. CASE ForeignCleanup
  BY <1>17 DEF ForeignCleanup
<1>18. ASSUME NEW s \in Subtask, DispatchOk(s) PROVE CurrentAgent'
  BY <1>18 DEF DispatchOk, DispatchTurn, Dispatchable
<1>19. ASSUME NEW s \in Subtask, DispatchFails(s) PROVE CurrentAgent'
  BY <1>19 DEF DispatchFails, DispatchTurn, Dispatchable
<1>20. ASSUME NEW s \in Subtask, PollDead(s) PROVE CurrentAgent'
  BY <1>20 DEF PollDead, PollTurn, Settle, Collected, First
<1>21. ASSUME NEW s \in Subtask, PollDone(s) PROVE CurrentAgent'
  BY <1>21 DEF PollDone, PollTurn, Settle, First
<1>22. ASSUME NEW s \in Subtask, PollBusy(s) PROVE CurrentAgent'
  BY <1>22 DEF PollBusy, PollTurn, Heartbeat
<1>23. ASSUME NEW s \in Subtask, StallRetry(s) PROVE CurrentAgent'
  BY <1>23 DEF StallRetry, StallTurn, First
<1>24. ASSUME NEW s \in Subtask, StallExhausted(s) PROVE CurrentAgent'
  BY <1>24 DEF StallExhausted, StallTurn, First
<1>25. ASSUME NEW s \in Subtask, GatesPass(s) PROVE CurrentAgent'
  BY <1>25 DEF GatesPass, ReviewTurn
<1>26. ASSUME NEW s \in Subtask, GateRetry(s) PROVE CurrentAgent'
  BY <1>26 DEF GateRetry, ReviewTurn, First
<1>27. ASSUME NEW s \in Subtask, GateReject(s) PROVE CurrentAgent'
  BY <1>27 DEF GateReject, ReviewTurn, First
<1>28. ASSUME NEW s \in Subtask, MergeOk(s) PROVE CurrentAgent'
  BY <1>28 DEF MergeOk, MergeTurn
<1>29. ASSUME NEW s \in Subtask, MergeFails(s) PROVE CurrentAgent'
  BY <1>29 DEF MergeFails, MergeTurn, Return, First
<1>30. ASSUME NEW s \in Subtask, QueueConflict(s) PROVE CurrentAgent'
  BY <1>30 DEF QueueConflict, MergeTurn
<1>31. ASSUME NEW s \in Subtask, Edit(s) PROVE CurrentAgent'
  BY <1>31 DEF Edit
<1>32. ASSUME NEW s \in Subtask, Commit(s) PROVE CurrentAgent'
  BY <1>32 DEF Commit
<1>33. ASSUME NEW s \in Subtask, Exit(s) PROVE CurrentAgent'
  BY <1>33 DEF Exit
<1>34. CASE UNCHANGED vars
  BY <1>34 DEF vars
<1> QED
  BY <1>1, <1>2, <1>3, <1>4, <1>5, <1>6, <1>7, <1>8, <1>9, <1>10, <1>11,
     <1>12, <1>13, <1>14, <1>15, <1>16, <1>17, <1>18, <1>19, <1>20, <1>21,
     <1>22, <1>23, <1>24, <1>25, <1>26, <1>27, <1>28, <1>29, <1>30, <1>31,
     <1>32, <1>33, <1>34
  DEF Next, Coroutine, RunLoop, Execute, Review, Merge, Raise, Agents, Ended

\* A subtask is dispatched only once its dependencies are done, hence started.
LEMMA DepsStep == IInv /\ [Next]_vars => DepsStartFirst'
<1> SUFFICES ASSUME IInv, [Next]_vars PROVE DepsStartFirst'
  OBVIOUS
<1>0. TypeOK /\ PhaseInv /\ TurnInv /\ CurrentAgent /\ DepsStartFirst
  BY DEF IInv
<1> USE <1>0 DEF TypeOK, DepsStartFirst
<1>1. CASE UNCHANGED <<st, agent, spawns, retry, deps>>
  BY <1>1
<1>2. CASE Plan
  BY <1>2 DEF Plan, PhaseInv, taskVars
<1>3. ASSUME NEW s \in Subtask, DispatchOk(s) PROVE DepsStartFirst'
  BY <1>3 DEF DispatchOk, DispatchTurn, Dispatchable, DepsMet, In, CurrentAgent, setup
<1>4. ASSUME NEW s \in Subtask, DispatchFails(s) PROVE DepsStartFirst'
  BY <1>4 DEF DispatchFails, DispatchTurn, Dispatchable, DepsMet, In, CurrentAgent, setup
<1>5. ASSUME NEW s \in Subtask, PollDead(s) PROVE DepsStartFirst'
  BY <1>5 DEF PollDead, PollTurn, Settle, Collected, setup
<1>6. ASSUME NEW s \in Subtask, PollDone(s) PROVE DepsStartFirst'
  BY <1>6 DEF PollDone, PollTurn, Settle, setup
<1>7. ASSUME NEW s \in Subtask, StallRetry(s) PROVE DepsStartFirst'
  BY <1>7 DEF StallRetry, StallTurn, setup
<1>8. ASSUME NEW s \in Subtask, StallExhausted(s) PROVE DepsStartFirst'
  BY <1>8 DEF StallExhausted, StallTurn, setup
<1>9. ASSUME NEW s \in Subtask, GateRetry(s) PROVE DepsStartFirst'
  BY <1>9 DEF GateRetry, ReviewTurn, setup
<1>10. ASSUME NEW s \in Subtask, GateReject(s) PROVE DepsStartFirst'
  BY <1>10 DEF GateReject, ReviewTurn, setup
<1>11. ASSUME NEW s \in Subtask, MergeFails(s) PROVE DepsStartFirst'
  BY <1>11 DEF MergeFails, MergeTurn, Return, setup
<1> QED
  BY SubtaskStep, <1>1, <1>2, <1>3, <1>4, <1>5, <1>6, <1>7, <1>8, <1>9,
     <1>10, <1>11
-----------------------------------------------------------------------------
(* The running counter *)

Running(f) == {t \in Subtask : f[t] = "running"}

\* Steps outside the loop of _execute end outside it, or enter it afresh.
LEMMA CountStep == IInv /\ [Next]_vars => ActiveCountExact'
<1> SUFFICES ASSUME IInv, [Next]_vars PROVE ActiveCountExact'
  OBVIOUS
<1>0. TypeOK /\ TurnInv /\ CurrentAgent /\ ActiveCountExact
  BY DEF IInv
<1>t. /\ st \in [Subtask -> SubtaskState] /\ active \in Nat /\ stalled \in Nat
      /\ Cardinality(Running(st)) \in Nat
  BY <1>0, StateFinite DEF TypeOK, Running
<1>a. ActiveCountExact <=> (pc \in PollLoop => active = Cardinality(Running(st)) + stalled)
  BY DEF ActiveCountExact, In, Running
<1>b. ActiveCountExact' <=> (pc' \in PollLoop => active' = Cardinality(Running(st')) + stalled')
  BY DEF ActiveCountExact, In, Running
<1> USE <1>0, <1>t, <1>a, <1>b
<1>1. CASE EnterExecute
  <2>1. {s \in In("running") : agent[s] # 0} = Running(st)
    BY DEF CurrentAgent, In, Running
  <2> QED
    BY <1>1, <2>1 DEF EnterExecute, Enter, taskVars
<1>2. CASE \/ EnterPlan \/ EnterReview \/ EnterMerge \/ Finish \/ Scout \/ Plan
           \/ EndReview \/ EndMerge \/ PollAborts \/ QueueRaises \/ Cancel
  <2>1. pc' \notin PollLoop
    BY <1>2 DEF EnterPlan, EnterReview, EnterMerge, Finish, Enter, Scout, Plan, EndReview,
                EndMerge, Return, PollAborts, QueueRaises, Cancel, Stop, PollLoop
  <2> QED
    BY <2>1
<1>3. CASE \E s \in Subtask : \/ GatesPass(s) \/ GateRetry(s) \/ GateReject(s)
                              \/ MergeOk(s) \/ MergeFails(s) \/ QueueConflict(s)
  <2>1. pc' \notin PollLoop
    BY <1>3 DEF GatesPass, GateRetry, GateReject, ReviewTurn, MergeOk, MergeFails,
                QueueConflict, MergeTurn, Return, PollLoop
  <2> QED
    BY <2>1
<1>4. ASSUME NEW s \in Subtask, DispatchOk(s) PROVE ActiveCountExact'
  <2>1. st[s] # "running" /\ st' = [st EXCEPT ![s] = "running"] /\ pc \in PollLoop
        /\ active' = active + 1 /\ stalled' = stalled
    BY <1>4 DEF DispatchOk, DispatchTurn, Dispatchable, PollLoop
  <2>2. Cardinality(Running(st')) = Cardinality(Running(st)) + 1
    BY <2>1, CountUp DEF Running
  <2> QED
    BY <2>1, <2>2
<1>5. ASSUME NEW s \in Subtask, DispatchFails(s) PROVE ActiveCountExact'
  <2>1. st[s] # "running" /\ st' = [st EXCEPT ![s] = "failed"] /\ pc \in PollLoop
        /\ active' = active /\ stalled' = stalled
    BY <1>5 DEF DispatchFails, DispatchTurn, Dispatchable, PollLoop
  <2>2. Running(st') = Running(st)
    BY <2>1 DEF Running
  <2> QED
    BY <2>1, <2>2
<1>6. ASSUME NEW s \in Subtask, PollDead(s) \/ PollDone(s) PROVE ActiveCountExact'
  <2>1. PICK v : v # "running" /\ st' = [st EXCEPT ![s] = v]
    BY <1>6 DEF PollDead, PollDone, Settle, Collected
  <2>2. st[s] = "running" /\ pc \in PollLoop /\ active' = active - 1 /\ stalled' = stalled
    BY <1>6 DEF PollDead, PollDone, Settle, Collected, PollTurn, First, TurnInv, In, PollLoop
  <2>3. /\ Cardinality(Running(st)) = Cardinality(Running(st')) + 1
        /\ Cardinality(Running(st')) \in Nat
    BY <2>1, <2>2, CountDown DEF Running
  <2> QED
    BY <2>2, <2>3
<1>7. ASSUME NEW s \in Subtask, StallRetry(s) \/ StallExhausted(s) PROVE ActiveCountExact'
  <2>1. PICK v : v # "running" /\ st' = [st EXCEPT ![s] = v]
    BY <1>7 DEF StallRetry, StallExhausted
  <2>2. st[s] = "running" /\ pc \in PollLoop /\ active' = active /\ stalled' = stalled + 1
    BY <1>7 DEF StallRetry, StallExhausted, StallTurn, First, TurnInv, In, PollLoop
  <2>3. /\ Cardinality(Running(st)) = Cardinality(Running(st')) + 1
        /\ Cardinality(Running(st')) \in Nat
    BY <2>1, <2>2, CountDown DEF Running
  <2> QED
    BY <2>2, <2>3
<1>8. CASE EndStalls
  <2>1. st' = st /\ pc \in PollLoop /\ active' = active - stalled /\ stalled' = 0
    BY <1>8 DEF EndStalls, PollLoop, taskVars
  <2> QED
    BY <2>1
<1>9. CASE EndDispatch
  <2>1. CASE pc' = "return"
    BY <2>1 DEF PollLoop
  <2>2. CASE pc' # "return"
    BY <1>9, <2>2 DEF EndDispatch, LeaveExecute, Return, PollLoop, taskVars, execVars
  <2> QED
    BY <2>1, <2>2
<1>10. CASE Wake \/ EndPoll \/ ForeignCleanup \/ UNCHANGED vars
  BY <1>10 DEF Wake, EndPoll, ForeignCleanup, vars, taskVars, execVars, loopVars, PollLoop
<1>11. ASSUME NEW s \in Subtask, PollBusy(s) \/ Edit(s) \/ Commit(s) \/ Exit(s)
       PROVE  ActiveCountExact'
  BY <1>11 DEF PollBusy, PollTurn, Heartbeat, Edit, Commit, Exit, taskVars, execVars, loopVars
<1> QED
  BY <1>1, <1>2, <1>3, <1>4, <1>5, <1>6, <1>7, <1>8, <1>9, <1>10, <1>11
  DEF Next, Coroutine, RunLoop, Execute, Review, Merge, Raise, Agents, Ended

-----------------------------------------------------------------------------
(* The theorems *)

\* Every step keeps the inductive invariant.
LEMMA InvStep == IInv /\ [Next]_vars => IInv'
BY TypeStep, PhaseStep, TurnStep, AttemptStep, AgentStep, DepsStep, CountStep DEF IInv

\* IInv holds throughout every run.
THEOREM Invariance == Spec => []IInv
BY InitInv, InvStep, PTL DEF Spec

\* Every variable of a run keeps its type; in particular the running counter of
\* _execute, a plain subtraction in the code, never becomes negative.
THEOREM TypeCorrect == Spec => []TypeOK
<1>1. IInv => TypeOK
  BY DEF IInv
<1> QED
  BY Invariance, <1>1, PTL

\* The counter that limits dispatching is exact in every state of the poll loop,
\* for any number of subtasks, retries and gate retries.
THEOREM CounterExact == Spec => []ActiveCountExact
<1>1. IInv => ActiveCountExact
  BY DEF IInv
<1> QED
  BY Invariance, <1>1, PTL

\* The agent polled, stalled out and reviewed for a subtask is the last one
\* spawned for it.
THEOREM AgentsCurrent == Spec => []CurrentAgent
<1>1. IInv => CurrentAgent
  BY DEF IInv
<1> QED
  BY Invariance, <1>1, PTL

\* Subtasks start in dependency order, whatever the plan looks like.
THEOREM DepsFirst == Spec => []DepsStartFirst
<1>1. IInv => DepsStartFirst
  BY DEF IInv
<1> QED
  BY Invariance, <1>1, PTL

\* No subtask is given more than max_retries + 1 agents.
THEOREM SpawnsBounded == Spec => []SpawnBudget
<1>1. IInv => SpawnBudget
  <2> SUFFICES ASSUME IInv, NEW s \in Subtask PROVE spawns[s] <= MaxRetries + 1
    BY DEF SpawnBudget
  <2>1. retry[s] \in 0 .. MaxRetries /\ spawns[s] \in Nat /\ spawns[s] <= retry[s] + 1
    BY DEF IInv, TypeOK, AttemptInv
  <2> QED
    BY <2>1, EngineAssumption
<1> QED
  BY Invariance, <1>1, PTL

\* A dispatch never raises the number of running subtasks above max_agents.
THEOREM DispatchLimited == Spec => DispatchWithinLimit
<1> DEFINE Limited == \A s \in Subtask :
             st[s] = "pending" /\ st'[s] = "running" => Cardinality(In("running")') <= mode.limit
<1>1. IInv /\ IInv' /\ [Next]_vars => [Limited]_vars
  <2> SUFFICES ASSUME IInv, IInv', [Next]_vars, NEW s \in Subtask,
                      st[s] = "pending", st'[s] = "running"
               PROVE  Cardinality(In("running")') <= mode.limit
    OBVIOUS
  <2>1. TypeOK /\ TurnInv /\ ActiveCountExact'
    BY DEF IInv
  <2>2. PICK t \in Subtask : DispatchOk(t)
    <3>1. ASSUME NEW t \in Subtask,
                 \/ DispatchFails(t) \/ PollDead(t) \/ PollDone(t) \/ StallRetry(t)
                 \/ StallExhausted(t) \/ GateReject(t) \/ MergeFails(t)
          PROVE  FALSE
      BY <2>1, <3>1 DEF TypeOK, DispatchFails, PollDead, PollDone, Settle, Collected, StallRetry,
                        StallExhausted, GateReject, MergeFails
    <3>2. ASSUME NEW t \in Subtask, GateRetry(t) PROVE FALSE
      BY <2>1, <3>2 DEF TypeOK, GateRetry, ReviewTurn, First, TurnInv, In
    <3>3. ~Plan
      BY DEF Plan, taskVars
    <3> QED
      BY SubtaskStep, <3>1, <3>2, <3>3
  <2>3. /\ active' = active + 1 /\ active < mode.limit /\ pc' \in PollLoop
        /\ active \in Nat /\ stalled' \in Nat
    BY <2>1, <2>2 DEF DispatchOk, DispatchTurn, Dispatchable, PollLoop, TypeOK
  <2>4. active' = Cardinality(In("running")') + stalled'
    BY <2>1, <2>3 DEF ActiveCountExact
  <2>5. Cardinality(In("running")') \in Nat
    <3>1. st' \in [Subtask -> SubtaskState]
      BY DEF IInv, TypeOK
    <3> QED
      BY <3>1, StateFinite DEF In
  <2>6. mode.limit \in Nat \ {0}
    BY <2>1, EngineAssumption DEF TypeOK
  <2> QED
    BY <2>3, <2>4, <2>5, <2>6
<1> QED
  BY Invariance, <1>1, PTL DEF Spec, DispatchWithinLimit

-----------------------------------------------------------------------------
(* The refinement: what one step does to verdicts and to main *)

\* A step of _execute stays in the loop and touches neither verdict nor main, or
\* it is the one that returns.
LEMMA LoopStep ==
  ASSUME IInv, Execute
  PROVE  \/ /\ UNCHANGED <<mode, deps, runState, gated, landed>>
            /\ runState = "executing" /\ pc \in PollLoop /\ pc' \in PollLoop
         \/ EndDispatch /\ pc' = "return"
<1>0. pc \in PollLoop => runState = "executing"
  BY DEF IInv, PhaseInv
<1> USE <1>0 DEF PollLoop, setup, loopVars, historyVars
<1>1. ASSUME NEW s \in Subtask, DispatchOk(s) \/ DispatchFails(s)
      PROVE  /\ UNCHANGED <<mode, deps, runState, gated, landed>>
             /\ pc \in PollLoop /\ pc' \in PollLoop
  BY <1>1 DEF DispatchOk, DispatchFails, DispatchTurn
<1>2. ASSUME NEW s \in Subtask, PollDead(s) \/ PollDone(s) \/ PollBusy(s)
      PROVE  /\ UNCHANGED <<mode, deps, runState, gated, landed>>
             /\ pc \in PollLoop /\ pc' \in PollLoop
  BY <1>2 DEF PollDead, PollDone, PollBusy, PollTurn
<1>3. ASSUME NEW s \in Subtask, StallRetry(s) \/ StallExhausted(s)
      PROVE  /\ UNCHANGED <<mode, deps, runState, gated, landed>>
             /\ pc \in PollLoop /\ pc' \in PollLoop
  BY <1>3 DEF StallRetry, StallExhausted, StallTurn
<1>4. CASE Wake \/ EndPoll \/ EndStalls
  BY <1>4 DEF Wake, EndPoll, EndStalls
<1>5. CASE EndDispatch
  BY <1>5 DEF EndDispatch, LeaveExecute, Return
<1> QED
  BY <1>1, <1>2, <1>3, <1>4, <1>5 DEF Execute

\* What the three steps of a review that settle a subtask have in common.
LEMMA ReviewShape ==
  ASSUME IInv, LifeInv, NEW s \in Subtask, GatesPass(s) \/ GateRetry(s) \/ GateReject(s)
  PROVE  /\ pc = "review" /\ pc' = "review" /\ runState = "reviewing" /\ runState' = "reviewing"
         /\ s \in todo /\ todo' = todo \ {s} /\ st[s] = "done" /\ s \notin Approved
         /\ UNCHANGED <<mode, deps, landed, mergeFailed>>
<1>1. /\ pc = "review" /\ s \in todo /\ todo' = todo \ {s}
      /\ UNCHANGED <<runState, pc, mode, deps, landed, mergeFailed>>
  BY DEF GatesPass, GateRetry, GateReject, ReviewTurn, First, setup
<1>2. st[s] = "done" /\ runState = "reviewing"
  BY <1>1 DEF IInv, TurnInv, LifeInv, PlaceInv, In
<1>3. s \notin Approved
  BY <1>1, <1>2 DEF LifeInv, ReviewInv
<1> QED
  BY <1>1, <1>2, <1>3

\* The gates pass only where there is a worktree, hence work.
LEMMA PassShape ==
  ASSUME IInv, LifeInv, NEW s \in Subtask, GatesPass(s)
  PROVE  /\ UNCHANGED <<st, reexec, allPassed>>
         /\ Approved' = Approved \cup {s}
<1>1. st[s] = "done"
  BY ReviewShape
<1>2. wt[s]
  <2>1. PICK passed \in GateResults(s) : \A g \in Gate : passed[g]
    BY DEF GatesPass, GatesMayPass
  <2>2. ASSUME ~wt[s] PROVE FALSE
    <3>1. passed = [g \in Gate |-> g = "compile"]
      BY <2>1, <2>2 DEF GateResults
    <3>2. "ruff-check" \in Gate
      BY DEF Gate
    <3>3. passed["ruff-check"] = ("ruff-check" = "compile")
      BY <3>1, <3>2
    <3> QED
      BY <2>1, <3>2, <3>3
  <2> QED
    BY <2>2
<1>3. ver[s] > 0
  BY <1>1, <1>2 DEF LifeInv, WorkInv
<1>4. gated' = [gated EXCEPT ![s] = ver[s]] /\ gated \in [Subtask -> 0 .. MaxEdits]
  BY DEF GatesPass, IInv, TypeOK
<1>5. Approved' = Approved \cup {s}
  BY <1>3, <1>4 DEF Approved
<1> QED
  BY <1>5 DEF GatesPass

\* A subtask that fails its gates is sent back; nobody's approval changes.
LEMMA SendBackShape ==
  ASSUME IInv, NEW s \in Subtask, GateRetry(s)
  PROVE  st' = [st EXCEPT ![s] = "running"] /\ reexec' = TRUE /\ UNCHANGED <<gated, allPassed>>
BY DEF GateRetry, ReviewTurn

\* Or it fails, which spoils the verdict on the whole run.
LEMMA RejectShape ==
  ASSUME IInv, NEW s \in Subtask, GateReject(s)
  PROVE  st' = [st EXCEPT ![s] = "failed"] /\ allPassed' = FALSE /\ UNCHANGED <<gated, reexec>>
BY DEF GateReject, ReviewTurn

\* What the steps of a merge have in common.
LEMMA MergeShape ==
  ASSUME IInv, LifeInv, NEW s \in Subtask, MergeOk(s) \/ MergeFails(s) \/ QueueConflict(s)
  PROVE  /\ pc = "merge" /\ runState = "merging" /\ s \in todo /\ s \in In("done")
         /\ s \in Approved /\ s \notin OnMain
         /\ UNCHANGED <<mode, deps, gated>>
<1>1. pc = "merge" /\ s \in todo /\ UNCHANGED <<mode, deps, gated>>
  BY DEF MergeOk, MergeFails, QueueConflict, MergeTurn, First, setup
<1>2. s \in In("done") /\ runState = "merging"
  BY <1>1 DEF IInv, TurnInv, LifeInv, PlaceInv
<1>3. s \in Approved /\ s \notin OnMain
  BY <1>1, <1>2 DEF LifeInv, ReviewInv, MergeInv
<1> QED
  BY <1>1, <1>2, <1>3

\* A merge brings the edits of a subtask to main, unless git refuses to commit them.
LEMMA LandShape ==
  ASSUME IInv, LifeInv, NEW s \in Subtask, MergeOk(s)
  PROVE  /\ UNCHANGED <<runState, pc, st, mergeFailed>> /\ todo' = todo \ {s}
         /\ OnMain' \in {OnMain, OnMain \cup {s}}
         /\ ~CommitCanFail => OnMain' = OnMain \cup {s}
<1>1. st[s] = "done" /\ s \notin OnMain
  BY MergeShape DEF In
<1>2. ver[s] > 0
  BY <1>1 DEF LifeInv, WorkInv, MergeOk
<1>3. /\ landed \in [Subtask -> 0 .. MaxEdits] /\ head \in [Subtask -> 0 .. MaxEdits]
      /\ landed' = [landed EXCEPT ![s] = head'[s]]
  BY DEF MergeOk, IInv, TypeOK
<1>4. OnMain' \in {OnMain, OnMain \cup {s}}
  BY <1>1, <1>3 DEF OnMain
<1>5. ASSUME ~CommitCanFail PROVE OnMain' = OnMain \cup {s}
  <2>1. head'[s] = ver[s]
    BY <1>3, <1>5 DEF MergeOk
  <2> QED
    BY <1>2, <1>3, <2>1 DEF OnMain
<1> QED
  BY <1>4, <1>5 DEF MergeOk

-----------------------------------------------------------------------------
(* LifeInv is inductive *)

\* Nothing is approved, finished or on main in the beginning.
LEMMA LifeInit == Init => LifeInv /\ OnlyApprovedLand /\ CompletedIsLanded
BY DEF Init, None, LifeInv, PlaceInv, WorkInv, ReviewInv, MergeInv, OnlyApprovedLand,
       CompletedIsLanded, Approved, OnMain, In

\* A subtask becomes done by a diff in its worktree, and the worktree of finished
\* work is never emptied, only removed.
LEMMA WorkStep == IInv /\ LifeInv /\ [Next]_vars => WorkInv'
<1> SUFFICES ASSUME IInv, LifeInv, [Next]_vars, NEW s \in Subtask, st'[s] = "done", wt'[s]
             PROVE  ver'[s] > 0
  BY DEF WorkInv
<1>0. TypeOK /\ TurnInv /\ WorkInv
  BY DEF IInv, LifeInv
<1> USE <1>0 DEF TypeOK, WorkInv, setup, loopVars, taskVars, execVars, verdictVars, envVars,
        historyVars
<1>1. CASE UNCHANGED <<st, wt, ver>>
  BY <1>1
<1>2. CASE RunLoop \/ Scout \/ Plan
  BY <1>1, <1>2 DEF RunLoop, EnterPlan, EnterExecute, EnterReview, EnterMerge, Finish, Enter,
                    Scout, Plan
<1>3. CASE EndDispatch \/ Wake \/ EndPoll \/ EndStalls \/ EndReview \/ EndMerge
  BY <1>1, <1>3 DEF EndDispatch, Wake, EndPoll, EndStalls, EndReview, EndMerge
<1>4. ASSUME NEW t \in Subtask, DispatchOk(t) \/ DispatchFails(t) PROVE ver'[s] > 0
  <2>1. s # t
    BY <1>4 DEF DispatchOk, DispatchFails
  <2> QED
    BY <1>4, <2>1 DEF DispatchOk, DispatchFails, DispatchTurn
<1>5. ASSUME NEW t \in Subtask, PollDead(t) \/ PollDone(t) \/ PollBusy(t) PROVE ver'[s] > 0
  <2>1. UNCHANGED <<wt, ver>>
    BY <1>5 DEF PollDead, PollDone, PollBusy, PollTurn
  <2>2. CASE s = t /\ PollDone(t)
    BY <2>1, <2>2 DEF PollDone, Collected, HasDiff
  <2>3. CASE s = t /\ PollDead(t)
    BY <2>3 DEF PollDead, Settle, Collected, HasPane
  <2>4. CASE s # t \/ PollBusy(t)
    <3>1. st'[s] = st[s]
      BY <1>5, <2>4 DEF PollDead, PollDone, PollBusy, Settle
    <3> QED
      BY <2>1, <3>1
  <2> QED
    BY <1>5, <2>2, <2>3, <2>4
<1>6. ASSUME NEW t \in Subtask, StallRetry(t) \/ StallExhausted(t) PROVE ver'[s] > 0
  <2>1. s # t /\ st'[s] = st[s] /\ Release(t)
    BY <1>6 DEF StallRetry, StallExhausted, StallTurn
  <2>2. wt'[s] = wt[s] /\ ver'[s] = ver[s]
    BY <2>1 DEF Release
  <2> QED
    BY <2>1, <2>2
<1>7. ASSUME NEW t \in Subtask, GatesPass(t) \/ GateRetry(t) PROVE ver'[s] > 0
  BY <1>7 DEF GatesPass, GateRetry
<1>8. ASSUME NEW t \in Subtask, GateReject(t) PROVE ver'[s] > 0
  <2>1. s # t
    BY <1>8 DEF GateReject
  <2>2. wt'[s] = wt[s] /\ ver'[s] = ver[s] /\ st'[s] = st[s]
    BY <1>8, <2>1 DEF GateReject
  <2> QED
    BY <2>2
<1>9. ASSUME NEW t \in Subtask, MergeOk(t) \/ MergeFails(t) \/ QueueConflict(t)
      PROVE  ver'[s] > 0
  BY <1>9 DEF MergeOk, MergeFails, QueueConflict, MergeTurn
<1>10. CASE Raise
  BY <1>1, <1>10 DEF Raise, PollAborts, QueueRaises, Cancel, Stop
<1>11. CASE ForeignCleanup
  BY <1>11 DEF ForeignCleanup
<1>12. ASSUME NEW t \in Subtask, Edit(t) \/ Commit(t) \/ Exit(t) PROVE ver'[s] > 0
  BY <1>12 DEF Edit, Commit, Exit
<1>13. CASE UNCHANGED vars
  BY <1>1, <1>13 DEF vars
<1> QED
  BY <1>2, <1>3, <1>4, <1>5, <1>6, <1>7, <1>8, <1>9, <1>10, <1>11, <1>12, <1>13
  DEF Next, Coroutine, Execute, Review, Merge, Agents, Ended

\* The loop of run() enters the handler of the state the run is in.
LEMMA PlaceStep == IInv /\ LifeInv /\ [Next]_vars => PlaceInv'
<1> SUFFICES ASSUME IInv, LifeInv, [Next]_vars PROVE PlaceInv'
  OBVIOUS
<1>0. PlaceInv
  BY DEF LifeInv
<1> USE <1>0 DEF PlaceInv, setup, loopVars
<1>1. CASE RunLoop
  BY <1>1 DEF RunLoop, EnterPlan, EnterExecute, EnterReview, EnterMerge, Finish, Enter, TerminalRun
<1>2. CASE Scout \/ Plan \/ EndReview \/ EndMerge
  BY <1>2 DEF Scout, Plan, EndReview, EndMerge, Return
<1>3. CASE Execute
  <2>1. CASE runState' = "executing" /\ pc' \in PollLoop
    BY <2>1 DEF PollLoop
  <2>2. CASE EndDispatch /\ pc' = "return"
    BY <2>2
  <2> QED
    BY <1>3, <2>1, <2>2, LoopStep
<1>4. ASSUME NEW s \in Subtask, GatesPass(s) \/ GateRetry(s) \/ GateReject(s) PROVE PlaceInv'
  BY <1>4, ReviewShape
<1>5. ASSUME NEW s \in Subtask, MergeOk(s) \/ MergeFails(s) \/ QueueConflict(s) PROVE PlaceInv'
  BY <1>5 DEF MergeOk, MergeFails, QueueConflict, MergeTurn, Return
<1>6. CASE Raise
  BY <1>6 DEF Raise, PollAborts, QueueRaises, Cancel, Stop
<1>7. CASE Agents
  BY <1>7 DEF Agents, ForeignCleanup, Edit, Commit, Exit
<1>8. CASE UNCHANGED vars
  BY <1>8 DEF vars
<1> QED
  BY <1>1, <1>2, <1>3, <1>4, <1>5, <1>6, <1>7, <1>8
  DEF Next, Coroutine, Review, Merge, Ended

\* What the agents do, and other runs, is no verdict.
LEMMA AgentsShape ==
  ASSUME Agents \/ UNCHANGED vars
  PROVE  UNCHANGED <<mode, deps, runState, pc, todo, st, reexec, allPassed, mergeFailed, gated, landed>>
BY DEF Agents, ForeignCleanup, Edit, Commit, Exit, vars, setup, loopVars, taskVars, verdictVars,
       historyVars

\* A run is only taken out of its loop by Finish, or by an exception.
LEMMA RaiseShape ==
  ASSUME Raise
  PROVE  pc # "ended" /\ pc' = "ended" /\ UNCHANGED <<mode, deps, runState, st, gated, landed>>
BY DEF Raise, PollAborts, QueueRaises, Cancel, Stop, setup, taskVars, historyVars

\* ReviewInv is kept.
LEMMA ReviewStep == IInv /\ LifeInv /\ [Next]_vars => ReviewInv'
<1> SUFFICES ASSUME IInv, LifeInv, [Next]_vars, pc' # "ended" PROVE ReviewInv'
  BY DEF ReviewInv
<1>0. ReviewInv /\ PlaceInv /\ CurrentAgent /\ TypeOK
  BY DEF IInv, LifeInv
<1>1. CASE RunLoop
  <2>1. UNCHANGED <<mode, runState, st, gated>> /\ pc = "return"
    BY <1>1 DEF RunLoop, EnterPlan, EnterExecute, EnterReview, EnterMerge, Finish, Enter,
                setup, taskVars, historyVars
  <2>2. In("done")' = In("done") /\ In("failed")' = In("failed") /\ In("running")' = In("running")
        /\ In("pending")' = In("pending") /\ Approved' = Approved
    BY <2>1 DEF In, Approved
  <2>3. CASE EnterReview
    <3>1. runState = "reviewing" /\ reexec' = FALSE /\ todo' = In("done") /\ pc' = "review"
      BY <1>0, <2>3 DEF EnterReview, Enter, CurrentAgent, In
    <3> QED
      BY <1>0, <2>1, <2>2, <3>1 DEF ReviewInv
  <2>4. CASE ~EnterReview
    <3>1. pc' \notin {"return", "review"} /\ runState' # "reviewing"
      BY <1>1, <2>4 DEF RunLoop, EnterPlan, EnterExecute, EnterReview, EnterMerge, Finish, Enter,
                        TerminalRun
    <3> QED
      BY <1>0, <2>1, <2>2, <3>1 DEF ReviewInv
  <2> QED
    BY <2>3, <2>4
<1>2. CASE Scout \/ Plan
  <2>1. pc \in {"scout", "plan"} /\ runState' \in {"planning", "executing", "failed"}
        /\ UNCHANGED gated
    BY <1>2 DEF Scout, Plan, Return, historyVars
  <2>2. Approved = {}
    BY <1>0, <2>1 DEF IInv, PhaseInv, ReviewInv
  <2> QED
    BY <2>1, <2>2 DEF ReviewInv, Approved
<1>3. CASE Execute
  <2>1. CASE /\ UNCHANGED <<mode, deps, runState, gated, landed>>
             /\ runState = "executing" /\ pc \in PollLoop /\ pc' \in PollLoop
    BY <1>0, <2>1 DEF ReviewInv, Approved, PollLoop
  <2>2. CASE EndDispatch /\ pc' = "return"
    <3>1. /\ UNCHANGED <<mode, st, gated>> /\ pc = "dispatch" /\ runState = "executing"
          /\ runState' \in {"reviewing", "failed"}
          /\ runState' = "reviewing" =>
               /\ In("done") \cup In("failed") = Subtask
               /\ In("failed") = {} \/ mode.partial
      BY <2>2 DEF EndDispatch, LeaveExecute, Return, setup, taskVars, historyVars, IInv, PhaseInv,
                  PollLoop
    <3>2. Approved' = {}
      BY <1>0, <3>1 DEF ReviewInv, Approved
    <3>3. runState' = "reviewing" => In("pending") = {} /\ In("running") = {}
      BY <3>1 DEF In
    <3> QED
      BY <2>2, <3>1, <3>2, <3>3 DEF ReviewInv, In
  <2> QED
    BY <1>3, <2>1, <2>2, LoopStep
<1>4. ASSUME NEW s \in Subtask, GatesPass(s) PROVE ReviewInv'
  <2>1. /\ UNCHANGED <<st, reexec, allPassed, mode>> /\ Approved' = Approved \cup {s}
        /\ todo' = todo \ {s} /\ s \in todo /\ st[s] = "done"
        /\ pc = "review" /\ pc' = "review" /\ runState = "reviewing" /\ runState' = "reviewing"
    BY <1>4, ReviewShape, PassShape
  <2>2. In("done")' \ todo' = (In("done") \ todo) \cup {s}
    BY <2>1 DEF In
  <2> QED
    BY <1>0, <2>1, <2>2 DEF ReviewInv, In
<1>5. ASSUME NEW s \in Subtask, GateRetry(s) PROVE ReviewInv'
  <2>1. /\ st' = [st EXCEPT ![s] = "running"] /\ reexec' = TRUE /\ Approved' = Approved
        /\ todo' = todo \ {s} /\ s \in todo /\ st[s] = "done" /\ UNCHANGED <<allPassed, mode>>
        /\ pc = "review" /\ pc' = "review" /\ runState = "reviewing" /\ runState' = "reviewing"
    BY <1>5, ReviewShape, SendBackShape DEF Approved
  <2>2. /\ In("done")' \ todo' = In("done") \ todo /\ s \in In("running")'
        /\ In("pending")' = In("pending") /\ In("failed")' = In("failed")
    BY <1>0, <2>1 DEF In, TypeOK
  <2> QED
    BY <1>0, <2>1, <2>2 DEF ReviewInv
<1>6. ASSUME NEW s \in Subtask, GateReject(s) PROVE ReviewInv'
  <2>1. /\ st' = [st EXCEPT ![s] = "failed"] /\ allPassed' = FALSE /\ Approved' = Approved
        /\ todo' = todo \ {s} /\ s \in todo /\ st[s] = "done" /\ UNCHANGED <<reexec, mode>>
        /\ pc = "review" /\ pc' = "review" /\ runState = "reviewing" /\ runState' = "reviewing"
    BY <1>6, ReviewShape, RejectShape DEF Approved
  <2>2. /\ In("done")' \ todo' = In("done") \ todo /\ In("running")' = In("running")
        /\ In("pending")' = In("pending")
    BY <1>0, <2>1 DEF In, TypeOK
  <2> QED
    BY <1>0, <2>1, <2>2 DEF ReviewInv
<1>7. CASE EndReview
  <2>1. /\ pc = "review" /\ runState = "reviewing" /\ todo = {} /\ pc' = "return"
        /\ runState' \in {"executing", "merging", "failed"} /\ UNCHANGED <<st, mode>>
        /\ gated' = IF reexec THEN None ELSE gated
        /\ reexec => runState' = "executing"
        /\ ~reexec => runState' # "executing"
        /\ runState' = "merging" => ~reexec /\ (allPassed \/ mode.partial)
    BY <1>0, <1>7 DEF EndReview, Return, PlaceInv, setup, taskVars
  <2>2. CASE reexec
    BY <2>1, <2>2 DEF ReviewInv, Approved, None
  <2>3. CASE ~reexec
    <3>1. In("running") = {} /\ In("pending") = {} /\ Approved = In("done")
          /\ (allPassed => mode.partial \/ In("failed") = {})
      BY <1>0, <2>1, <2>3 DEF ReviewInv
    <3>2. In("done") \cup In("failed") = Subtask
      BY <1>0, <3>1 DEF In, TypeOK, SubtaskState
    <3>3. Approved' = Approved /\ In("done")' = In("done") /\ In("failed")' = In("failed")
      BY <2>1, <2>3 DEF Approved, In
    <3> QED
      BY <2>1, <2>3, <3>1, <3>2, <3>3 DEF ReviewInv
  <2> QED
    BY <2>2, <2>3
<1>8. ASSUME NEW s \in Subtask, MergeOk(s) \/ QueueConflict(s) PROVE ReviewInv'
  <2>1. UNCHANGED <<mode, st, gated, pc, runState>> /\ pc = "merge" /\ runState = "merging"
    BY <1>8, MergeShape DEF MergeOk, QueueConflict
  <2> QED
    BY <1>0, <2>1 DEF ReviewInv, In, Approved
<1>9. ASSUME NEW s \in Subtask, MergeFails(s) PROVE ReviewInv'
  <2>1. /\ UNCHANGED <<mode, gated>> /\ st' = [st EXCEPT ![s] = "failed"]
        /\ pc = "merge" /\ runState = "merging" /\ s \in In("done")
        /\ IF mode.partial THEN UNCHANGED <<runState, pc>> ELSE runState' = "failed"
    BY <1>9, MergeShape DEF MergeFails, Return
  <2>2. /\ In("done")' \subseteq In("done")
        /\ In("done")' \cup In("failed")' = In("done") \cup In("failed")
    BY <1>0, <2>1 DEF In, TypeOK
  <2>3. Approved' = Approved
    BY <2>1 DEF Approved
  <2> QED
    BY <1>0, <2>1, <2>2, <2>3 DEF ReviewInv
<1>10. CASE EndMerge
  BY <1>10 DEF EndMerge, Return, ReviewInv
<1>11. CASE Raise
  BY <1>11, RaiseShape
<1>12. CASE Agents \/ UNCHANGED vars
  BY <1>0, <1>12, AgentsShape DEF ReviewInv, In, Approved
<1> QED
  BY <1>1, <1>2, <1>3, <1>4, <1>5, <1>6, <1>7, <1>8, <1>9, <1>10, <1>11, <1>12
  DEF Next, Coroutine, Review, Merge, Ended

\* MergeInv is kept.
LEMMA MergeStep == IInv /\ LifeInv /\ [Next]_vars => MergeInv'
<1> SUFFICES ASSUME IInv, LifeInv, [Next]_vars PROVE MergeInv'
  OBVIOUS
<1>0. MergeInv /\ PlaceInv /\ CurrentAgent /\ TypeOK /\ PhaseInv
  BY DEF IInv, LifeInv
<1>1. CASE RunLoop
  <2>1. UNCHANGED <<mode, runState, st, landed>> /\ pc = "return"
    BY <1>1 DEF RunLoop, EnterPlan, EnterExecute, EnterReview, EnterMerge, Finish, Enter,
                setup, taskVars, historyVars
  <2>2. CASE EnterMerge
    <3>1. /\ runState = "merging" /\ mergeFailed' = FALSE /\ todo' = In("done")
          /\ pc' = "merge"
      BY <1>0, <2>2 DEF EnterMerge, Enter, CurrentAgent, In
    <3>2. In("done")' = In("done") /\ OnMain' = OnMain
      BY <2>1 DEF In, OnMain
    <3> QED
      BY <1>0, <2>1, <3>1, <3>2 DEF MergeInv
  <2>3. CASE ~EnterMerge
    <3>1. pc' \notin {"return", "merge"}
      BY <1>1, <2>3 DEF RunLoop, EnterPlan, EnterExecute, EnterReview, Finish, Enter
    <3> QED
      BY <1>0, <2>1, <3>1 DEF MergeInv, OnMain
  <2> QED
    BY <2>2, <2>3
<1>2. CASE Scout \/ Plan \/ EndReview
  <2>1. pc \in {"scout", "plan", "review"} /\ pc' = "return" /\ UNCHANGED landed
    BY <1>2 DEF Scout, Plan, EndReview, Return, historyVars
  <2> QED
    BY <1>0, <2>1 DEF MergeInv, OnMain, PhaseInv, PlaceInv
<1>3. CASE Execute
  <2>1. CASE /\ UNCHANGED <<mode, deps, runState, gated, landed>>
             /\ runState = "executing" /\ pc \in PollLoop /\ pc' \in PollLoop
    BY <1>0, <2>1 DEF MergeInv, OnMain, PollLoop
  <2>2. CASE EndDispatch /\ pc' = "return"
    <3>1. runState = "executing" /\ pc = "dispatch" /\ UNCHANGED landed
      BY <1>0, <2>2 DEF EndDispatch, historyVars, PhaseInv, PollLoop
    <3> QED
      BY <1>0, <2>2, <3>1 DEF MergeInv, OnMain
  <2> QED
    BY <1>3, <2>1, <2>2, LoopStep
<1>4. ASSUME NEW s \in Subtask, GatesPass(s) \/ GateRetry(s) \/ GateReject(s) PROVE MergeInv'
  BY <1>0, <1>4, ReviewShape DEF MergeInv, OnMain
<1>5. ASSUME NEW s \in Subtask, MergeOk(s) PROVE MergeInv'
  <2>1. /\ UNCHANGED <<mode, runState, pc, st, mergeFailed>> /\ todo' = todo \ {s}
        /\ OnMain' \in {OnMain, OnMain \cup {s}}
        /\ ~CommitCanFail => OnMain' = OnMain \cup {s}
        /\ pc = "merge" /\ runState = "merging" /\ s \in todo /\ s \in In("done")
    BY <1>5, MergeShape, LandShape
  <2>2. In("done")' \ todo' = (In("done") \ todo) \cup {s}
    BY <2>1 DEF In
  <2> QED
    BY <1>0, <2>1, <2>2 DEF MergeInv
<1>6. ASSUME NEW s \in Subtask, MergeFails(s) PROVE MergeInv'
  <2>1. /\ st' = [st EXCEPT ![s] = "failed"] /\ UNCHANGED <<mode, mergeFailed, landed>>
        /\ pc = "merge" /\ runState = "merging" /\ s \in todo /\ s \in In("done")
        /\ IF mode.partial THEN todo' = todo \ {s} /\ UNCHANGED <<runState, pc>>
           ELSE runState' = "failed" /\ pc' = "return"
    BY <1>6, MergeShape DEF MergeFails, Return
  <2>2. OnMain' = OnMain
    BY <2>1 DEF OnMain
  <2>3. CASE mode.partial
    <3>1. In("done")' \ todo' = In("done") \ todo
      BY <1>0, <2>1, <2>3 DEF In, TypeOK
    <3> QED
      BY <1>0, <2>1, <2>2, <2>3, <3>1 DEF MergeInv
  <2>4. CASE ~mode.partial
    BY <2>1, <2>4 DEF MergeInv
  <2> QED
    BY <2>3, <2>4
<1>7. ASSUME NEW s \in Subtask, QueueConflict(s) PROVE MergeInv'
  <2>1. /\ UNCHANGED <<mode, st, landed, pc, runState>> /\ mergeFailed' = TRUE /\ mode.queue
        /\ pc = "merge" /\ runState = "merging" /\ todo' = todo \ {s}
    BY <1>7, MergeShape DEF QueueConflict
  <2>2. OnMain' = OnMain /\ In("done")' = In("done")
    BY <2>1 DEF OnMain, In
  <2> QED
    BY <1>0, <2>1, <2>2 DEF MergeInv
<1>8. CASE EndMerge
  BY <1>8 DEF EndMerge, Return, MergeInv
<1>9. CASE Raise
  BY <1>0, <1>9, RaiseShape DEF MergeInv
<1>10. CASE Agents \/ UNCHANGED vars
  BY <1>0, <1>10, AgentsShape DEF MergeInv, In, OnMain
<1> QED
  BY <1>1, <1>2, <1>3, <1>4, <1>5, <1>6, <1>7, <1>8, <1>9, <1>10
  DEF Next, Coroutine, Review, Merge, Ended

\* Where verdicts, main and states stay, the outcome does.
LEMMA OutcomeSame ==
  ASSUME OnlyApprovedLand, CompletedIsLanded, UNCHANGED <<mode, st, gated, landed>>,
         runState' = "completed" => runState = "completed"
  PROVE  OnlyApprovedLand' /\ CompletedIsLanded'
BY DEF OnlyApprovedLand, CompletedIsLanded, Promised, OnMain, Approved, In

\* As long as nothing is on main, both properties of the outcome hold.
LEMMA OutcomeOpen ==
  ASSUME OnMain' = {}, runState' # "completed"
  PROVE  OnlyApprovedLand' /\ CompletedIsLanded'
BY DEF OnlyApprovedLand, CompletedIsLanded

\* The properties of the outcome follow a run through its last phase.
LEMMA OutcomeStep ==
  ASSUME IInv, LifeInv, OnlyApprovedLand, CompletedIsLanded, [Next]_vars
  PROVE  OnlyApprovedLand' /\ CompletedIsLanded'
<1>0. MergeInv /\ PlaceInv /\ ReviewInv /\ TypeOK /\ PhaseInv
  BY DEF IInv, LifeInv
<1>1. CASE RunLoop
  <2>1. UNCHANGED <<mode, runState, st, gated, landed>>
    BY <1>1 DEF RunLoop, EnterPlan, EnterExecute, EnterReview, EnterMerge, Finish, Enter,
                setup, taskVars, historyVars
  <2> QED
    BY <2>1, OutcomeSame
<1>2. CASE Scout \/ Plan \/ EndReview
  <2>1. /\ pc \in {"scout", "plan", "review"} /\ pc' = "return" /\ UNCHANGED landed
        /\ runState' # "completed"
    BY <1>2 DEF Scout, Plan, EndReview, Return, historyVars
  <2>2. OnMain' = {}
    BY <1>0, <2>1 DEF MergeInv, OnMain, PhaseInv, PlaceInv
  <2> QED
    BY <2>1, <2>2, OutcomeOpen
<1>3. CASE Execute
  <2>1. runState = "executing" /\ runState' # "completed" /\ pc # "ended" /\ UNCHANGED landed
    <3>1. CASE EndDispatch
      BY <1>0, <3>1 DEF EndDispatch, LeaveExecute, Return, PhaseInv, PollLoop, historyVars
    <3> QED
      BY <1>3, <3>1, LoopStep DEF PollLoop
  <2>2. OnMain' = {}
    BY <1>0, <2>1 DEF MergeInv, OnMain
  <2> QED
    BY <2>1, <2>2, OutcomeOpen
<1>4. ASSUME NEW s \in Subtask, GatesPass(s) \/ GateRetry(s) \/ GateReject(s)
      PROVE  OnlyApprovedLand' /\ CompletedIsLanded'
  <2>1. runState = "reviewing" /\ pc = "review" /\ runState' = "reviewing" /\ UNCHANGED landed
    BY <1>4, ReviewShape
  <2>2. OnMain' = {}
    BY <1>0, <2>1 DEF MergeInv, OnMain
  <2> QED
    BY <2>1, <2>2, OutcomeOpen
<1>5. ASSUME NEW s \in Subtask, MergeOk(s) PROVE OnlyApprovedLand' /\ CompletedIsLanded'
  <2>1. /\ UNCHANGED <<mode, runState, st, gated>> /\ runState = "merging"
        /\ OnMain' \in {OnMain, OnMain \cup {s}} /\ s \in In("done") /\ s \in Approved
    BY <1>5, MergeShape, LandShape
  <2>2. In("done")' = In("done") /\ Approved' = Approved
    BY <2>1 DEF In, Approved
  <2> QED
    BY <2>1, <2>2 DEF OnlyApprovedLand, CompletedIsLanded, Promised
<1>6. ASSUME NEW s \in Subtask, MergeFails(s) PROVE OnlyApprovedLand' /\ CompletedIsLanded'
  <2>1. /\ st' = [st EXCEPT ![s] = "failed"] /\ UNCHANGED <<mode, landed, gated>>
        /\ runState' # "completed" /\ s \notin OnMain
    BY <1>6, MergeShape DEF MergeFails, Return
  <2>2. OnMain' = OnMain /\ Approved' = Approved /\ In("done") \ {s} \subseteq In("done")'
    BY <1>0, <2>1 DEF OnMain, Approved, In, TypeOK
  <2> QED
    BY <2>1, <2>2 DEF OnlyApprovedLand, CompletedIsLanded, Promised
<1>7. ASSUME NEW s \in Subtask, QueueConflict(s)
      PROVE  OnlyApprovedLand' /\ CompletedIsLanded'
  BY <1>7, MergeShape, OutcomeSame DEF QueueConflict
<1>8. CASE EndMerge
  <2>1. /\ UNCHANGED <<mode, st, gated, landed>> /\ pc = "merge" /\ todo = {}
        /\ runState' = "completed" =>
             /\ mergeFailed => mode.partial
             /\ mode.partial => In("failed") = {}
    BY <1>8 DEF EndMerge, Return, setup, taskVars, historyVars
  <2>2. OnMain' = OnMain /\ In("done")' = In("done") /\ Approved' = Approved
    BY <2>1 DEF OnMain, In, Approved
  <2>3. OnlyApprovedLand'
    BY <2>2 DEF OnlyApprovedLand
  <2>4. ASSUME runState' = "completed", Promised
        PROVE  OnMain = Subtask
    <3>1. runState = "merging" /\ (mergeFailed => mode.queue)
      BY <1>0, <2>1 DEF PlaceInv, MergeInv
    <3>2. In("done") = Subtask
      BY <1>0, <2>1, <2>4, <3>1 DEF ReviewInv, In
    <3>3. ~mergeFailed
      BY <2>1, <2>4, <3>1 DEF Promised
    <3> QED
      BY <1>0, <2>1, <2>4, <3>2, <3>3 DEF MergeInv, Promised
  <2> QED
    BY <2>1, <2>2, <2>3, <2>4 DEF CompletedIsLanded, Promised
<1>9. CASE Raise
  BY <1>9, RaiseShape, OutcomeSame
<1>10. CASE Agents \/ UNCHANGED vars
  BY <1>10, AgentsShape, OutcomeSame
<1> QED
  BY <1>1, <1>2, <1>3, <1>4, <1>5, <1>6, <1>7, <1>8, <1>9, <1>10
  DEF Next, Coroutine, Review, Merge, Ended

\* The inductive invariant of a run with its outcome.
RunInv == IInv /\ LifeInv /\ OnlyApprovedLand /\ CompletedIsLanded

\* RunInv holds throughout every run.
THEOREM RunInvariance == Spec => []RunInv
<1>1. Init => RunInv
  BY InitInv, LifeInit DEF RunInv
<1>2. RunInv /\ [Next]_vars => RunInv'
  <2> SUFFICES ASSUME RunInv, [Next]_vars PROVE RunInv'
    OBVIOUS
  <2>1. IInv'
    BY InvStep DEF RunInv
  <2>2. LifeInv'
    BY PlaceStep, WorkStep, ReviewStep, MergeStep DEF LifeInv, RunInv
  <2>3. OnlyApprovedLand' /\ CompletedIsLanded'
    BY OutcomeStep DEF RunInv
  <2> QED
    BY <2>1, <2>2, <2>3 DEF RunInv
<1> QED
  BY <1>1, <1>2, PTL DEF Spec

\* Nothing reaches main that the gates of the latest review did not pass.
THEOREM ApprovedLand == Spec => []OnlyApprovedLand
<1>1. RunInv => OnlyApprovedLand
  BY DEF RunInv
<1> QED
  BY RunInvariance, <1>1, PTL

\* A run is completed only when the work of all its subtasks is on main.
THEOREM CompletedLanded == Spec => []CompletedIsLanded
<1>1. RunInv => CompletedIsLanded
  BY DEF RunInv
<1> QED
  BY RunInvariance, <1>1, PTL

-----------------------------------------------------------------------------
(* What starts, and why a run fails *)

\* What is done has started.
LEMMA DoneStarted ==
  ASSUME IInv, NEW s \in Subtask, st[s] = "done"
  PROVE  spawns[s] > 0
<1>1. spawns[s] \in Nat /\ spawns[s] # 0
  BY DEF IInv, TypeOK, CurrentAgent
<1> QED
  BY <1>1

\* A subtask is reachable when everything it depends on is.
LEMMA ReachableNext ==
  ASSUME NEW s \in Subtask, deps[s] \subseteq Reachable
  PROVE  s \in Reachable
BY DEF Reachable

\* What is dispatched depends on what is done, hence started, hence reachable.
LEMMA StartStep == IInv /\ OnlyReachableStart /\ [Next]_vars => OnlyReachableStart'
<1> SUFFICES ASSUME IInv, OnlyReachableStart, [Next]_vars PROVE OnlyReachableStart'
  OBVIOUS
<1>1. ASSUME UNCHANGED <<deps, spawns>> PROVE OnlyReachableStart'
  BY <1>1 DEF OnlyReachableStart, Reachable
<1>2. CASE Plan
  <2>1. UNCHANGED spawns /\ \A s \in Subtask : spawns[s] = 0
    BY <1>2 DEF Plan, taskVars, IInv, PhaseInv
  <2> QED
    BY <2>1 DEF OnlyReachableStart
<1>3. ASSUME NEW s \in Subtask, DispatchOk(s) \/ DispatchFails(s) PROVE OnlyReachableStart'
  <2>1. deps' = deps /\ DepsMet(s) /\ spawns' = [spawns EXCEPT ![s] = @ + 1]
    BY <1>3 DEF DispatchOk, DispatchFails, DispatchTurn, Dispatchable, setup
  <2>2. deps[s] \subseteq Reachable
    <3> SUFFICES ASSUME NEW d \in deps[s] PROVE d \in Reachable
      OBVIOUS
    <3>1. d \in Subtask /\ st[d] = "done"
      BY <2>1 DEF DepsMet, In
    <3> QED
      BY <3>1, DoneStarted DEF OnlyReachableStart
  <2>3. s \in Reachable
    BY <2>2, ReachableNext
  <2>4. Reachable' = Reachable
    BY <2>1 DEF Reachable
  <2>5. spawns \in [Subtask -> Nat]
    BY DEF IInv, TypeOK
  <2> QED
    BY <2>1, <2>3, <2>4, <2>5 DEF OnlyReachableStart
<1>4. ASSUME NEW s \in Subtask,
             \/ PollDead(s) \/ PollDone(s) \/ StallRetry(s) \/ StallExhausted(s)
             \/ GateRetry(s) \/ GateReject(s) \/ MergeFails(s)
      PROVE  UNCHANGED <<deps, spawns>>
  BY <1>4 DEF PollDead, PollDone, PollTurn, StallRetry, StallExhausted, StallTurn, GateRetry,
              GateReject, ReviewTurn, MergeFails, MergeTurn, setup
<1> QED
  BY SubtaskStep, <1>1, <1>2, <1>3, <1>4

\* The causes of a failure outlast it.
LEMMA CauseSame ==
  ASSUME FailsForCause, UNCHANGED <<deps, st>>, runState' = "failed" => runState = "failed",
         runState = "failed" => mergeFailed' = mergeFailed
  PROVE  FailsForCause'
BY DEF FailsForCause, Reachable, In

\* The deadlock check fires when everything that could be done is.
LEMMA DeadlockIsReal ==
  ASSUME IInv, OnlyReachableStart, EndDispatch, runState' = "failed"
  PROVE  In("failed") # {} \/ (In("done") = Reachable /\ Reachable # Subtask)
<1> SUFFICES ASSUME In("failed") = {} PROVE In("done") = Reachable /\ Reachable # Subtask
  OBVIOUS
<1>0. st \in [Subtask -> SubtaskState] /\ (pc = "dispatch" => runState = "executing")
  BY DEF IInv, TypeOK, PhaseInv, PollLoop
<1>1. /\ In("running") = {} /\ \A s \in In("pending") : ~DepsMet(s)
      /\ In("done") \cup In("failed") # Subtask
  BY <1>0 DEF EndDispatch, LeaveExecute, Return
<1>2. \A s \in Subtask : s \in In("done") \/ s \in In("pending")
  BY <1>0, <1>1 DEF In, SubtaskState
<1>3. In("done") \subseteq Reachable
  BY DoneStarted DEF In, OnlyReachableStart
<1>4. \A s \in Subtask : deps[s] \subseteq In("done") => s \in In("done")
  BY <1>1, <1>2 DEF DepsMet
<1>5. Reachable \subseteq In("done")
  <2>1. In("done") \in SUBSET Subtask
    BY DEF In
  <2> QED
    BY <2>1, <1>4 DEF Reachable
<1> QED
  BY <1>1, <1>3, <1>5

\* No step fails a run without a cause.
LEMMA CauseStep ==
  ASSUME IInv, LifeInv, OnlyReachableStart, CauseInv, FailsForCause, [Next]_vars
  PROVE  CauseInv' /\ FailsForCause'
<1>0. TypeOK /\ PhaseInv /\ PlaceInv
  BY DEF IInv, LifeInv
<1>1. CASE RunLoop
  <2>1. UNCHANGED <<runState, deps, st>> /\ (pc' = "review" => allPassed' = TRUE)
    BY <1>1 DEF RunLoop, EnterPlan, EnterExecute, EnterReview, EnterMerge, Finish, Enter, setup, taskVars
  <2>2. runState = "failed" => mergeFailed' = mergeFailed
    BY <1>1 DEF RunLoop, EnterPlan, EnterExecute, EnterReview, EnterMerge, Finish, verdictVars
  <2>3. FailsForCause'
    BY <2>1, <2>2, CauseSame
  <2> QED
    BY <2>1, <2>3 DEF CauseInv, In
<1>2. CASE Scout
  <2>1. /\ UNCHANGED <<deps, st>> /\ pc' = "return"
        /\ runState = "scouting" /\ runState' = "planning"
    BY <1>0, <1>2 DEF Scout, Return, PhaseInv, setup, taskVars
  <2> QED
    BY <2>1 DEF CauseInv, FailsForCause, In
<1>3. CASE Plan
  <2>1. /\ UNCHANGED st /\ pc' = "return" /\ runState = "planning"
        /\ runState' = "executing" \/ (runState' = "failed" /\ UNCHANGED deps)
    BY <1>0, <1>3 DEF Plan, Return, PhaseInv, taskVars
  <2> QED
    BY <2>1 DEF CauseInv, FailsForCause, In
<1>4. CASE Execute
  <2>1. CASE runState' = "executing" /\ pc' \in PollLoop
    BY <2>1 DEF CauseInv, FailsForCause, PollLoop
  <2>2. CASE EndDispatch /\ pc' = "return"
    <3>1. UNCHANGED <<deps, st>> /\ runState' \notin {"scouting", "planning"}
      BY <1>0, <2>2 DEF EndDispatch, LeaveExecute, Return, PhaseInv, PollLoop, setup, taskVars
    <3>2. runState' = "failed" => In("failed") # {} \/ (In("done") = Reachable /\ Reachable # Subtask)
      BY <2>2, DeadlockIsReal
    <3>3. FailsForCause'
      BY <3>1, <3>2 DEF FailsForCause, Reachable, In
    <3> QED
      BY <2>2, <3>1, <3>3 DEF CauseInv
  <2> QED
    BY <1>4, <2>1, <2>2, LoopStep
<1>5. ASSUME NEW s \in Subtask, GatesPass(s) \/ GateRetry(s) \/ GateReject(s)
      PROVE  CauseInv' /\ FailsForCause'
  <2>1. runState' = "reviewing" /\ pc = "review" /\ st[s] = "done"
    BY <1>5, ReviewShape
  <2>2. ~allPassed' => In("failed")' # {}
    <3>1. CASE GatesPass(s)
      BY <2>1, <3>1, PassShape DEF CauseInv, In
    <3>2. CASE GateRetry(s)
      BY <1>0, <2>1, <3>2, SendBackShape DEF CauseInv, In, TypeOK
    <3>3. CASE GateReject(s)
      BY <1>0, <3>3, RejectShape DEF In, TypeOK
    <3> QED
      BY <1>5, <3>1, <3>2, <3>3
  <2> QED
    BY <2>1, <2>2 DEF CauseInv, FailsForCause
<1>6. CASE EndReview
  <2>1. /\ UNCHANGED <<deps, st>> /\ pc = "review" /\ pc' = "return"
        /\ runState' \notin {"scouting", "planning"}
        /\ runState' = "failed" => ~allPassed
    BY <1>6 DEF EndReview, Return, setup, taskVars
  <2> QED
    BY <2>1 DEF CauseInv, FailsForCause, In
<1>7. ASSUME NEW s \in Subtask, MergeOk(s) \/ MergeFails(s) \/ QueueConflict(s)
      PROVE  CauseInv' /\ FailsForCause'
  <2>1. runState = "merging" /\ pc = "merge"
    BY <1>7, MergeShape
  <2>2. CASE runState' = "merging" /\ pc' = "merge"
    BY <2>2 DEF CauseInv, FailsForCause
  <2>3. CASE MergeFails(s)
    <3>1. /\ st' = [st EXCEPT ![s] = "failed"]
          /\ runState' \in {"merging", "failed"} /\ pc' \in {"merge", "return"}
      BY <2>1, <2>3 DEF MergeFails, Return
    <3>2. In("failed")' # {}
      BY <1>0, <3>1 DEF In, TypeOK
    <3> QED
      BY <3>1, <3>2 DEF CauseInv, FailsForCause
  <2> QED
    BY <1>7, <2>1, <2>2, <2>3 DEF MergeOk, QueueConflict
<1>8. CASE EndMerge
  <2>1. /\ UNCHANGED <<deps, st, mergeFailed>> /\ pc' = "return"
        /\ runState' \notin {"scouting", "planning"}
        /\ runState' = "failed" => mergeFailed
    BY <1>8 DEF EndMerge, Return, setup, taskVars, verdictVars
  <2> QED
    BY <2>1 DEF CauseInv, FailsForCause
<1>9. CASE Raise
  <2>1. pc' = "ended" /\ UNCHANGED <<runState, deps, st, mergeFailed>>
    BY <1>9 DEF Raise, PollAborts, QueueRaises, Cancel, Stop, setup, taskVars, verdictVars
  <2> QED
    BY <2>1, CauseSame DEF CauseInv, In
<1>10. CASE Agents \/ UNCHANGED vars
  <2>1. UNCHANGED <<runState, pc, deps, st, allPassed, mergeFailed>>
    BY <1>10, AgentsShape
  <2> QED
    BY <2>1, CauseSame DEF CauseInv, In
<1> QED
  BY <1>1, <1>2, <1>3, <1>4, <1>5, <1>6, <1>7, <1>8, <1>9, <1>10
  DEF Next, Coroutine, Review, Merge, Ended

\* Both properties with the invariant they rest on, throughout every run.
LEMMA CauseInvariance == Spec => [](OnlyReachableStart /\ CauseInv /\ FailsForCause)
<1>1. Init => OnlyReachableStart /\ CauseInv /\ FailsForCause
  BY DEF Init, None, OnlyReachableStart, CauseInv, FailsForCause, NoDeps, In
<1>2. /\ RunInv /\ OnlyReachableStart /\ CauseInv /\ FailsForCause /\ [Next]_vars
      => (OnlyReachableStart /\ CauseInv /\ FailsForCause)'
  BY StartStep, CauseStep DEF RunInv
<1> QED
  BY RunInvariance, <1>1, <1>2, PTL DEF Spec

\* No agent is ever spent on a subtask that no order of the plan could have started.
THEOREM ReachableStarts == Spec => []OnlyReachableStart
BY CauseInvariance, PTL

\* A run fails only for a cause; when the deadlock check is the cause, exactly those
\* subtasks are done that could ever have been.
THEOREM FailureHasCause == Spec => []FailsForCause
BY CauseInvariance, PTL

-----------------------------------------------------------------------------
(* The coroutine never spins *)

\* The timeout of a subtask, in polls.
LEMMA TimeoutRange ==
  ASSUME NEW s \in Subtask
  PROVE  Timeout(s) \in Nat /\ 0 < Timeout(s) /\ Timeout(s) <= 2 * StallTicks
BY EngineAssumption DEF Timeout

\* The steps that move a silent subtask or its timeout; every other step leaves them
\* alone.
LEMMA QuietStep ==
  ASSUME [Next]_vars
  PROVE  \/ UNCHANGED <<quiet, gateRetry, st>>
         \/ Wake
         \/ \E s \in Subtask :
              \/ DispatchOk(s) \/ DispatchFails(s) \/ PollDead(s) \/ PollDone(s) \/ PollBusy(s)
              \/ StallRetry(s) \/ StallExhausted(s) \/ GateRetry(s) \/ GateReject(s)
              \/ MergeFails(s)
<1> USE DEF setup, loopVars, taskVars
<1>1. CASE RunLoop
  BY <1>1 DEF RunLoop, EnterPlan, EnterExecute, EnterReview, EnterMerge, Finish, Enter
<1>2. CASE Scout \/ Plan
  BY <1>2 DEF Scout, Plan
<1>3. CASE Execute
  <2>1. CASE EndDispatch \/ EndPoll \/ EndStalls
    BY <2>1 DEF EndDispatch, EndPoll, EndStalls
  <2> QED
    BY <1>3, <2>1 DEF Execute
<1>4. CASE Review
  <2>1. CASE EndReview
    BY <2>1 DEF EndReview
  <2>2. ASSUME NEW s \in Subtask, GatesPass(s) PROVE UNCHANGED <<quiet, gateRetry, st>>
    BY <2>2 DEF GatesPass, ReviewTurn
  <2> QED
    BY <1>4, <2>1, <2>2 DEF Review
<1>5. CASE Merge
  <2>1. CASE EndMerge
    BY <2>1 DEF EndMerge
  <2>2. ASSUME NEW s \in Subtask, MergeOk(s) \/ QueueConflict(s) PROVE UNCHANGED <<quiet, gateRetry, st>>
    BY <2>2 DEF MergeOk, QueueConflict, MergeTurn
  <2> QED
    BY <1>5, <2>1, <2>2 DEF Merge
<1>6. CASE Raise
  BY <1>6 DEF Raise, PollAborts, QueueRaises, Cancel, Stop
<1>7. CASE Agents
  BY <1>7 DEF Agents, ForeignCleanup, Edit, Commit, Exit
<1>8. CASE UNCHANGED vars
  BY <1>8 DEF vars
<1> QED
  BY <1>1, <1>2, <1>3, <1>4, <1>5, <1>6, <1>7, <1>8 DEF Next, Coroutine, Ended

\* The steps that settle or start a subtask reset its silence or keep it, and go on in
\* the same loop.
LEMMA SettleShape ==
  ASSUME IInv, NEW s \in Subtask,
         \/ DispatchOk(s) \/ DispatchFails(s) \/ PollDead(s) \/ PollDone(s) \/ PollBusy(s)
         \/ StallRetry(s) \/ StallExhausted(s) \/ GateRetry(s) \/ GateReject(s) \/ MergeFails(s)
  PROVE  /\ quiet' \in {quiet, [quiet EXCEPT ![s] = 0]}
         /\ \A t \in Subtask \ {s} : gateRetry'[t] = gateRetry[t] /\ st'[t] = st[t]
         /\ st'[s] = "running" => quiet'[s] = 0 \/ (pc = "poll" /\ pc' = "poll")
         /\ pc' = pc \/ (pc = "merge" /\ pc' = "return")
         /\ pc = "stalls" => todo' = todo \ {s} /\ st'[s] # "running"
<1>0. TypeOK
  BY DEF IInv
<1> USE <1>0 DEF TypeOK
<1>1. CASE DispatchOk(s)
  BY <1>1 DEF DispatchOk, DispatchTurn
<1>2. CASE DispatchFails(s)
  BY <1>2 DEF DispatchFails, DispatchTurn
<1>3. CASE PollDead(s) \/ PollDone(s)
  BY <1>3 DEF PollDead, PollDone, PollTurn, Settle
<1>4. CASE PollBusy(s)
  BY <1>4 DEF PollBusy, PollTurn, Heartbeat
<1>5. CASE StallRetry(s) \/ StallExhausted(s)
  BY <1>5 DEF StallRetry, StallExhausted, StallTurn
<1>6. CASE GateRetry(s)
  BY <1>6 DEF GateRetry, ReviewTurn
<1>7. CASE GateReject(s)
  BY <1>7 DEF GateReject, ReviewTurn
<1>8. CASE MergeFails(s)
  BY <1>8 DEF MergeFails, MergeTurn, Return
<1> QED
  BY <1>1, <1>2, <1>3, <1>4, <1>5, <1>6, <1>7, <1>8

\* Where the coroutine may go.
LEMMA Moves ==
  ASSUME [Next]_vars
  PROVE  \/ UNCHANGED <<pc, todo, stalled, deps, st>>
         \/ pc' = "ended"
         \/ pc = "return" /\ (pc' \in {"plan", "review", "merge"} \/ EnterExecute)
         \/ pc \in {"scout", "plan", "review", "merge"} /\ pc' \in {"return", "review", "merge"}
         \/ EndDispatch \/ Wake \/ EndPoll \/ EndStalls
         \/ \E s \in Subtask :
              \/ DispatchOk(s) \/ DispatchFails(s) \/ PollDead(s) \/ PollDone(s) \/ PollBusy(s)
              \/ StallRetry(s) \/ StallExhausted(s)
<1>1. CASE RunLoop
  <2>1. pc = "return"
    BY <1>1 DEF RunLoop, EnterPlan, EnterExecute, EnterReview, EnterMerge, Finish, Enter
  <2>2. CASE EnterPlan \/ EnterReview \/ EnterMerge \/ Finish
    BY <2>2 DEF EnterPlan, EnterReview, EnterMerge, Finish, Enter
  <2> QED
    BY <1>1, <2>1, <2>2 DEF RunLoop
<1>2. CASE Scout \/ Plan \/ EndReview \/ EndMerge
  BY <1>2 DEF Scout, Plan, EndReview, EndMerge, Return
<1>3. ASSUME NEW s \in Subtask, GatesPass(s) \/ GateRetry(s) \/ GateReject(s)
      PROVE  pc = "review" /\ pc' = "review"
  BY <1>3 DEF GatesPass, GateRetry, GateReject, ReviewTurn
<1>4. ASSUME NEW s \in Subtask, MergeOk(s) \/ MergeFails(s) \/ QueueConflict(s)
      PROVE  pc = "merge" /\ pc' \in {"merge", "return"}
  BY <1>4 DEF MergeOk, MergeFails, QueueConflict, MergeTurn, Return
<1>5. CASE Raise
  BY <1>5, RaiseShape
<1>6. CASE Agents \/ UNCHANGED vars
  BY <1>6 DEF Agents, ForeignCleanup, Edit, Commit, Exit, vars, setup, loopVars, taskVars, execVars
<1> QED
  BY <1>1, <1>2, <1>3, <1>4, <1>5, <1>6 DEF Next, Coroutine, Execute, Review, Merge, Ended

\* Silence stays within the longest timeout.
LEMMA QuietBoundStep ==
  ASSUME IInv, SilenceInv, [Next]_vars
  PROVE  \A s \in Subtask : quiet'[s] <= 2 * StallTicks
<1>1. /\ quiet \in [Subtask -> Nat] /\ StallTicks \in Nat
      /\ \A s \in Subtask : quiet[s] <= 2 * StallTicks
  BY EngineAssumption DEF IInv, TypeOK, SilenceInv
<1>2. CASE UNCHANGED quiet
  BY <1>1, <1>2
<1>3. CASE Wake
  BY <1>1, <1>3 DEF Wake
<1>4. ASSUME NEW s \in Subtask, quiet' \in {quiet, [quiet EXCEPT ![s] = 0]}
      PROVE  \A t \in Subtask : quiet'[t] <= 2 * StallTicks
  BY <1>1, <1>4
<1> QED
  BY QuietStep, SettleShape, <1>2, <1>3, <1>4

\* Whoever has been silent for its timeout is met by _check_stalls.
LEMMA NoticedStep ==
  ASSUME IInv, SilenceInv, [Next]_vars
  PROVE  SilentNoticed'
<1> SUFFICES ASSUME NEW t \in Subtask, st'[t] = "running", quiet'[t] >= Timeout(t)'
             PROVE  pc' \in {"poll", "ended"} \/ (pc' = "stalls" /\ t \in todo')
  BY DEF SilentNoticed, In
<1>0. TypeOK /\ TurnInv
  BY DEF IInv
<1>1. ASSUME st[t] = "running", quiet[t] >= Timeout(t)
      PROVE  pc \in {"poll", "ended"} \/ (pc = "stalls" /\ t \in todo)
  BY <1>1 DEF SilenceInv, SilentNoticed, In
<1>2. CASE UNCHANGED <<quiet, gateRetry, st>>
  <2>1. st[t] = "running" /\ quiet[t] >= Timeout(t)
    BY <1>2 DEF Timeout
  <2>2. pc \in {"poll", "ended"} \/ (pc = "stalls" /\ t \in todo)
    BY <1>1, <2>1
  <2>3. CASE EndPoll
    BY <1>2, <2>1, <2>3 DEF EndPoll, In
  <2>4. ASSUME NEW s \in Subtask, StallRetry(s) \/ StallExhausted(s) PROVE FALSE
    BY <1>0, <1>2, <2>4 DEF StallRetry, StallExhausted, StallTurn, First, TurnInv, In, TypeOK
  <2>5. ASSUME NEW s \in Subtask, DispatchOk(s) \/ DispatchFails(s) PROVE pc = "dispatch"
    BY <2>5 DEF DispatchOk, DispatchFails, DispatchTurn
  <2>6. ASSUME NEW s \in Subtask, PollDead(s) \/ PollDone(s) \/ PollBusy(s) PROVE pc' = "poll"
    BY <2>6 DEF PollDead, PollDone, PollBusy, PollTurn
  <2>7. CASE EndDispatch \/ Wake \/ EndStalls
    BY <2>2, <2>7 DEF EndDispatch, Wake, EndStalls
  <2> QED
    BY <2>2, <2>3, <2>4, <2>5, <2>6, <2>7, Moves
<1>3. CASE Wake
  BY <1>3 DEF Wake
<1>4. ASSUME NEW s \in Subtask,
             \/ DispatchOk(s) \/ DispatchFails(s) \/ PollDead(s) \/ PollDone(s) \/ PollBusy(s)
             \/ StallRetry(s) \/ StallExhausted(s) \/ GateRetry(s) \/ GateReject(s) \/ MergeFails(s)
      PROVE  pc' \in {"poll", "ended"} \/ (pc' = "stalls" /\ t \in todo')
  <2>1. /\ quiet' \in {quiet, [quiet EXCEPT ![s] = 0]}
        /\ \A u \in Subtask \ {s} : gateRetry'[u] = gateRetry[u] /\ st'[u] = st[u]
        /\ st'[s] = "running" => quiet'[s] = 0 \/ (pc = "poll" /\ pc' = "poll")
        /\ pc' = pc \/ (pc = "merge" /\ pc' = "return")
        /\ pc = "stalls" => todo' = todo \ {s} /\ st'[s] # "running"
    BY <1>4, SettleShape
  <2>2. CASE t = s
    <3>1. Timeout(t)' \in Nat /\ 0 < Timeout(t)'
      BY EngineAssumption DEF Timeout
    <3> QED
      BY <2>1, <2>2, <3>1
  <2>3. CASE t # s
    <3>1. st[t] = "running" /\ quiet'[t] = quiet[t] /\ Timeout(t)' = Timeout(t)
      BY <1>0, <2>1, <2>3 DEF Timeout, TypeOK
    <3>2. pc \in {"poll", "ended"} \/ (pc = "stalls" /\ t \in todo)
      BY <1>1, <3>1
    <3> QED
      BY <2>1, <2>3, <3>2
  <2> QED
    BY <2>2, <2>3
<1> QED
  BY QuietStep, <1>2, <1>3, <1>4

\* A dispatch pass passes over nothing it could dispatch.
LEMMA ReadyStep ==
  ASSUME IInv, SilenceInv, [Next]_vars
  PROVE  ReadyAhead'
<1> SUFFICES ASSUME pc' = "dispatch", NEW t \in Subtask, st'[t] = "pending", DepsMet(t)'
             PROVE  t \in todo'
  BY DEF ReadyAhead, In
<1>0. TypeOK /\ TurnInv /\ ReadyAhead
  BY DEF IInv, SilenceInv
<1>1. CASE UNCHANGED <<pc, todo, stalled, deps, st>>
  BY <1>0, <1>1 DEF ReadyAhead, DepsMet, In
<1>2. CASE EnterExecute \/ EndStalls
  BY <1>2 DEF EnterExecute, Enter, EndStalls
<1>3. ASSUME NEW s \in Subtask, DispatchOk(s) \/ DispatchFails(s) PROVE t \in todo'
  <2>1. /\ pc = "dispatch" /\ s \in todo /\ st[s] = "pending" /\ active < mode.limit
        /\ \A u \in todo : Dispatchable(u) => s <= u
        /\ todo' = {u \in todo : u > s} /\ deps' = deps
        /\ st' = [st EXCEPT ![s] = "running"] \/ st' = [st EXCEPT ![s] = "failed"]
    BY <1>3 DEF DispatchOk, DispatchFails, DispatchTurn, Dispatchable, setup
  <2>2. t # s /\ st[t] = "pending" /\ In("done")' = In("done")
    BY <1>0, <2>1 DEF TypeOK, In
  <2>3. DepsMet(t)
    BY <2>1, <2>2 DEF DepsMet
  <2>4. t \in todo
    BY <1>0, <2>1, <2>2, <2>3 DEF ReadyAhead, In
  <2>5. Dispatchable(t)
    BY <2>1, <2>2, <2>3, <2>4 DEF Dispatchable
  <2>6. s \in Int /\ t \in Int /\ s <= t
    BY <2>1, <2>4, <2>5, EngineAssumption DEF Subtask
  <2> QED
    BY <2>1, <2>2, <2>4, <2>6
<1>4. ASSUME NEW s \in Subtask,
             PollDead(s) \/ PollDone(s) \/ PollBusy(s) \/ StallRetry(s) \/ StallExhausted(s)
      PROVE  FALSE
  BY <1>4 DEF PollDead, PollDone, PollBusy, PollTurn, StallRetry, StallExhausted, StallTurn
<1>5. CASE EndDispatch \/ Wake \/ EndPoll
  BY <1>5 DEF EndDispatch, LeaveExecute, Return, Wake, EndPoll
<1> QED
  BY Moves, <1>1, <1>2, <1>3, <1>4, <1>5

\* Between two stall passes nothing is counted as stalled.
LEMMA StalledStep ==
  ASSUME IInv, SilenceInv, [Next]_vars
  PROVE  pc' \in {"dispatch", "sleep", "poll"} => stalled' = 0
<1>0. pc \in {"dispatch", "sleep", "poll"} => stalled = 0
  BY DEF SilenceInv
<1>1. ASSUME NEW s \in Subtask,
             \/ DispatchOk(s) \/ DispatchFails(s) \/ PollDead(s) \/ PollDone(s) \/ PollBusy(s)
      PROVE  UNCHANGED <<pc, stalled>>
  BY <1>1 DEF DispatchOk, DispatchFails, DispatchTurn, PollDead, PollDone, PollBusy, PollTurn
<1>2. ASSUME NEW s \in Subtask, StallRetry(s) \/ StallExhausted(s) PROVE pc' = "stalls"
  BY <1>2 DEF StallRetry, StallExhausted, StallTurn
<1>3. CASE EnterExecute \/ EndStalls
  BY <1>3 DEF EnterExecute, EndStalls
<1>4. CASE EndDispatch
  BY <1>0, <1>4 DEF EndDispatch, LeaveExecute, Return, execVars
<1>5. CASE Wake \/ EndPoll
  BY <1>0, <1>5 DEF Wake, EndPoll, execVars
<1> QED
  BY Moves, <1>0, <1>1, <1>2, <1>3, <1>4, <1>5

\* The loop sleeps only while somebody runs: the deadlock check misses nothing.
LEMMA SleepStep ==
  ASSUME IInv, SilenceInv, [Next]_vars
  PROVE  pc' = "sleep" => In("running")' # {}
<1> SUFFICES ASSUME pc' = "sleep" PROVE In("running")' # {}
  OBVIOUS
<1>0. TypeOK /\ ActiveCountExact /\ ReadyAhead
  BY DEF IInv, SilenceInv
<1>1. CASE UNCHANGED <<pc, todo, stalled, deps, st>>
  BY <1>1 DEF SilenceInv, In
<1>2. CASE EndDispatch
  <2> SUFFICES ASSUME In("running") = {} PROVE FALSE
    BY <1>2 DEF EndDispatch, In, taskVars
  <2>1. /\ pc = "dispatch" /\ \A s \in Subtask : ~Dispatchable(s)
        /\ ~\A s \in In("pending") : ~DepsMet(s)
    BY <1>2 DEF EndDispatch, LeaveExecute, Return
  <2>2. PICK s \in In("pending") : DepsMet(s)
    BY <2>1
  <2>3. s \in todo /\ s \in Subtask /\ st[s] = "pending"
    BY <1>0, <2>1, <2>2 DEF ReadyAhead, In
  <2>4. active = 0
    <3>1. Cardinality(In("running")) = 0
      BY FS_EmptySet
    <3> QED
      BY <1>0, <2>1, <3>1 DEF ActiveCountExact, PollLoop, SilenceInv
  <2>5. active < mode.limit
    BY <1>0, <2>4, EngineAssumption DEF TypeOK
  <2> QED
    BY <2>1, <2>2, <2>3, <2>5 DEF Dispatchable
<1>3. ASSUME NEW s \in Subtask,
             \/ DispatchOk(s) \/ DispatchFails(s) \/ PollDead(s) \/ PollDone(s) \/ PollBusy(s)
             \/ StallRetry(s) \/ StallExhausted(s)
      PROVE  FALSE
  BY <1>3 DEF DispatchOk, DispatchFails, DispatchTurn, PollDead, PollDone, PollBusy, PollTurn,
              StallRetry, StallExhausted, StallTurn
<1>4. CASE EnterExecute \/ Wake \/ EndPoll \/ EndStalls
  BY <1>4 DEF EnterExecute, Enter, Wake, EndPoll, EndStalls
<1> QED
  BY Moves, <1>1, <1>2, <1>3, <1>4

\* SilenceInv holds throughout every run.
LEMMA SilenceInvariance == Spec => []SilenceInv
<1>1. Init => SilenceInv
  BY EngineAssumption DEF Init, None, SilenceInv, SilentNoticed, ReadyAhead, In
<1>2. IInv /\ SilenceInv /\ [Next]_vars => SilenceInv'
  <2> SUFFICES ASSUME IInv, SilenceInv, [Next]_vars PROVE SilenceInv'
    OBVIOUS
  <2> QED
    BY QuietBoundStep, NoticedStep, ReadyStep, StalledStep, SleepStep DEF SilenceInv
<1> QED
  BY Invariance, <1>1, <1>2, PTL DEF Spec

\* A step that takes from one subtask's budget spends.
LEMMA SpendBy ==
  ASSUME TypeOK, TypeOK', NEW s \in Subtask,
         \A t \in Subtask \ {s} : UNCHANGED <<st[t], retry[t], gateRetry[t]>>,
         Stage(st'[s]) < Stage(st[s]) + 2 * (retry'[s] - retry[s]) + 2 * (gateRetry'[s] - gateRetry[s])
  PROVE  Spends
<1> DEFINE B(t)  == 2 * (MaxRetries - retry[t]) + 2 * (MaxGateRetries - gateRetry[t]) + Stage(st[t])
           B1(t) == 2 * (MaxRetries - retry'[t]) + 2 * (MaxGateRetries - gateRetry'[t]) + Stage(st'[t])
<1>1. \A t \in Subtask :
        /\ retry[t] \in Int /\ gateRetry[t] \in Int /\ Stage(st[t]) \in Int
        /\ retry'[t] \in Int /\ gateRetry'[t] \in Int /\ Stage(st'[t]) \in Int
  BY EngineAssumption DEF TypeOK, Stage, SubtaskState
<1>2. MaxRetries \in Int /\ MaxGateRetries \in Int
  BY EngineAssumption
<1>3. \A t \in Subtask \ {s} : B1(t) = B(t) /\ B(t) \in Int
  BY <1>1, <1>2
<1>4. B1(s) < B(s) /\ B1(s) \in Int /\ B(s) \in Int
  BY <1>1, <1>2
<1>5. \A t \in Subtask : B1(t) <= B(t)
  BY <1>3, <1>4
<1>6. Budget = [t \in Subtask |-> B(t)] /\ Budget' = [t \in Subtask |-> B1(t)]
  BY DEF Budget
<1> HIDE DEF B, B1
<1>7. Budget'[s] # Budget[s]
  BY <1>4, <1>6
<1>8. \A t \in Subtask : Budget'[t] <= Budget[t]
  BY <1>5, <1>6
<1> QED
  BY <1>7, <1>8 DEF Spends, Below

\* A step that touches no subtask and comes nearer to the end advances.
LEMMA AdvanceBy ==
  ASSUME UNCHANGED <<st, retry, gateRetry, quiet>>,
         Ahead[Place'] < Ahead[Place] \/ (Place' = Place /\ todo' \subseteq todo /\ todo' # todo)
  PROVE  Advances
<1>1. Budget' = Budget
  BY DEF Budget
<1> QED
  BY <1>1 DEF Advances

\* The order of the places.
LEMMA Order ==
  /\ Ahead["scout"] = 14 /\ Ahead["planning"] = 13 /\ Ahead["plan"] = 12 /\ Ahead["rework"] = 11
  /\ Ahead["executing"] = 10 /\ Ahead["poll"] = 9 /\ Ahead["stalls"] = 8 /\ Ahead["dispatch"] = 7
  /\ Ahead["sleep"] = 6 /\ Ahead["reviewing"] = 5 /\ Ahead["review"] = 4 /\ Ahead["merging"] = 3
  /\ Ahead["merge"] = 2 /\ Ahead["completed"] = 1 /\ Ahead["partial_success"] = 1
  /\ Ahead["failed"] = 1 /\ Ahead["ended"] = 0
BY DEF Ahead

\* The steps that take from a budget.
LEMMA SpendingSteps ==
  ASSUME IInv, IInv', NEW s \in Subtask,
         \/ DispatchOk(s) \/ DispatchFails(s) \/ PollDead(s) \/ PollDone(s)
         \/ StallRetry(s) \/ StallExhausted(s) \/ GateRetry(s) \/ GateReject(s) \/ MergeFails(s)
  PROVE  Spends
<1>0. TypeOK /\ TypeOK' /\ TurnInv
  BY DEF IInv
<1>1. /\ Stage("pending") = 3 /\ Stage("running") = 2 /\ Stage("done") = 1 /\ Stage("failed") = 0
      /\ retry[s] \in Int /\ gateRetry[s] \in Int
  BY <1>0, EngineAssumption DEF Stage, TypeOK
<1> USE <1>0 DEF TypeOK, First, TurnInv, In
<1>2. CASE DispatchOk(s) \/ DispatchFails(s)
  <2>1. /\ st[s] = "pending" /\ st'[s] \in {"running", "failed"}
        /\ UNCHANGED <<retry, gateRetry>> /\ \A t \in Subtask \ {s} : UNCHANGED st[t]
    BY <1>2 DEF DispatchOk, DispatchFails, DispatchTurn, Dispatchable
  <2> QED
    BY <1>1, <2>1, SpendBy
<1>3. CASE PollDead(s) \/ PollDone(s)
  <2>1. /\ st[s] = "running" /\ st'[s] \in {"done", "failed"}
        /\ UNCHANGED <<retry, gateRetry>> /\ \A t \in Subtask \ {s} : UNCHANGED st[t]
    BY <1>3 DEF PollDead, PollDone, PollTurn, Settle
  <2> QED
    BY <1>1, <2>1, SpendBy
<1>4. CASE StallRetry(s)
  <2>1. /\ st[s] = "running" /\ st'[s] = "pending" /\ retry'[s] = retry[s] + 1
        /\ UNCHANGED gateRetry /\ \A t \in Subtask \ {s} : UNCHANGED <<st[t], retry[t]>>
    BY <1>4 DEF StallRetry, StallTurn
  <2> QED
    BY <1>1, <2>1, SpendBy
<1>5. CASE StallExhausted(s)
  <2>1. /\ st[s] = "running" /\ st'[s] = "failed"
        /\ UNCHANGED <<retry, gateRetry>> /\ \A t \in Subtask \ {s} : UNCHANGED st[t]
    BY <1>5 DEF StallExhausted, StallTurn
  <2> QED
    BY <1>1, <2>1, SpendBy
<1>6. CASE GateRetry(s)
  <2>1. /\ st[s] = "done" /\ st'[s] = "running" /\ gateRetry'[s] = gateRetry[s] + 1
        /\ UNCHANGED retry /\ \A t \in Subtask \ {s} : UNCHANGED <<st[t], gateRetry[t]>>
    BY <1>6 DEF GateRetry, ReviewTurn
  <2>2. Stage(st'[s]) < Stage(st[s]) + 2 * (retry'[s] - retry[s]) + 2 * (gateRetry'[s] - gateRetry[s])
    <3> HIDE DEF TypeOK
    <3>1. retry'[s] - retry[s] = 0 /\ gateRetry'[s] - gateRetry[s] = 1
      BY <1>1, <2>1
    <3> QED
      BY <1>1, <2>1, <3>1
  <2>3. \A t \in Subtask \ {s} : UNCHANGED <<st[t], retry[t], gateRetry[t]>>
    BY <2>1
  <2> QED
    BY <2>2, <2>3, SpendBy
<1>7. CASE GateReject(s) \/ MergeFails(s)
  <2>1. /\ st[s] = "done" /\ st'[s] = "failed"
        /\ UNCHANGED <<retry, gateRetry>> /\ \A t \in Subtask \ {s} : UNCHANGED st[t]
    BY <1>7 DEF GateReject, ReviewTurn, MergeFails, MergeTurn
  <2> QED
    BY <1>1, <2>1, SpendBy
<1> QED
  BY <1>2, <1>3, <1>4, <1>5, <1>6, <1>7

\* When the loop wakes somebody has grown older, who was not yet due.
LEMMA WakeAges ==
  ASSUME IInv, SilenceInv, Wake
  PROVE  Ages
<1>1. /\ quiet \in [Subtask -> Nat] /\ StallTicks \in Nat /\ UNCHANGED <<st, retry, gateRetry>>
      /\ quiet' = [s \in Subtask |-> IF st[s] = "running" /\ quiet[s] < 2 * StallTicks
                                      THEN quiet[s] + 1 ELSE quiet[s]]
  BY EngineAssumption DEF IInv, TypeOK, Wake
<1>2. PICK s \in In("running") : ~(quiet[s] >= Timeout(s))
  BY DEF SilenceInv, SilentNoticed, Wake
<1>3. quiet[s] < 2 * StallTicks
  BY <1>1, <1>2, TimeoutRange DEF In
<1>4. quiet'[s] # quiet[s]
  BY <1>1, <1>2, <1>3 DEF In
<1>5. \A t \in Subtask : quiet[t] <= quiet'[t]
  BY <1>1
<1>6. Budget' = Budget
  BY <1>1 DEF Budget
<1> QED
  BY <1>4, <1>5, <1>6 DEF Ages, Below

\* Reading a pane shows a chattering agent, or ends the turn of a silent one.
LEMMA BusyStep ==
  ASSUME IInv, NEW s \in Subtask, PollBusy(s)
  PROVE  Advances \/ Chatter
<1>1. /\ pc = "poll" /\ s \in todo /\ st[s] = "running" /\ quiet[s] \in Nat
      /\ quiet' \in {quiet, [quiet EXCEPT ![s] = 0]} /\ todo' = todo \ {s}
      /\ UNCHANGED <<runState, pc, reexec, st, retry, gateRetry>> /\ quiet \in [Subtask -> Nat]
  BY DEF PollBusy, PollTurn, Heartbeat, First, IInv, TypeOK, TurnInv, In, verdictVars
<1>2. CASE quiet' = quiet
  BY <1>1, <1>2, AdvanceBy DEF Place
<1>3. CASE quiet' # quiet
  <2>1. quiet'[s] = 0 /\ quiet[s] # 0
    BY <1>1, <1>3
  <2> QED
    BY <1>1, <2>1 DEF Chatter
<1> QED
  BY <1>2, <1>3

\* Every other step of the coroutine, and an exception, come nearer to the end.
LEMMA AdvancingSteps ==
  ASSUME IInv,
         \/ RunLoop \/ Scout \/ Plan \/ EndDispatch \/ EndPoll \/ EndStalls \/ EndReview \/ EndMerge
         \/ Raise \/ \E s \in Subtask : GatesPass(s) \/ MergeOk(s) \/ QueueConflict(s)
  PROVE  Advances
<1>0. /\ pc \in Phase /\ (pc = "scout" => runState = "scouting")
  BY DEF IInv, TypeOK, PhaseInv
<1> USE DEF Place, taskVars
<1>1. CASE EnterPlan
  <2>1. UNCHANGED <<st, retry, gateRetry, quiet>> /\ Place = "planning" /\ Place' = "plan"
    BY <1>1 DEF EnterPlan, Enter
  <2> QED
    BY <2>1, AdvanceBy, Order
<1>2. CASE EnterExecute
  <2>1. UNCHANGED <<st, retry, gateRetry, quiet>> /\ Place = "executing" /\ Place' = "dispatch"
    BY <1>2 DEF EnterExecute, Enter
  <2> QED
    BY <2>1, AdvanceBy, Order
<1>3. CASE EnterReview
  <2>1. UNCHANGED <<st, retry, gateRetry, quiet>> /\ Place = "reviewing" /\ Place' = "review"
    BY <1>3 DEF EnterReview, Enter
  <2> QED
    BY <2>1, AdvanceBy, Order
<1>4. CASE EnterMerge
  <2>1. UNCHANGED <<st, retry, gateRetry, quiet>> /\ Place = "merging" /\ Place' = "merge"
    BY <1>4 DEF EnterMerge, Enter
  <2> QED
    BY <2>1, AdvanceBy, Order
<1>5. CASE Finish
  <2>1. UNCHANGED <<st, retry, gateRetry, quiet>> /\ Place \in TerminalRun /\ Place' = "ended"
    BY <1>5 DEF Finish, Enter
  <2> QED
    BY <2>1, AdvanceBy, Order DEF TerminalRun
<1>6. CASE Scout
  <2>1. UNCHANGED <<st, retry, gateRetry, quiet>> /\ Place = "scout" /\ Place' = "planning"
    BY <1>6 DEF Scout, Return
  <2> QED
    BY <2>1, AdvanceBy, Order
<1>7. CASE Plan
  <2>1. UNCHANGED <<st, retry, gateRetry, quiet>> /\ Place = "plan" /\ Place' \in {"executing", "failed"}
    BY <1>7 DEF Plan, Return
  <2> QED
    BY <2>1, AdvanceBy, Order
<1>8. CASE EndDispatch
  <2>1. /\ UNCHANGED <<st, retry, gateRetry, quiet>>
        /\ Place = "dispatch" /\ Place' \in {"reviewing", "failed", "sleep"}
    BY <1>8 DEF EndDispatch, LeaveExecute, Return
  <2> QED
    BY <2>1, AdvanceBy, Order
<1>9. CASE EndPoll
  <2>1. UNCHANGED <<st, retry, gateRetry, quiet>> /\ Place = "poll" /\ Place' = "stalls"
    BY <1>9 DEF EndPoll
  <2> QED
    BY <2>1, AdvanceBy, Order
<1>10. CASE EndStalls
  <2>1. UNCHANGED <<st, retry, gateRetry, quiet>> /\ Place = "stalls" /\ Place' = "dispatch"
    BY <1>10 DEF EndStalls
  <2> QED
    BY <2>1, AdvanceBy, Order
<1>11. CASE EndReview
  <2>1. UNCHANGED <<st, retry, gateRetry, quiet>>
    BY <1>11 DEF EndReview
  <2>2. \/ Place = "rework" /\ Place' = "executing"
        \/ Place = "review" /\ Place' \in {"merging", "failed"}
    BY <1>11 DEF EndReview, Return
  <2> QED
    BY <2>1, <2>2, AdvanceBy, Order
<1>12. CASE EndMerge
  <2>1. UNCHANGED <<st, retry, gateRetry, quiet>> /\ Place = "merge" /\ Place' \in TerminalRun
    BY <1>12 DEF EndMerge, Return, TerminalRun
  <2> QED
    BY <2>1, AdvanceBy, Order DEF TerminalRun
<1>13. CASE Raise
  <2>1. UNCHANGED <<st, retry, gateRetry, quiet>> /\ Place' = "ended"
    BY <1>13 DEF Raise, PollAborts, QueueRaises, Cancel, Stop
  <2>2. pc \notin {"return", "ended"}
    BY <1>13 DEF Raise, PollAborts, QueueRaises, Cancel
  <2>3. Ahead[Place] > 0
    BY <1>0, <2>2, Order DEF Phase, PollLoop
  <2>4. Ahead[Place'] = 0
    BY <2>1, Order
  <2> QED
    BY <2>1, <2>3, <2>4, AdvanceBy
<1>14. ASSUME NEW s \in Subtask, GatesPass(s) \/ MergeOk(s) \/ QueueConflict(s) PROVE Advances
  <2>1. /\ UNCHANGED <<st, retry, gateRetry, quiet, runState, pc, reexec>>
        /\ s \in todo /\ todo' = todo \ {s}
    BY <1>14 DEF GatesPass, ReviewTurn, MergeOk, QueueConflict, MergeTurn, First
  <2> QED
    BY <2>1, AdvanceBy
<1> QED
  BY <1>1, <1>2, <1>3, <1>4, <1>5, <1>6, <1>7, <1>8, <1>9, <1>10, <1>11, <1>12, <1>13, <1>14
  DEF RunLoop

\* Each step of the coroutine spends a budget, ages a silent agent or advances, unless
\* an agent chatters; agents give nothing back.  Budgets, ages and places cannot fall
\* for ever, so that without chatter the coroutine takes only finitely many steps,
\* whatever the plan, the limits and the calls that fail.
THEOREM CoroutineNeverSpins == Spec => NeverSpins
<1> DEFINE Core == \/ Spends \/ Ages \/ Advances \/ Chatter
                   \/ Agents /\ UNCHANGED <<Budget, quiet, Place, todo>>
<1>1. IInv /\ IInv' /\ SilenceInv /\ [Next]_vars => [Core]_vars
  <2> SUFFICES ASSUME IInv, IInv', SilenceInv, Next PROVE Core \/ UNCHANGED vars
    OBVIOUS
  <2>1. CASE Agents
    <3>1. UNCHANGED <<Budget, quiet, Place, todo>>
      BY <2>1 DEF Agents, ForeignCleanup, Edit, Commit, Exit, loopVars, taskVars, verdictVars,
                  Budget, Place
    <3> QED
      BY <2>1, <3>1
  <2>2. CASE Execute
    BY <2>2, SpendingSteps, WakeAges, BusyStep, AdvancingSteps DEF Execute
  <2>3. CASE Review \/ Merge
    BY <2>3, SpendingSteps, AdvancingSteps DEF Review, Merge
  <2>4. CASE RunLoop \/ Scout \/ Plan \/ Raise
    BY <2>4, AdvancingSteps
  <2> QED
    BY <2>1, <2>2, <2>3, <2>4 DEF Next, Coroutine, Ended
<1> QED
  BY Invariance, SilenceInvariance, <1>1, PTL DEF NeverSpins, Spec

-----------------------------------------------------------------------------
(* Every step of the engine is a step of RunLifecycle *)

\* The variables of RunLifecycle, as the engine implements them.
lifeVars == <<mode.partial, runState, deps, st, Approved, OnMain, pc = "ended">>

\* Steps that show nothing of themselves.
LEMMA LifeStutter ==
  ASSUME UNCHANGED <<mode, runState, deps, st, gated, landed>>, (pc = "ended")' = (pc = "ended")
  PROVE  UNCHANGED lifeVars
BY DEF lifeVars, Approved, OnMain

\* A step of _execute starts or settles a subtask, submits the run to review, or
\* gives it up.
LEMMA LifeExecute ==
  ASSUME RunInv, Execute
  PROVE  [Lifecycle!Next]_lifeVars
<1>0. TypeOK /\ TurnInv /\ PhaseInv
  BY DEF RunInv, IInv
<1>1. pc \in PollLoop /\ runState = "executing" /\ UNCHANGED <<mode, gated, landed>>
  <2>1. CASE EndDispatch
    BY <1>0, <2>1 DEF EndDispatch, PhaseInv, PollLoop, setup, historyVars
  <2> QED
    BY <2>1, LoopStep DEF RunInv
<1>2. pc # "ended" /\ pc' # "ended" /\ Approved' = Approved /\ OnMain' = OnMain
  <2>1. pc # "ended" /\ pc' # "ended"
    BY <1>1, LoopStep DEF RunInv, PollLoop
  <2> QED
    BY <1>1, <2>1 DEF Approved, OnMain
<1>3. ASSUME NEW s \in Subtask, NEW from, NEW to, st[s] = from, st' = [st EXCEPT ![s] = to],
             UNCHANGED <<deps, runState>>
      PROVE  Lifecycle!Move(s, "executing", from, to)
  BY <1>1, <1>2, <1>3 DEF Lifecycle!Move
<1>4. ASSUME NEW s \in Subtask, NEW to \in {"running", "failed"}, DispatchTurn(s),
             st' = [st EXCEPT ![s] = to]
      PROVE  Lifecycle!Start(s)
  <2>1. st[s] = "pending" /\ UNCHANGED <<deps, runState>> /\ deps[s] \subseteq Lifecycle!In("done")
    BY <1>0, <1>4 DEF DispatchTurn, Dispatchable, DepsMet, In, Lifecycle!In, setup
  <2>2. Lifecycle!Move(s, "executing", "pending", to)
    BY <1>3, <1>4, <2>1
  <2> QED
    BY <1>2, <2>1, <2>2 DEF Lifecycle!Start
<1>5. ASSUME NEW s \in Subtask, NEW to \in {"done", "failed", "pending"}, s \in todo,
             pc \in {"poll", "stalls"}, st' = [st EXCEPT ![s] = to], UNCHANGED <<deps, runState>>
      PROVE  Lifecycle!Settle(s)
  <2>1. st[s] = "running"
    BY <1>0, <1>5 DEF TurnInv, In
  <2>2. Lifecycle!Move(s, "executing", "running", to)
    BY <1>3, <1>5, <2>1
  <2> QED
    BY <1>2, <1>5, <2>2 DEF Lifecycle!Settle
<1>6. ASSUME NEW s \in Subtask, DispatchOk(s) \/ DispatchFails(s)
      PROVE  Lifecycle!Start(s)
  BY <1>4, <1>6 DEF DispatchOk, DispatchFails
<1>7. ASSUME NEW s \in Subtask, PollDead(s) \/ PollDone(s)
      PROVE  Lifecycle!Settle(s)
  <2>1. PICK to \in {"done", "failed"} : st' = [st EXCEPT ![s] = to]
    BY <1>7 DEF PollDead, PollDone, Settle
  <2>2. s \in todo /\ pc = "poll" /\ UNCHANGED <<deps, runState>>
    BY <1>7 DEF PollDead, PollDone, PollTurn, First, setup
  <2> QED
    BY <1>5, <2>1, <2>2
<1>8. ASSUME NEW s \in Subtask, StallRetry(s) \/ StallExhausted(s)
      PROVE  Lifecycle!Settle(s)
  <2>1. PICK to \in {"pending", "failed"} : st' = [st EXCEPT ![s] = to]
    BY <1>8 DEF StallRetry, StallExhausted
  <2>2. s \in todo /\ pc = "stalls" /\ UNCHANGED <<deps, runState>>
    BY <1>8 DEF StallRetry, StallExhausted, StallTurn, First, setup
  <2> QED
    BY <1>5, <2>1, <2>2
<1>9. CASE Wake \/ EndPoll \/ EndStalls \/ \E s \in Subtask : PollBusy(s)
  <2>1. UNCHANGED <<deps, runState, st>>
    BY <1>9 DEF Wake, EndPoll, EndStalls, PollBusy, PollTurn, setup, taskVars
  <2> QED
    BY <1>1, <1>2, <2>1, LifeStutter
<1>10. CASE EndDispatch
  <2>1. UNCHANGED <<deps, st>>
    BY <1>10 DEF EndDispatch, setup, taskVars
  <2>2. CASE runState' = runState
    BY <1>1, <1>2, <2>1, <2>2, LifeStutter
  <2>3. CASE runState' = "failed"
    BY <1>1, <1>2, <2>1, <2>3 DEF Lifecycle!Next, Lifecycle!GiveUp, Lifecycle!Goto, Lifecycle!Active
  <2>4. CASE runState' = "reviewing"
    <3>1. In("done") \cup In("failed") = Subtask /\ (mode.partial \/ In("failed") = {})
      BY <1>1, <1>10, <2>4 DEF EndDispatch, LeaveExecute, Return
    <3>2. Lifecycle!Submit
      BY <1>1, <1>2, <2>1, <2>4, <3>1 DEF Lifecycle!Submit, Lifecycle!Goto, Lifecycle!In, In
    <3> QED
      BY <3>2 DEF Lifecycle!Next
  <2> QED
    BY <1>10, <2>2, <2>3, <2>4 DEF EndDispatch, LeaveExecute, Return
<1> QED
  BY <1>6, <1>7, <1>8, <1>9, <1>10 DEF Execute, Lifecycle!Next

\* A step of _review approves or rejects a subtask, sends the run back, accepts it
\* or gives it up.
LEMMA LifeReview ==
  ASSUME RunInv, Review
  PROVE  [Lifecycle!Next]_lifeVars
<1>0. TypeOK /\ ReviewInv /\ PlaceInv /\ IInv /\ LifeInv
  BY DEF RunInv, IInv, LifeInv
<1>1. ASSUME NEW s \in Subtask, GatesPass(s) \/ GateRetry(s) \/ GateReject(s)
      PROVE  /\ pc # "ended" /\ pc' # "ended" /\ runState = "reviewing" /\ UNCHANGED runState
             /\ st[s] = "done" /\ s \notin Approved
             /\ UNCHANGED <<mode, deps>> /\ OnMain' = OnMain
  BY <1>0, <1>1, ReviewShape DEF OnMain
<1>2. ASSUME NEW s \in Subtask, GatesPass(s)
      PROVE  Lifecycle!Approve(s)
  BY <1>0, <1>1, <1>2, PassShape DEF Lifecycle!Approve
<1>3. ASSUME NEW s \in Subtask, GateRetry(s) \/ GateReject(s)
      PROVE  Lifecycle!Reject(s)
  <2>1. PICK to \in {"running", "failed"} : st' = [st EXCEPT ![s] = to]
    BY <1>0, <1>3, SendBackShape, RejectShape
  <2>2. Approved' = Approved
    BY <1>0, <1>3, SendBackShape, RejectShape DEF Approved
  <2> QED
    BY <1>1, <1>3, <2>1, <2>2 DEF Lifecycle!Reject, Lifecycle!Move
<1>4. CASE EndReview
  <2>1. /\ pc = "review" /\ runState = "reviewing" /\ todo = {} /\ pc' = "return"
        /\ UNCHANGED <<mode, deps, st, landed>>
        /\ gated' = IF reexec THEN None ELSE gated
        /\ runState' = IF reexec THEN "executing"
                       ELSE IF allPassed \/ (mode.partial /\ anyPassed) THEN "merging"
                       ELSE "failed"
    BY <1>0, <1>4 DEF EndReview, Return, PlaceInv, setup, taskVars
  <2>2. OnMain' = OnMain
    BY <2>1 DEF OnMain
  <2>3. CASE reexec
    <3>1. Approved' = {} /\ In("running") # {}
      BY <1>0, <2>1, <2>3 DEF Approved, None, ReviewInv
    <3>2. Lifecycle!Rework
      BY <2>1, <2>2, <2>3, <3>1 DEF Lifecycle!Rework, Lifecycle!Goto, Lifecycle!In, In
    <3> QED
      BY <3>2 DEF Lifecycle!Next
  <2>4. CASE ~reexec
    <3>1. Approved' = Approved /\ Approved = In("done") /\ In("running") = {} /\ In("pending") = {}
          /\ (allPassed => mode.partial \/ In("failed") = {})
      BY <1>0, <2>1, <2>4 DEF Approved, ReviewInv
    <3>2. In("done") \cup In("failed") = Subtask
      BY <1>0, <3>1 DEF In, TypeOK, SubtaskState
    <3>3. CASE runState' = "merging"
      <4>1. mode.partial \/ In("done") = Subtask
        BY <2>1, <2>4, <3>1, <3>2, <3>3
      <4>2. Lifecycle!Accept
        BY <2>1, <2>2, <3>1, <3>3, <4>1 DEF Lifecycle!Accept, Lifecycle!Goto, Lifecycle!In, In
      <4> QED
        BY <4>2 DEF Lifecycle!Next
    <3>4. CASE runState' = "failed"
      BY <2>1, <2>2, <3>1, <3>4
      DEF Lifecycle!Next, Lifecycle!GiveUp, Lifecycle!Goto, Lifecycle!Active
    <3> QED
      BY <2>1, <2>4, <3>3, <3>4
  <2> QED
    BY <2>3, <2>4
<1> QED
  BY <1>2, <1>3, <1>4 DEF Review, Lifecycle!Next

\* A step of _merge lands a subtask or bounces it, leaves it in conflict, or ends the
\* run.
LEMMA LifeMerge ==
  ASSUME RunInv, Promised, Merge
  PROVE  [Lifecycle!Next]_lifeVars
<1>0. TypeOK /\ ReviewInv /\ PlaceInv /\ MergeInv /\ IInv /\ LifeInv
  BY DEF RunInv, IInv, LifeInv
<1>1. ASSUME NEW s \in Subtask, MergeOk(s)
      PROVE  Lifecycle!Land(s)
  <2>1. /\ pc = "merge" /\ runState = "merging" /\ st[s] = "done" /\ s \in Approved
        /\ OnMain' = OnMain \cup {s} /\ UNCHANGED <<mode, deps, gated, runState, pc, st>>
    BY <1>0, <1>1, MergeShape, LandShape DEF Promised, In
  <2> QED
    BY <2>1 DEF Lifecycle!Land, Approved
<1>2. ASSUME NEW s \in Subtask, MergeFails(s)
      PROVE  Lifecycle!Bounce(s)
  <2>1. /\ pc = "merge" /\ runState = "merging" /\ st[s] = "done" /\ s \notin OnMain
        /\ UNCHANGED <<mode, deps, gated>>
    BY <1>0, <1>2, MergeShape DEF In
  <2>2. /\ st' = [st EXCEPT ![s] = "failed"] /\ UNCHANGED landed /\ pc' # "ended"
        /\ runState' = IF mode.partial THEN runState ELSE "failed"
    BY <1>2, <2>1 DEF MergeFails, Return
  <2> QED
    BY <2>1, <2>2 DEF Lifecycle!Bounce, Lifecycle!Move, Approved, OnMain
<1>3. ASSUME NEW s \in Subtask, QueueConflict(s)
      PROVE  UNCHANGED lifeVars
  BY <1>0, <1>3, MergeShape, LifeStutter DEF QueueConflict
<1>4. CASE EndMerge
  <2>1. /\ pc = "merge" /\ runState = "merging" /\ todo = {} /\ pc' = "return"
        /\ UNCHANGED <<mode, deps, st, gated, landed>>
        /\ runState' = IF mergeFailed /\ ~mode.partial THEN "failed"
                       ELSE IF mode.partial /\ In("failed") # {} THEN "partial_success"
                       ELSE "completed"
    BY <1>0, <1>4 DEF EndMerge, Return, PlaceInv, setup, taskVars, historyVars
  <2>2. OnMain' = OnMain /\ Approved' = Approved
    BY <2>1 DEF OnMain, Approved
  <2>3. CASE mergeFailed /\ ~mode.partial
    BY <2>1, <2>2, <2>3 DEF Lifecycle!Next, Lifecycle!GiveUp, Lifecycle!Goto, Lifecycle!Active
  <2>4. CASE ~(mergeFailed /\ ~mode.partial)
    <3>1. ~mergeFailed
      BY <1>0, <2>1, <2>4 DEF MergeInv, Promised
    <3>2. OnMain = In("done")
      BY <1>0, <2>1, <3>1 DEF MergeInv, Promised
    <3>3. CASE mode.partial /\ In("failed") # {}
      <4>1. Lifecycle!CompletePartially
        BY <2>1, <2>2, <2>4, <3>2, <3>3
        DEF Lifecycle!CompletePartially, Lifecycle!Goto, Lifecycle!In, In
      <4> QED
        BY <4>1 DEF Lifecycle!Next
    <3>4. CASE ~(mode.partial /\ In("failed") # {})
      <4>1. In("done") = Subtask
        BY <1>0, <2>1, <3>4 DEF ReviewInv
      <4>2. Lifecycle!Complete
        BY <2>1, <2>2, <2>4, <3>2, <3>4, <4>1 DEF Lifecycle!Complete, Lifecycle!Goto
      <4> QED
        BY <4>2 DEF Lifecycle!Next
    <3> QED
      BY <3>3, <3>4
  <2> QED
    BY <2>3, <2>4
<1> QED
  BY <1>1, <1>2, <1>3, <1>4 DEF Merge, Lifecycle!Next

\* Every step of the engine is a step of RunLifecycle, or leaves it alone.
LEMMA LifeStep ==
  ASSUME RunInv, Promised, [Next]_vars
  PROVE  [Lifecycle!Next]_lifeVars
<1>0. PhaseInv
  BY DEF RunInv, IInv
<1>1. CASE EnterPlan \/ EnterExecute \/ EnterReview \/ EnterMerge
  <2>1. UNCHANGED <<mode, runState, deps, st, gated, landed>> /\ pc # "ended" /\ pc' # "ended"
    BY <1>1 DEF EnterPlan, EnterExecute, EnterReview, EnterMerge, Enter, setup, taskVars, historyVars
  <2> QED
    BY <2>1, LifeStutter
<1>2. ASSUME UNCHANGED <<mode, runState, deps, st, gated, landed>>, pc # "ended", pc' = "ended"
      PROVE  Lifecycle!Next
  BY <1>2 DEF Lifecycle!Next, Lifecycle!End, Approved, OnMain
<1>3. CASE Finish \/ Raise
  <2>1. CASE Finish
    BY <1>2, <2>1 DEF Finish, Enter, setup, taskVars, historyVars
  <2>2. CASE Raise
    BY <1>2, <2>2, RaiseShape
  <2> QED
    BY <1>3, <2>1, <2>2
<1>4. CASE Scout
  <2>1. /\ runState = "scouting" /\ pc = "scout" /\ runState' = "planning" /\ pc' = "return"
        /\ UNCHANGED <<mode, deps, st, gated, landed>>
    BY <1>0, <1>4 DEF Scout, Return, PhaseInv, setup, taskVars, historyVars
  <2>2. Lifecycle!Scouted
    BY <2>1 DEF Lifecycle!Scouted, Lifecycle!Goto, Approved, OnMain
  <2> QED
    BY <2>2 DEF Lifecycle!Next
<1>5. CASE Plan
  <2>1. /\ runState = "planning" /\ pc = "plan" /\ pc' = "return"
        /\ UNCHANGED <<mode, st, gated, landed>>
        /\ \/ runState' = "executing" /\ deps' \in DepChoices
           \/ runState' = "failed" /\ UNCHANGED deps
    BY <1>0, <1>5 DEF Plan, Return, PhaseInv, taskVars, historyVars
  <2>2. CASE runState' = "executing"
    BY <2>1, <2>2 DEF Lifecycle!Next, Lifecycle!Planned, Lifecycle!Goto, Approved, OnMain
  <2>3. CASE runState' = "failed"
    BY <2>1, <2>3
    DEF Lifecycle!Next, Lifecycle!GiveUp, Lifecycle!Goto, Lifecycle!Active, Approved, OnMain
  <2> QED
    BY <2>1, <2>2, <2>3
<1>6. CASE Agents \/ UNCHANGED vars
  BY <1>6, AgentsShape, LifeStutter
<1> QED
  BY <1>1, <1>3, <1>4, <1>5, <1>6, LifeExecute, LifeReview, LifeMerge
  DEF Next, Coroutine, RunLoop, Ended

\* The engine implements RunLifecycle, for any number of subtasks, plan, budget and
\* limit, whatever agents and other runs do, where git commits what it is asked to
\* and unless a merge queue is combined with partial success.
THEOREM EngineImplementsLifecycle ==
  Spec /\ Promised => ImplementsLifecycle
<1>1. Init => Lifecycle!Init
  BY EngineAssumption DEF Init, None, Lifecycle!Init, Approved, OnMain
<1>2. Promised /\ RunInv /\ [Next]_vars => Promised'
  <2> SUFFICES ASSUME Promised, RunInv, [Next]_vars PROVE mode' = mode
    BY DEF Promised
  <2>1. CASE Execute
    <3>1. CASE EndDispatch
      BY <3>1 DEF EndDispatch, setup
    <3> QED
      BY <2>1, <3>1, LoopStep DEF RunInv
  <2>2. CASE Review \/ Merge
    <3>1. CASE EndReview \/ EndMerge
      BY <3>1 DEF EndReview, EndMerge, setup
    <3> QED
      BY <2>2, <3>1, ReviewShape, MergeShape DEF RunInv, Review, Merge
  <2>3. CASE RunLoop \/ Scout \/ Plan
    BY <2>3 DEF RunLoop, EnterPlan, EnterExecute, EnterReview, EnterMerge, Finish, Enter, Scout,
                Plan, setup
  <2>4. CASE Raise \/ Agents \/ UNCHANGED vars
    BY <2>4, RaiseShape, AgentsShape
  <2> QED
    BY <2>1, <2>2, <2>3, <2>4 DEF Next, Coroutine, Ended
<1>3. RunInv /\ Promised /\ [Next]_vars => [Lifecycle!Next]_lifeVars
  BY LifeStep
<1> QED
  BY <1>1, <1>2, <1>3, RunInvariance, PTL
  DEF Spec, ImplementsLifecycle, Lifecycle!Spec, Lifecycle!vars, lifeVars
=============================================================================
