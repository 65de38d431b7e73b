-------------------------- MODULE AgentPoolProofs --------------------------
(***************************************************************************)
(* Proofs, for every set of runs and agents and any number of attempts, of *)
(* the safety of the AgentPool: PoolInv is an inductive invariant.         *)
(***************************************************************************)
EXTENDS AgentPoolProperties, TLAPS

\* Initially every run works and nothing is spawned.
LEMMA PoolInit == Init => PoolInv
<1> SUFFICES ASSUME Init PROVE PoolInv
  OBVIOUS
<1>1. TypeOK
  BY PoolAssumption DEF Init, TypeOK, Phase, Op, Rest, Attempt
<1>2. OpInv /\ SessionInv /\ TreeInv
  BY DEF Init, OpInv, SessionInv, TreeInv, Rest
<1>3. SweepInv /\ OneAtATime /\ CleaningInv /\ NothingRegisteredLeft
  BY PoolAssumption DEF Init, SweepInv, OneAtATime, CleaningInv, NothingRegisteredLeft
<1> QED
  BY <1>1, <1>2, <1>3 DEF PoolInv

-----------------------------------------------------------------------------
(* Each part of PoolInv is kept by every step *)

\* What a kill and a removal may leave of the two tables of names.
LEMMA KillShape ==
  ASSUME TypeOK, NEW a \in Agent, NEW s \in Op, NEW t \in Op, KillSession(a, s, t)
  PROVE  /\ session' \in [Agent -> 0 .. Attempts] /\ stuck' \subseteq Agent
         /\ op' \in [Agent -> Op] /\ UNCHANGED tries
<1>1. 0 \in 0 .. Attempts
  BY PoolAssumption
<1>2. CASE session' = Sets(session, a, 0) /\ Goto(a, s) /\ UNCHANGED stuck
  BY <1>1, <1>2 DEF Sets, Goto, TypeOK
<1>3. CASE Goto(a, t) /\ stuck' = stuck \cup {a} /\ UNCHANGED session
  BY <1>3 DEF Goto, TypeOK
<1> QED
  BY <1>2, <1>3 DEF KillSession

\* What removing a worktree changes.
LEMMA RemoveShape ==
  ASSUME TypeOK, NEW a \in Agent, RemoveTree(a)
  PROVE  tree' \in [Agent -> 0 .. Attempts] /\ stuck' \subseteq Agent
<1>1. 0 \in 0 .. Attempts
  BY PoolAssumption
<1>2. CASE tree' = Sets(tree, a, 0) /\ UNCHANGED stuck
  BY <1>1, <1>2 DEF Sets, TypeOK
<1>3. CASE stuck' = stuck \cup {a} /\ UNCHANGED tree
  BY <1>3 DEF TypeOK
<1> QED
  BY <1>2, <1>3 DEF RemoveTree

\* Every step keeps runs, agents, rows and what they stand for well typed.
LEMMA PoolTypeStep == PoolInv /\ [Next]_vars => TypeOK'
<1> SUFFICES ASSUME PoolInv, [Next]_vars PROVE TypeOK'
  OBVIOUS
<1>0. TypeOK
  BY DEF PoolInv
<1> USE <1>0, PoolAssumption DEF TypeOK, Phase, Op, Rest, Attempt, cleaning, spawning, world
<1>1. ASSUME NEW a \in Agent, Operation(a) PROVE TypeOK'
  <2>1. CASE Spawn(a)
    BY <2>1 DEF Spawn, Calls
  <2>2. CASE Create(a)
    <3>1. 0 \in 0 .. Attempts /\ tries[a] \in 0 .. Attempts
      OBVIOUS
    <3>2. tree' \in [Agent -> 0 .. Attempts]
      BY <2>2, <3>1 DEF Create, Sets
    <3>3. op' \in [Agent -> Op] /\ UNCHANGED tries
      BY <2>2 DEF Create, Goto
    <3> QED
      BY <2>2, <3>2, <3>3 DEF Create
  <2>3. CASE Start(a)
    BY <2>3 DEF Start, Goto, Sets
  <2>4. CASE Ready(a)
    BY <2>4 DEF Ready, Goto, Mark
  <2>5. CASE NotReady(a)
    BY <2>5 DEF NotReady, Goto
  <2>6. CASE Expire(a)
    BY <2>6, KillShape DEF Expire
  <2>7. CASE Discard(a)
    BY <2>7, RemoveShape DEF Discard, Goto
  <2>8. CASE Send(a) \/ Enter(a) \/ Sent(a)
    <3>1. CASE Send(a)
      BY <3>1 DEF Send, Goto
    <3>2. CASE Enter(a)
      BY <3>2 DEF Enter, Goto
    <3>3. CASE Sent(a)
      BY <3>3 DEF Sent, Goto, Mark
    <3> QED
      BY <2>8, <3>1, <3>2, <3>3
  <2>9. CASE SendFails(a)
    BY <2>9 DEF SendFails, Goto
  <2>10. CASE SendAgain(a)
    BY <2>10 DEF SendAgain, Calls, Goto
  <2>11. CASE CheckStatus(a)
    BY <2>11 DEF CheckStatus, Calls, Mark, State, Alive
  <2>12. CASE Respawn(a)
    BY <2>12, KillShape DEF Respawn
  <2>13. CASE Release(a)
    BY <2>13 DEF Release, Calls, Goto
  <2>14. CASE Kill(a)
    BY <2>14, KillShape DEF Kill
  <2>15. CASE Remove(a)
    <3>1. tree' \in [Agent -> 0 .. Attempts] /\ stuck' \subseteq Agent
      BY <2>15, RemoveShape DEF Remove
    <3>2. op' \in [Agent -> Op] /\ UNCHANGED tries
      BY <2>15 DEF Remove, Goto
    <3> QED
      BY <2>15, <3>1, <3>2 DEF Remove, Mark
  <2> QED
    BY <1>1, <2>1, <2>2, <2>3, <2>4, <2>5, <2>6, <2>7, <2>8,
       <2>9, <2>10, <2>11, <2>12, <2>13, <2>14, <2>15 DEF Operation
<1>2. ASSUME NEW a \in Agent, Exit(a) PROVE TypeOK'
  BY <1>2 DEF Exit, Sets
<1>3. ASSUME NEW r \in Run, EndRun(r) PROVE TypeOK'
  BY <1>3 DEF EndRun, Rows
<1>4. ASSUME NEW r \in Run, EndSweep(r) PROVE TypeOK'
  BY <1>4 DEF EndSweep
<1>5. ASSUME NEW r \in Run, NEW a \in Agent, RemoveOld(r, a) PROVE TypeOK'
  BY <1>5, RemoveShape DEF RemoveOld
<1>6. ASSUME NEW r \in Run, NEW a \in Agent, NEW k \in Attempt, SweepKill(r, a, k) PROVE TypeOK'
  <2>1. 0 \in 0 .. Attempts
    OBVIOUS
  <2>4. session' \in [Agent -> 0 .. Attempts] /\ stuck' \subseteq Agent
    <3>1. CASE session' = Sets(session, a, 0) /\ UNCHANGED stuck
      BY <2>1, <3>1 DEF Sets
    <3>2. CASE stuck' = stuck \cup {a} /\ UNCHANGED session
      BY <3>2
    <3> QED
      BY <1>6, <3>1, <3>2 DEF SweepKill
  <2>5. sweep' \in [Run -> SUBSET (Agent \X Attempt)]
    <3>1. sweep[r] \ {<<a, k>>} \in SUBSET (Agent \X Attempt)
      OBVIOUS
    <3> QED
      BY <1>6, <3>1 DEF SweepKill
  <2>6. removing' \in [Run -> SUBSET (Agent \X Attempt)]
    <3>1. {<<a, k>>} \in SUBSET (Agent \X Attempt)
      OBVIOUS
    <3> QED
      BY <1>6, <3>1 DEF SweepKill
  <2> QED
    BY <1>6, <2>4, <2>5, <2>6 DEF SweepKill
<1>7. ASSUME NEW r \in Run, NEW a \in Agent, NEW k \in Attempt, SweepRemove(r, a, k) PROVE TypeOK'
  BY <1>7, RemoveShape DEF SweepRemove, Mark
<1>8. ASSUME NEW r \in Run, Crash(r) PROVE TypeOK'
  BY <1>8 DEF Crash
<1>9. CASE UNCHANGED vars
  BY <1>9 DEF vars
<1> QED
  BY <1>1, <1>2, <1>3, <1>4, <1>5, <1>6, <1>7, <1>8, <1>9 DEF Next, Cleanup

\* Only a working run begins or goes on with an operation; its end gives it up.
LEMMA OpStep == PoolInv /\ [Next]_vars => OpInv'
<1> SUFFICES ASSUME PoolInv, [Next]_vars PROVE OpInv'
  OBVIOUS
<1>0. TypeOK /\ OpInv
  BY DEF PoolInv
<1> USE <1>0, PoolAssumption DEF TypeOK, Phase, Op, Rest, Attempt, cleaning, spawning, world, OpInv
<1>1. ASSUME NEW a \in Agent, Operation(a) PROVE OpInv'
  <2>1. CASE Spawn(a)
    BY <2>1 DEF Spawn, Calls
  <2>2. CASE Create(a)
    BY <2>2 DEF Create, Goto, Sets
  <2>3. CASE Start(a)
    BY <2>3 DEF Start, Goto, Sets
  <2>4. CASE Ready(a)
    BY <2>4 DEF Ready, Goto, Mark
  <2>5. CASE NotReady(a)
    BY <2>5 DEF NotReady, Goto
  <2>6. CASE Expire(a)
    BY <2>6 DEF Expire, KillSession, Goto, Sets
  <2>7. CASE Discard(a)
    BY <2>7 DEF Discard, RemoveTree, Goto, Sets
  <2>8. CASE Send(a) \/ Enter(a) \/ Sent(a)
    BY <2>8 DEF Send, Enter, Sent, Goto, Mark
  <2>9. CASE SendFails(a)
    BY <2>9 DEF SendFails, Goto
  <2>10. CASE SendAgain(a)
    BY <2>10 DEF SendAgain, Calls, Goto
  <2>11. CASE CheckStatus(a)
    BY <2>11 DEF CheckStatus, Calls, Mark, State, Alive
  <2>12. CASE Respawn(a)
    BY <2>12 DEF Respawn, KillSession, Calls, Goto, Sets, State
  <2>13. CASE Release(a)
    BY <2>13 DEF Release, Calls, Goto
  <2>14. CASE Kill(a)
    BY <2>14 DEF Kill, KillSession, Goto, Sets
  <2>15. CASE Remove(a)
    BY <2>15 DEF Remove, RemoveTree, Goto, Sets, Mark
  <2> QED
    BY <1>1, <2>1, <2>2, <2>3, <2>4, <2>5, <2>6, <2>7, <2>8,
       <2>9, <2>10, <2>11, <2>12, <2>13, <2>14, <2>15 DEF Operation
<1>2. ASSUME NEW a \in Agent, Exit(a) PROVE OpInv'
  BY <1>2 DEF Exit, Sets
<1>3. ASSUME NEW r \in Run, EndRun(r) PROVE OpInv'
  BY <1>3 DEF EndRun
<1>4. ASSUME NEW r \in Run, EndSweep(r) PROVE OpInv'
  BY <1>4 DEF EndSweep
<1>5. ASSUME NEW r \in Run, NEW a \in Agent, RemoveOld(r, a) PROVE OpInv'
  BY <1>5 DEF RemoveOld, RemoveTree, Sets
<1>6. ASSUME NEW r \in Run, NEW a \in Agent, NEW k \in Attempt, SweepKill(r, a, k) PROVE OpInv'
  BY <1>6 DEF SweepKill, Sets
<1>7. ASSUME NEW r \in Run, NEW a \in Agent, NEW k \in Attempt, SweepRemove(r, a, k) PROVE OpInv'
  BY <1>7 DEF SweepRemove, RemoveTree, Sets, Mark
<1>8. ASSUME NEW r \in Run, Crash(r) PROVE OpInv'
  BY <1>8 DEF Crash
<1>9. CASE UNCHANGED vars
  BY <1>9 DEF vars
<1> QED
  BY <1>1, <1>2, <1>3, <1>4, <1>5, <1>6, <1>7, <1>8, <1>9 DEF Next, Cleanup

\* A session that is there when an attempt is ready is that attempt's.
LEMMA SessionStep == PoolInv /\ [Next]_vars => SessionInv'
<1> SUFFICES ASSUME PoolInv, [Next]_vars PROVE SessionInv'
  OBVIOUS
<1>0. TypeOK /\ SessionInv
  BY DEF PoolInv
<1> USE <1>0, PoolAssumption DEF TypeOK, Phase, Op, Rest, Attempt, cleaning, spawning, world, SessionInv
<1>1. ASSUME NEW a \in Agent, Operation(a) PROVE SessionInv'
  <2>1. CASE Spawn(a)
    BY <2>1 DEF Spawn, Calls
  <2>2. CASE Create(a)
    BY <2>2 DEF Create, Goto, Sets
  <2>3. CASE Start(a)
    <3>1. UNCHANGED tries /\ \A b \in Agent \ {a} : op'[b] = op[b] /\ session'[b] = session[b]
      BY <2>3 DEF Start, Goto, Sets
    <3>2. op'[a] = "given_up" \/ (op'[a] = "ready" /\ session'[a] = tries[a])
      BY <2>3 DEF Start, Goto, Sets
    <3> QED
      BY <3>1, <3>2
  <2>4. CASE Ready(a)
    BY <2>4 DEF Ready, Goto, Mark
  <2>5. CASE NotReady(a)
    BY <2>5 DEF NotReady, Goto
  <2>6. CASE Expire(a)
    BY <2>6 DEF Expire, KillSession, Goto, Sets
  <2>7. CASE Discard(a)
    BY <2>7 DEF Discard, RemoveTree, Goto, Sets
  <2>8. CASE Send(a) \/ Enter(a) \/ Sent(a)
    <3>1. CASE Send(a)
      BY <3>1 DEF Send, Goto
    <3>2. CASE Enter(a)
      BY <3>2 DEF Enter, Goto
    <3>3. CASE Sent(a)
      BY <3>3 DEF Sent, Goto, Mark
    <3> QED
      BY <2>8, <3>1, <3>2, <3>3
  <2>9. CASE SendFails(a)
    BY <2>9 DEF SendFails, Goto
  <2>10. CASE SendAgain(a)
    BY <2>10 DEF SendAgain, Calls, Goto
  <2>11. CASE CheckStatus(a)
    BY <2>11 DEF CheckStatus, Calls, Mark, State, Alive
  <2>12. CASE Respawn(a)
    BY <2>12 DEF Respawn, KillSession, Calls, Goto, Sets, State
  <2>13. CASE Release(a)
    BY <2>13 DEF Release, Calls, Goto
  <2>14. CASE Kill(a)
    BY <2>14 DEF Kill, KillSession, Goto, Sets
  <2>15. CASE Remove(a)
    BY <2>15 DEF Remove, RemoveTree, Goto, Sets, Mark
  <2> QED
    BY <1>1, <2>1, <2>2, <2>3, <2>4, <2>5, <2>6, <2>7, <2>8,
       <2>9, <2>10, <2>11, <2>12, <2>13, <2>14, <2>15 DEF Operation
<1>2. ASSUME NEW a \in Agent, Exit(a) PROVE SessionInv'
  BY <1>2 DEF Exit, Sets
<1>3. ASSUME NEW r \in Run, EndRun(r) PROVE SessionInv'
  BY <1>3 DEF EndRun
<1>4. ASSUME NEW r \in Run, EndSweep(r) PROVE SessionInv'
  BY <1>4 DEF EndSweep
<1>5. ASSUME NEW r \in Run, NEW a \in Agent, RemoveOld(r, a) PROVE SessionInv'
  BY <1>5 DEF RemoveOld, RemoveTree, Sets
<1>6. ASSUME NEW r \in Run, NEW a \in Agent, NEW k \in Attempt, SweepKill(r, a, k) PROVE SessionInv'
  BY <1>6 DEF SweepKill, Sets
<1>7. ASSUME NEW r \in Run, NEW a \in Agent, NEW k \in Attempt, SweepRemove(r, a, k) PROVE SessionInv'
  BY <1>7 DEF SweepRemove, RemoveTree, Sets, Mark
<1>8. ASSUME NEW r \in Run, Crash(r) PROVE SessionInv'
  BY <1>8 DEF Crash
<1>9. CASE UNCHANGED vars
  BY <1>9 DEF vars
<1> QED
  BY <1>1, <1>2, <1>3, <1>4, <1>5, <1>6, <1>7, <1>8, <1>9 DEF Next, Cleanup

\* Worktrees and sessions keep step until the first cleanup.
LEMMA TreeStep == PoolInv /\ [Next]_vars => TreeInv'
<1> SUFFICES ASSUME PoolInv, [Next]_vars PROVE TreeInv'
  OBVIOUS
<1>0. TypeOK /\ TreeInv /\ SessionInv
  BY DEF PoolInv
<1> USE <1>0, PoolAssumption DEF TypeOK, Phase, Op, Rest, Attempt, cleaning, spawning, world, TreeInv, NoCleanup, SessionInv
<1>1. ASSUME NEW a \in Agent, Operation(a) PROVE TreeInv'
  <2>1. CASE Spawn(a)
    BY <2>1 DEF Spawn, Calls
  <2>2. CASE Create(a)
    BY <2>2 DEF Create, Goto, Sets
  <2>3. CASE Start(a)
    BY <2>3 DEF Start, Goto, Sets
  <2>4. CASE Ready(a)
    BY <2>4 DEF Ready, Goto, Mark
  <2>5. CASE NotReady(a)
    BY <2>5 DEF NotReady, Goto
  <2>6. CASE Expire(a)
    BY <2>6 DEF Expire, KillSession, Goto, Sets
  <2>7. CASE Discard(a)
    BY <2>7 DEF Discard, RemoveTree, Goto, Sets
  <2>8. CASE Send(a) \/ Enter(a) \/ Sent(a)
    BY <2>8 DEF Send, Enter, Sent, Goto, Mark
  <2>9. CASE SendFails(a)
    BY <2>9 DEF SendFails, Goto
  <2>10. CASE SendAgain(a)
    BY <2>10 DEF SendAgain, Calls, Goto
  <2>11. CASE CheckStatus(a)
    BY <2>11 DEF CheckStatus, Calls, Mark, State, Alive
  <2>12. CASE Respawn(a)
    BY <2>12 DEF Respawn, KillSession, Calls, Goto, Sets, State
  <2>13. CASE Release(a)
    BY <2>13 DEF Release, Calls, Goto
  <2>14. CASE Kill(a)
    BY <2>14 DEF Kill, KillSession, Goto, Sets
  <2>15. CASE Remove(a)
    BY <2>15 DEF Remove, RemoveTree, Goto, Sets, Mark
  <2> QED
    BY <1>1, <2>1, <2>2, <2>3, <2>4, <2>5, <2>6, <2>7, <2>8,
       <2>9, <2>10, <2>11, <2>12, <2>13, <2>14, <2>15 DEF Operation
<1>2. ASSUME NEW a \in Agent, Exit(a) PROVE TreeInv'
  BY <1>2 DEF Exit, Sets
<1>3. ASSUME NEW r \in Run, EndRun(r) PROVE TreeInv'
  BY <1>3 DEF EndRun
<1>4. ASSUME NEW r \in Run, EndSweep(r) PROVE TreeInv'
  BY <1>4 DEF EndSweep
<1>5. ASSUME NEW r \in Run, NEW a \in Agent, RemoveOld(r, a) PROVE TreeInv'
  BY <1>5 DEF RemoveOld, RemoveTree, Sets
<1>6. ASSUME NEW r \in Run, NEW a \in Agent, NEW k \in Attempt, SweepKill(r, a, k) PROVE TreeInv'
  BY <1>6 DEF SweepKill, Sets
<1>7. ASSUME NEW r \in Run, NEW a \in Agent, NEW k \in Attempt, SweepRemove(r, a, k) PROVE TreeInv'
  BY <1>7 DEF SweepRemove, RemoveTree, Sets, Mark
<1>8. ASSUME NEW r \in Run, Crash(r) PROVE TreeInv'
  BY <1>8 DEF Crash
<1>9. CASE UNCHANGED vars
  BY <1>9 DEF vars
<1> QED
  BY <1>1, <1>2, <1>3, <1>4, <1>5, <1>6, <1>7, <1>8, <1>9 DEF Next, Cleanup

\* A cleanup works on rows of the table, and no row is ever deleted.
LEMMA SweepStep == PoolInv /\ [Next]_vars => SweepInv'
<1> SUFFICES ASSUME PoolInv, [Next]_vars PROVE SweepInv'
  OBVIOUS
<1>0. TypeOK /\ SweepInv
  BY DEF PoolInv
<1> USE <1>0, PoolAssumption DEF TypeOK, Phase, Op, Rest, Attempt, cleaning, spawning, world, SweepInv, Rows
<1>1. ASSUME NEW a \in Agent, Operation(a) PROVE SweepInv'
  <2>1. CASE Spawn(a)
    BY <2>1 DEF Spawn, Calls
  <2>2. CASE Create(a)
    BY <2>2 DEF Create, Goto, Sets
  <2>3. CASE Start(a)
    BY <2>3 DEF Start, Goto, Sets
  <2>4. CASE Ready(a)
    BY <2>4 DEF Ready, Goto, Mark
  <2>5. CASE NotReady(a)
    BY <2>5 DEF NotReady, Goto
  <2>6. CASE Expire(a)
    BY <2>6 DEF Expire, KillSession, Goto, Sets
  <2>7. CASE Discard(a)
    BY <2>7 DEF Discard, RemoveTree, Goto, Sets
  <2>8. CASE Send(a) \/ Enter(a) \/ Sent(a)
    BY <2>8 DEF Send, Enter, Sent, Goto, Mark
  <2>9. CASE SendFails(a)
    BY <2>9 DEF SendFails, Goto
  <2>10. CASE SendAgain(a)
    BY <2>10 DEF SendAgain, Calls, Goto
  <2>11. CASE CheckStatus(a)
    BY <2>11 DEF CheckStatus, Calls, Mark, State, Alive
  <2>12. CASE Respawn(a)
    BY <2>12 DEF Respawn, KillSession, Calls, Goto, Sets, State
  <2>13. CASE Release(a)
    BY <2>13 DEF Release, Calls, Goto
  <2>14. CASE Kill(a)
    BY <2>14 DEF Kill, KillSession, Goto, Sets
  <2>15. CASE Remove(a)
    BY <2>15 DEF Remove, RemoveTree, Goto, Sets, Mark
  <2> QED
    BY <1>1, <2>1, <2>2, <2>3, <2>4, <2>5, <2>6, <2>7, <2>8,
       <2>9, <2>10, <2>11, <2>12, <2>13, <2>14, <2>15 DEF Operation
<1>2. ASSUME NEW a \in Agent, Exit(a) PROVE SweepInv'
  BY <1>2 DEF Exit, Sets
<1>3. ASSUME NEW r \in Run, EndRun(r) PROVE SweepInv'
  BY <1>3 DEF EndRun
<1>4. ASSUME NEW r \in Run, EndSweep(r) PROVE SweepInv'
  BY <1>4 DEF EndSweep
<1>5. ASSUME NEW r \in Run, NEW a \in Agent, RemoveOld(r, a) PROVE SweepInv'
  BY <1>5 DEF RemoveOld, RemoveTree, Sets
<1>6. ASSUME NEW r \in Run, NEW a \in Agent, NEW k \in Attempt, SweepKill(r, a, k) PROVE SweepInv'
  BY <1>6 DEF SweepKill, Sets
<1>7. ASSUME NEW r \in Run, NEW a \in Agent, NEW k \in Attempt, SweepRemove(r, a, k) PROVE SweepInv'
  BY <1>7 DEF SweepRemove, RemoveTree, Sets, Mark
<1>8. ASSUME NEW r \in Run, Crash(r) PROVE SweepInv'
  BY <1>8 DEF Crash
<1>9. CASE UNCHANGED vars
  BY <1>9 DEF vars
<1> QED
  BY <1>1, <1>2, <1>3, <1>4, <1>5, <1>6, <1>7, <1>8, <1>9 DEF Next, Cleanup

\* A cleanup takes up the next row when it is done with the last.
LEMMA OneStep == PoolInv /\ [Next]_vars => OneAtATime'
<1> SUFFICES ASSUME PoolInv, [Next]_vars PROVE OneAtATime'
  OBVIOUS
<1>0. TypeOK /\ OneAtATime
  BY DEF PoolInv
<1> USE <1>0, PoolAssumption DEF TypeOK, Phase, Op, Rest, Attempt, cleaning, spawning, world, OneAtATime
<1>1. ASSUME NEW a \in Agent, Operation(a) PROVE OneAtATime'
  <2>1. CASE Spawn(a)
    BY <2>1 DEF Spawn, Calls
  <2>2. CASE Create(a)
    BY <2>2 DEF Create, Goto, Sets
  <2>3. CASE Start(a)
    BY <2>3 DEF Start, Goto, Sets
  <2>4. CASE Ready(a)
    BY <2>4 DEF Ready, Goto, Mark
  <2>5. CASE NotReady(a)
    BY <2>5 DEF NotReady, Goto
  <2>6. CASE Expire(a)
    BY <2>6 DEF Expire, KillSession, Goto, Sets
  <2>7. CASE Discard(a)
    BY <2>7 DEF Discard, RemoveTree, Goto, Sets
  <2>8. CASE Send(a) \/ Enter(a) \/ Sent(a)
    BY <2>8 DEF Send, Enter, Sent, Goto, Mark
  <2>9. CASE SendFails(a)
    BY <2>9 DEF SendFails, Goto
  <2>10. CASE SendAgain(a)
    BY <2>10 DEF SendAgain, Calls, Goto
  <2>11. CASE CheckStatus(a)
    BY <2>11 DEF CheckStatus, Calls, Mark, State, Alive
  <2>12. CASE Respawn(a)
    BY <2>12 DEF Respawn, KillSession, Calls, Goto, Sets, State
  <2>13. CASE Release(a)
    BY <2>13 DEF Release, Calls, Goto
  <2>14. CASE Kill(a)
    BY <2>14 DEF Kill, KillSession, Goto, Sets
  <2>15. CASE Remove(a)
    BY <2>15 DEF Remove, RemoveTree, Goto, Sets, Mark
  <2> QED
    BY <1>1, <2>1, <2>2, <2>3, <2>4, <2>5, <2>6, <2>7, <2>8,
       <2>9, <2>10, <2>11, <2>12, <2>13, <2>14, <2>15 DEF Operation
<1>2. ASSUME NEW a \in Agent, Exit(a) PROVE OneAtATime'
  BY <1>2 DEF Exit, Sets
<1>3. ASSUME NEW r \in Run, EndRun(r) PROVE OneAtATime'
  BY <1>3 DEF EndRun
<1>4. ASSUME NEW r \in Run, EndSweep(r) PROVE OneAtATime'
  BY <1>4 DEF EndSweep
<1>5. ASSUME NEW r \in Run, NEW a \in Agent, RemoveOld(r, a) PROVE OneAtATime'
  BY <1>5 DEF RemoveOld, RemoveTree, Sets
<1>6. ASSUME NEW r \in Run, NEW a \in Agent, NEW k \in Attempt, SweepKill(r, a, k) PROVE OneAtATime'
  <2>1. CASE removing' = [removing EXCEPT ![r] = {<<a, k>>}]
    BY <2>1
  <2>2. CASE UNCHANGED removing
    BY <2>2
  <2> QED
    BY <1>6, <2>1, <2>2 DEF SweepKill
<1>7. ASSUME NEW r \in Run, NEW a \in Agent, NEW k \in Attempt, SweepRemove(r, a, k) PROVE OneAtATime'
  BY <1>7 DEF SweepRemove, RemoveTree, Sets, Mark
<1>8. ASSUME NEW r \in Run, Crash(r) PROVE OneAtATime'
  BY <1>8 DEF Crash
<1>9. CASE UNCHANGED vars
  BY <1>9 DEF vars
<1> QED
  BY <1>1, <1>2, <1>3, <1>4, <1>5, <1>6, <1>7, <1>8, <1>9 DEF Next, Cleanup

\* An operation is that of a working run, and disturbs only its own agent.
LEMMA OperationShape ==
  ASSUME TypeOK, OpInv, NEW a \in Agent, Operation(a)
  PROVE  /\ phase[Owner[a]] = "working" /\ UNCHANGED cleaning /\ stuck \subseteq stuck'
         /\ \A b \in Agent \ {a} :
              session'[b] = session[b] /\ tree'[b] = tree[b] /\ row'[b] = row[b]
<1> USE DEF TypeOK, OpInv, Op, Rest, Attempt, spawning, world
<1>1. CASE Spawn(a)
  BY <1>1 DEF Spawn, Calls
<1>2. CASE Create(a)
  BY <1>2 DEF Create, Goto, Sets
<1>3. CASE Start(a)
  BY <1>3 DEF Start, Goto, Sets
<1>4. CASE Ready(a)
  BY <1>4 DEF Ready, Goto, Mark
<1>5. CASE NotReady(a)
  BY <1>5 DEF NotReady, Goto
<1>6. CASE Expire(a)
  BY <1>6 DEF Expire, KillSession, Goto, Sets
<1>7. CASE Discard(a)
  BY <1>7 DEF Discard, RemoveTree, Goto, Sets
<1>8. CASE Send(a) \/ Enter(a) \/ Sent(a)
  BY <1>8 DEF Send, Enter, Sent, Goto, Mark
<1>9. CASE SendFails(a)
  BY <1>9 DEF SendFails, Goto
<1>10. CASE SendAgain(a)
  BY <1>10 DEF SendAgain, Calls, Goto
<1>11. CASE CheckStatus(a)
  BY <1>11 DEF CheckStatus, Calls, Mark, State, Alive
<1>12. CASE Respawn(a)
  BY <1>12 DEF Respawn, KillSession, Calls, Goto, Sets, State
<1>13. CASE Release(a)
  BY <1>13 DEF Release, Calls, Goto
<1>14. CASE Kill(a)
  BY <1>14 DEF Kill, KillSession, Goto, Sets
<1>15. CASE Remove(a)
  BY <1>15 DEF Remove, RemoveTree, Goto, Sets, Mark
<1> QED
  BY <1>1, <1>2, <1>3, <1>4, <1>5, <1>6, <1>7, <1>8, <1>9,
     <1>10, <1>11, <1>12, <1>13, <1>14, <1>15 DEF Operation

\* Nothing slips behind a cleanup.
LEMMA CleaningStep == PoolInv /\ [Next]_vars => CleaningInv'
<1> SUFFICES ASSUME PoolInv, [Next]_vars PROVE CleaningInv'
  OBVIOUS
<1>0. TypeOK /\ OpInv /\ SweepInv /\ CleaningInv
  BY DEF PoolInv
<1> USE <1>0, PoolAssumption DEF TypeOK, Phase, Op, Rest, Attempt, cleaning, spawning, world, OpInv, SweepInv, CleaningInv, Registered, Rows
<1>1. ASSUME NEW a \in Agent, Operation(a) PROVE CleaningInv'
  <2>1. \A b \in Agent : phase[Owner[b]] \in {"cleaning", "over"} => b # a
    BY <1>1, OperationShape
  <2> QED
    BY <1>1, <2>1, OperationShape
<1>2. ASSUME NEW a \in Agent, Exit(a) PROVE CleaningInv'
  BY <1>2 DEF Exit, Sets
<1>3. ASSUME NEW r \in Run, EndRun(r) PROVE CleaningInv'
  <2> SUFFICES ASSUME NEW b \in Agent, phase'[Owner[b]] = "cleaning", b \notin stuck'
                PROVE  /\ session'[b] # 0 /\ Registered(b, session[b])' => <<b, session'[b]>> \in sweep'[Owner[b]]
                       /\ tree'[b] # 0 /\ Registered(b, tree[b])' =>
                            \/ <<b, tree'[b]>> \in sweep'[Owner[b]]
                            \/ \E j \in Attempt : <<b, j>> \in removing'[Owner[b]]
    BY DEF CleaningInv
  <2>1. session[b] # 0 => session[b] \in Attempt
    OBVIOUS
  <2>2. tree[b] # 0 => tree[b] \in Attempt
    OBVIOUS
  <2>3. CASE Owner[b] = r
    <3>1. sweep'[r] = Rows /\ UNCHANGED <<row, session, tree>>
      BY <1>3 DEF EndRun
    <3> QED
      BY <2>1, <2>2, <2>3, <3>1
  <2>4. CASE Owner[b] # r
    BY <1>3, <2>4 DEF EndRun
  <2> QED
    BY <2>3, <2>4
<1>4. ASSUME NEW r \in Run, EndSweep(r) PROVE CleaningInv'
  BY <1>4 DEF EndSweep
<1>5. ASSUME NEW r \in Run, NEW a \in Agent, RemoveOld(r, a) PROVE CleaningInv'
  BY <1>5 DEF RemoveOld, RemoveTree, Sets
<1>6. ASSUME NEW r \in Run, NEW a \in Agent, NEW k \in Attempt, SweepKill(r, a, k) PROVE CleaningInv'
  <2> SUFFICES ASSUME NEW b \in Agent, phase'[Owner[b]] = "cleaning", b \notin stuck'
                PROVE  /\ session'[b] # 0 /\ Registered(b, session[b])' => <<b, session'[b]>> \in sweep'[Owner[b]]
                       /\ tree'[b] # 0 /\ Registered(b, tree[b])' =>
                            \/ <<b, tree'[b]>> \in sweep'[Owner[b]]
                            \/ \E j \in Attempt : <<b, j>> \in removing'[Owner[b]]
    BY DEF CleaningInv
  <2>1. CASE Owner[b] # r
    BY <1>6, <2>1 DEF SweepKill, Sets
  <2>2. CASE Owner[b] = r /\ b # a
    BY <1>6, <2>2 DEF SweepKill, Sets
  <2>3. CASE Owner[b] = r /\ b = a
    <3>1. session'[b] = 0 /\ removing'[r] = {<<b, k>>}
      BY <1>6, <2>3 DEF SweepKill, Sets
    <3> QED
      BY <2>3, <3>1
  <2> QED
    BY <2>1, <2>2, <2>3
<1>7. ASSUME NEW r \in Run, NEW a \in Agent, NEW k \in Attempt, SweepRemove(r, a, k) PROVE CleaningInv'
  <2> SUFFICES ASSUME NEW b \in Agent, phase'[Owner[b]] = "cleaning", b \notin stuck'
                PROVE  /\ session'[b] # 0 /\ Registered(b, session[b])' => <<b, session'[b]>> \in sweep'[Owner[b]]
                       /\ tree'[b] # 0 /\ Registered(b, tree[b])' =>
                            \/ <<b, tree'[b]>> \in sweep'[Owner[b]]
                            \/ \E j \in Attempt : <<b, j>> \in removing'[Owner[b]]
    BY DEF CleaningInv
  <2>0. \A j \in Attempt : Registered(b, j)' <=> Registered(b, j)
    BY <1>7 DEF SweepRemove, Mark
  <2>1. CASE Owner[b] # r
    <3>1. /\ UNCHANGED <<session, sweep, phase>> /\ removing'[Owner[b]] = removing[Owner[b]]
          /\ tree'[b] \in {0, tree[b]} /\ b \notin stuck
      BY <1>7, <2>1 DEF SweepRemove, RemoveTree, Sets
    <3>2. /\ session[b] # 0 /\ Registered(b, session[b]) => <<b, session[b]>> \in sweep[Owner[b]]
          /\ tree[b] # 0 /\ Registered(b, tree[b]) =>
               \/ <<b, tree[b]>> \in sweep[Owner[b]]
               \/ \E j \in Attempt : <<b, j>> \in removing[Owner[b]]
      BY <3>1
    <3>3. (session[b] # 0 => session[b] \in Attempt) /\ (tree[b] # 0 => tree[b] \in Attempt)
      OBVIOUS
    <3> HIDE DEF Registered
    <3> QED
      BY <2>0, <3>1, <3>2, <3>3
  <2>2. CASE Owner[b] = r /\ b # a
    <3>1. \A j \in Attempt : <<b, j>> \notin removing[r]
      <4>1. \A x, y \in removing[r] : x = y
        BY Zenon DEF PoolInv, OneAtATime
      <4>2. <<a, k>> \in removing[r] /\ \A j \in Attempt : <<b, j>> # <<a, k>>
        BY <1>7, <2>2 DEF SweepRemove
      <4> QED
        BY <4>1, <4>2, Zenon
    <3>2. UNCHANGED <<sweep, session>> /\ tree'[b] = tree[b] /\ row'[b] = row[b]
      BY <1>7, <2>2 DEF SweepRemove, RemoveTree, Sets, Mark
    <3>3. b \notin stuck /\ phase[r] = "cleaning"
      BY <1>7, <2>2 DEF SweepRemove, RemoveTree
    <3>4. /\ session[b] # 0 /\ Registered(b, session[b]) => <<b, session[b]>> \in sweep[r]
          /\ tree[b] # 0 /\ Registered(b, tree[b]) => <<b, tree[b]>> \in sweep[r]
      BY <2>2, <3>1, <3>3
    <3> QED
      BY <2>2, <3>2, <3>4
  <2>3. CASE Owner[b] = r /\ b = a
    <3>1. tree'[b] = 0 /\ UNCHANGED <<sweep, session, phase, stuck>>
      BY <1>7, <2>3 DEF SweepRemove, RemoveTree, Sets
    <3>2. session[b] # 0 => (Registered(b, session[b])' <=> Registered(b, session[b]))
      BY <1>7 DEF SweepRemove, Mark
    <3> QED
      BY <1>7, <2>3, <3>1, <3>2 DEF SweepRemove
  <2> QED
    BY <2>1, <2>2, <2>3
<1>8. ASSUME NEW r \in Run, Crash(r) PROVE CleaningInv'
  BY <1>8 DEF Crash
<1>9. CASE UNCHANGED vars
  BY <1>9 DEF vars
<1> QED
  BY <1>1, <1>2, <1>3, <1>4, <1>5, <1>6, <1>7, <1>8, <1>9 DEF Next, Cleanup

\* A cleanup that is over leaves nothing registered, and nobody brings it back.
LEMMA LeftStep == PoolInv /\ [Next]_vars => NothingRegisteredLeft'
<1> SUFFICES ASSUME PoolInv, [Next]_vars PROVE NothingRegisteredLeft'
  OBVIOUS
<1>0. TypeOK /\ OpInv /\ SweepInv /\ CleaningInv /\ NothingRegisteredLeft
  BY DEF PoolInv
<1> USE <1>0, PoolAssumption DEF TypeOK, Phase, Op, Rest, Attempt, cleaning, spawning, world, OpInv, SweepInv, CleaningInv, NothingRegisteredLeft, Registered, Rows
<1>1. ASSUME NEW a \in Agent, Operation(a) PROVE NothingRegisteredLeft'
  <2>1. \A b \in Agent : phase[Owner[b]] \in {"cleaning", "over"} => b # a
    BY <1>1, OperationShape
  <2>2. /\ UNCHANGED phase /\ stuck \subseteq stuck'
        /\ \A b \in Agent \ {a} : session'[b] = session[b] /\ tree'[b] = tree[b] /\ row'[b] = row[b]
    BY <1>1, OperationShape
  <2> HIDE DEF TypeOK, OpInv, SweepInv, CleaningInv, Rows, Op, Rest, Phase, cleaning, spawning, world
  <2> QED
    BY <2>1, <2>2
<1>2. ASSUME NEW a \in Agent, Exit(a) PROVE NothingRegisteredLeft'
  BY <1>2 DEF Exit, Sets
<1>3. ASSUME NEW r \in Run, EndRun(r) PROVE NothingRegisteredLeft'
  BY <1>3 DEF EndRun
<1>4. ASSUME NEW r \in Run, EndSweep(r) PROVE NothingRegisteredLeft'
  BY <1>4 DEF EndSweep
<1>5. ASSUME NEW r \in Run, NEW a \in Agent, RemoveOld(r, a) PROVE NothingRegisteredLeft'
  BY <1>5 DEF RemoveOld, RemoveTree, Sets
<1>6. ASSUME NEW r \in Run, NEW a \in Agent, NEW k \in Attempt, SweepKill(r, a, k) PROVE NothingRegisteredLeft'
  BY <1>6 DEF SweepKill, Sets
<1>7. ASSUME NEW r \in Run, NEW a \in Agent, NEW k \in Attempt, SweepRemove(r, a, k) PROVE NothingRegisteredLeft'
  BY <1>7 DEF SweepRemove, RemoveTree, Sets, Mark
<1>8. ASSUME NEW r \in Run, Crash(r) PROVE NothingRegisteredLeft'
  BY <1>8 DEF Crash
<1>9. CASE UNCHANGED vars
  BY <1>9 DEF vars
<1> QED
  BY <1>1, <1>2, <1>3, <1>4, <1>5, <1>6, <1>7, <1>8, <1>9 DEF Next, Cleanup
-----------------------------------------------------------------------------
(* The theorems *)

\* Nothing of an agent is unaccounted for, whatever the runs, cleanups, crashes
\* and agents do: PoolInv holds in every reachable state.
THEOREM PoolInvariant == Spec => []PoolInv
<1>1. Init => PoolInv
  BY PoolInit
<1>2. PoolInv /\ [Next]_vars => PoolInv'
  BY PoolTypeStep, OpStep, SessionStep, TreeStep, SweepStep, OneStep, CleaningStep,
     LeftStep DEF PoolInv
<1> QED
  BY <1>1, <1>2, PTL DEF Spec

\* A cleanup misses nothing its run has registered.
THEOREM CleanupComplete == Spec => []NothingRegisteredLeft
<1>1. PoolInv => NothingRegisteredLeft
  BY DEF PoolInv
<1> QED
  BY <1>1, PoolInvariant, PTL

\* No retry or release takes the worktree from under a live agent.
THEOREM AgentsInTheirWorktrees == Spec => []OwnWorktree
<1>1. PoolInv => OwnWorktree
  BY DEF PoolInv, TreeInv, OwnWorktree
<1> QED
  BY <1>1, PoolInvariant, PTL

\* Only send_task itself goes from the text to Enter and from there on.
LEMMA SendsItself ==
  ASSUME TypeOK, Next, NEW b \in Agent,
         <<op[b], op'[b]>> \in {<<"send", "enter">>, <<"enter", "sent">>}
  PROVE  op[b] \in {"send", "enter"} /\ session[b] # 0
<1> USE DEF TypeOK, Rest, cleaning, spawning, world
<1>0. op[b] \in {"send", "enter"} /\ op'[b] # op[b] /\ op'[b] \in {"enter", "sent"}
  OBVIOUS
<1>1. ASSUME NEW a \in Agent, Operation(a) PROVE session[b] # 0
  <2>1. CASE Send(a) \/ Enter(a)
    BY <1>0, <2>1 DEF Send, Enter, Goto
  <2>2. CASE Spawn(a) \/ Create(a) \/ Start(a) \/ Ready(a) \/ NotReady(a)
    BY <1>0, <2>2 DEF Spawn, Calls, Create, Start, Ready, NotReady, Goto
  <2>3. CASE Expire(a) \/ Discard(a) \/ Kill(a) \/ Remove(a)
    BY <1>0, <2>3 DEF Expire, Discard, Kill, Remove, KillSession, Goto
  <2>4. CASE Sent(a) \/ SendFails(a) \/ SendAgain(a)
    BY <1>0, <2>4 DEF Sent, SendFails, SendAgain, Calls, Goto
  <2>5. CASE CheckStatus(a) \/ Respawn(a) \/ Release(a)
    BY <1>0, <2>5 DEF CheckStatus, Respawn, Release, Calls, KillSession, Goto
  <2> QED
    BY <1>1, <2>1, <2>2, <2>3, <2>4, <2>5 DEF Operation
<1>2. ASSUME NEW r \in Run, Cleanup(r) \/ Crash(r) PROVE FALSE
  BY <1>0, <1>2 DEF Cleanup, Crash, EndRun, EndSweep, RemoveOld, SweepKill, SweepRemove
<1>3. ASSUME NEW a \in Agent, Exit(a) PROVE FALSE
  BY <1>0, <1>3 DEF Exit
<1> QED
  BY <1>0, <1>1, <1>2, <1>3 DEF Next

\* Neither a prompt nor its Enter ever reaches the session of an earlier attempt.
THEOREM PromptsReachAttempt == Spec => PromptReachesAttempt
<1> DEFINE Typed == \A a \in Agent :
             <<op[a], op'[a]>> \in {<<"send", "enter">>, <<"enter", "sent">>} => session[a] = tries[a]
           Reaches == \A a \in Agent, k \in Attempt :
             row[a][k] # "busy" /\ row'[a][k] = "busy" => session[a] \in {0, k}
<1>1. ASSUME PoolInv, Next PROVE Typed
  BY <1>1, SendsItself DEF PoolInv, SessionInv
<1>2. ASSUME PoolInv, Next PROVE Reaches
  <2>0. TypeOK /\ SessionInv
    BY <1>2 DEF PoolInv
  <2>1. ASSUME NEW a \in Agent, NEW k \in Attempt, NEW s \in {"idle", "dead"}, Mark(a, k, s)
        PROVE  Reaches
    BY <2>0, <2>1 DEF Mark, TypeOK
  <2>2. CASE UNCHANGED row
    BY <2>2
  <2>3. ASSUME NEW a \in Agent, Operation(a)
        PROVE  Reaches
    <3> USE <2>3, PoolAssumption DEF spawning, cleaning, world
    <3>1. tries[a] # 0 => tries[a] \in Attempt
      BY <2>0 DEF TypeOK, Attempt
    <3>2. CASE Sent(a)
      BY <2>0, <3>2 DEF Sent, Mark, SessionInv, TypeOK
    <3>3. CASE Ready(a)
      <4>1. tries[a] \in Attempt
        <5>1. session[a] = tries[a] /\ session[a] # 0
          BY <2>0, <3>3 DEF Ready, SessionInv
        <5> QED
          BY <3>1, <5>1
      <4> QED
        BY <2>1, <3>3, <4>1 DEF Ready
    <3>4. CASE CheckStatus(a) \/ Remove(a)
      <4>1. Mark(a, tries[a], "dead")
        BY <3>4 DEF CheckStatus, Remove
      <4> QED
        BY <2>0, <4>1 DEF Mark, TypeOK
    <3>5. CASE ~(Sent(a) \/ Ready(a) \/ CheckStatus(a) \/ Remove(a))
      <4>1. UNCHANGED row
        BY <3>5 DEF Operation, Spawn, Create, Start, NotReady, Expire, Discard,
           Send, Enter, SendFails, SendAgain, Respawn, Release, Kill
      <4> QED
        BY <2>2, <4>1
    <3> QED
      BY <3>2, <3>3, <3>4, <3>5
  <2>4. ASSUME NEW r \in Run, Cleanup(r) \/ Crash(r)
        PROVE  Reaches
    <3>1. ASSUME NEW a \in Agent, NEW k \in Attempt, SweepRemove(r, a, k)
          PROVE  Reaches
      BY <2>1, <3>1 DEF SweepRemove
    <3>2. CASE ~\E a \in Agent, k \in Attempt : SweepRemove(r, a, k)
      BY <2>2, <2>4, <3>2 DEF Cleanup, EndRun, EndSweep, RemoveOld, SweepKill, Crash
    <3> QED
      BY <3>1, <3>2
  <2>5. ASSUME NEW a \in Agent, Exit(a)
        PROVE  Reaches
    BY <2>2, <2>5 DEF Exit
  <2> QED
    BY <1>2, <2>3, <2>4, <2>5 DEF Next
<1>3. PoolInv /\ [Next]_vars =>
        [\A a \in Agent :
           /\ <<op[a], op'[a]>> \in {<<"send", "enter">>, <<"enter", "sent">>} => session[a] = tries[a]
           /\ \A k \in Attempt :
                row[a][k] # "busy" /\ row'[a][k] = "busy" => session[a] \in {0, k}]_vars
  BY <1>1, <1>2
<1> QED
  BY <1>3, PoolInvariant, PTL DEF Spec, PromptReachesAttempt
=============================================================================
