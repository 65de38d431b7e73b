-------------------------- MODULE RunManagerProofs --------------------------
(***************************************************************************)
(* Proofs, for every set of runs, limit and outcome, of the safety of the  *)
(* RunManager: MInv is an inductive invariant.                             *)
(***************************************************************************)
EXTENDS RunManagerProperties, TLAPS, FiniteSetTheorems

-----------------------------------------------------------------------------
(* Slots *)

\* Runs can be counted.
LEMMA RunsFinite ==
  ASSUME NEW S \in SUBSET Run
  PROVE  IsFiniteSet(S) /\ Cardinality(S) \in Nat
<1>1. IsFiniteSet(S)
  BY ManagerAssumption, FS_Subset
<1> QED
  BY <1>1, FS_CardinalityType

\* A smaller set of runs has no more elements.
LEMMA RunsSubset ==
  ASSUME NEW S \in SUBSET Run, NEW T \in SUBSET S
  PROVE  Cardinality(T) <= Cardinality(S)
BY RunsFinite, FS_Subset

\* Moving a fetched run to the active ones does not take another slot.
LEMMA SlotMoves ==
  ASSUME NEW A \in SUBSET Run, NEW P \in SUBSET Run, NEW r \in P
  PROVE  Cardinality(A \cup {r}) + Cardinality(P \ {r}) <= Cardinality(A) + Cardinality(P)
<1>1. IsFiniteSet(A) /\ IsFiniteSet(P)
  BY RunsFinite
<1>2. Cardinality(A \cup {r}) <= Cardinality(A) + 1 /\ Cardinality(A \cup {r}) \in Nat
  BY <1>1, RunsFinite, FS_AddElement
<1>3. Cardinality(P \ {r}) = Cardinality(P) - 1
  BY <1>1, FS_RemoveElement
<1> QED
  BY <1>2, <1>3, RunsFinite

-----------------------------------------------------------------------------
(* Each part of MInv is kept by every step *)

\* Initially there are no rows, no tasks and no manager.
LEMMA ManagerInit == Init => MInv
<1> SUFFICES ASSUME Init PROVE MInv
  OBVIOUS
<1>1. TypeOK
  BY ManagerAssumption DEF Init, TypeOK, RowState, Loop, TaskState, Ending
<1>2. NoStrayTask /\ RowInv /\ AskedInv /\ ReportedOutcome
  BY DEF Init, NoStrayTask, Alive, RowInv, AskedInv, ReportedOutcome, Finished
<1>3. SlotInv
  BY FS_EmptySet, ManagerAssumption DEF Init, SlotInv
<1> QED
  BY <1>1, <1>2, <1>3 DEF MInv

\* Every step keeps rows, tasks and the sets of runs well typed.
LEMMA ManagerTypeStep == MInv /\ [Next]_vars => TypeOK'
<1> SUFFICES ASSUME MInv, [Next]_vars PROVE TypeOK'
  OBVIOUS
<1>0. TypeOK /\ RowInv
  BY DEF MInv
<1> USE <1>0, ManagerAssumption DEF TypeOK, RowState, Loop, TaskState, Ending, rows, tasks
<1>1. CASE Start
  BY <1>1 DEF Start, Goto
<1>2. CASE Wake
  BY <1>2 DEF Wake, Goto
<1>3. CASE EndCheck
  BY <1>3 DEF EndCheck, Goto
<1>4. CASE Fetch
  BY <1>4 DEF Fetch, Goto, Oldest, Queued
<1>5. CASE EndLaunch
  BY <1>5 DEF EndLaunch, Goto
<1>6. CASE StopEnd
  BY <1>6 DEF StopEnd, Exit, Done, Alive
<1>7. CASE Stop
  BY <1>7 DEF Stop, Goto
<1>8. CASE Crash
  BY <1>8 DEF Crash, Exit, Alive
<1>9. ASSUME NEW r \in Run, Reap(r) PROVE TypeOK'
  BY <1>9 DEF Reap, Write, Done
<1>10. ASSUME NEW r \in Run, Launch(r) PROVE TypeOK'
  BY <1>10 DEF Launch, Write
<1>11. ASSUME NEW r \in Run, StopCancel(r) PROVE TypeOK'
  BY <1>11 DEF StopCancel, Done
<1>12. ASSUME NEW r \in Run, RunEnds(r) PROVE TypeOK'
  BY <1>12 DEF RunEnds, TaskStep, Waiting
<1>13. ASSUME NEW r \in Run, CleanupEnds(r) PROVE TypeOK'
  BY <1>13 DEF CleanupEnds, TaskStep, Waiting
<1>14. ASSUME NEW r \in Run, CancelResumes(r) PROVE TypeOK'
  BY <1>14 DEF CancelResumes, Conclude, Write, Waiting
<1>15. ASSUME NEW r \in Run, Submit(r) PROVE TypeOK'
  <2>1. Cardinality({q \in Run : row[q] # "none"}) \in Nat
    BY RunsFinite
  <2> QED
    BY <1>15, <2>1 DEF Submit
<1>16. ASSUME NEW r \in Run, CancelRow(r) PROVE TypeOK'
  BY <1>16 DEF CancelRow, Write, Ask, Waiting
<1>17. ASSUME NEW r \in Run, CancelTask(r) PROVE TypeOK'
  BY <1>17 DEF CancelTask, Ask, Waiting
<1>18. ASSUME NEW r \in Run, RemoteRead(r) PROVE TypeOK'
  BY <1>18 DEF RemoteRead
<1>19. ASSUME NEW r \in Run, RemoteWrite(r) PROVE TypeOK'
  BY <1>19 DEF RemoteWrite, Write
<1>20. CASE UNCHANGED vars
  BY <1>20 DEF vars
<1>21. ASSUME NEW r \in Run, CancelDone(r) PROVE TypeOK'
  BY <1>21 DEF CancelDone, Conclude, Done, Write, Waiting
<1> QED
  BY <1>1, <1>2, <1>3, <1>4, <1>5, <1>6, <1>7, <1>8, <1>9, <1>10, <1>11,
     <1>12, <1>13, <1>14, <1>15, <1>16, <1>17, <1>18, <1>19, <1>20, <1>21
  DEF Next, EventLoop, Tasks, Clients

\* A run leaves _active_tasks only with its task done or its process gone.
LEMMA StrayStep == MInv /\ [Next]_vars => NoStrayTask'
<1> SUFFICES ASSUME MInv, [Next]_vars PROVE NoStrayTask'
  OBVIOUS
<1>0. TypeOK /\ NoStrayTask
  BY DEF MInv
<1> USE <1>0 DEF TypeOK, NoStrayTask, Alive, rows, tasks
<1>1. CASE Start
  BY <1>1 DEF Start, Goto
<1>2. CASE Wake
  BY <1>2 DEF Wake, Goto
<1>3. CASE EndCheck
  BY <1>3 DEF EndCheck, Goto
<1>4. CASE Fetch
  BY <1>4 DEF Fetch, Goto, Oldest, Queued
<1>5. CASE EndLaunch
  BY <1>5 DEF EndLaunch, Goto
<1>6. CASE StopEnd
  BY <1>6 DEF StopEnd, Exit, Done, Alive
<1>7. CASE Stop
  BY <1>7 DEF Stop, Goto
<1>8. CASE Crash
  BY <1>8 DEF Crash, Exit, Alive
<1>9. ASSUME NEW r \in Run, Reap(r) PROVE NoStrayTask'
  BY <1>9 DEF Reap, Write, Done
<1>10. ASSUME NEW r \in Run, Launch(r) PROVE NoStrayTask'
  BY <1>10 DEF Launch, Write
<1>11. ASSUME NEW r \in Run, StopCancel(r) PROVE NoStrayTask'
  BY <1>11 DEF StopCancel, Done
<1>12. ASSUME NEW r \in Run, RunEnds(r) PROVE NoStrayTask'
  BY <1>12 DEF RunEnds, TaskStep, Waiting
<1>13. ASSUME NEW r \in Run, CleanupEnds(r) PROVE NoStrayTask'
  BY <1>13 DEF CleanupEnds, TaskStep, Waiting
<1>14. ASSUME NEW r \in Run, CancelResumes(r) PROVE NoStrayTask'
  BY <1>14 DEF CancelResumes, Conclude, Write, Waiting
<1>15. ASSUME NEW r \in Run, Submit(r) PROVE NoStrayTask'
  BY <1>15 DEF Submit
<1>16. ASSUME NEW r \in Run, CancelRow(r) PROVE NoStrayTask'
  BY <1>16 DEF CancelRow, Write, Ask, Waiting
<1>17. ASSUME NEW r \in Run, CancelTask(r) PROVE NoStrayTask'
  BY <1>17 DEF CancelTask, Ask, Waiting
<1>18. ASSUME NEW r \in Run, RemoteRead(r) PROVE NoStrayTask'
  BY <1>18 DEF RemoteRead
<1>19. ASSUME NEW r \in Run, RemoteWrite(r) PROVE NoStrayTask'
  BY <1>19 DEF RemoteWrite, Write
<1>20. CASE UNCHANGED vars
  BY <1>20 DEF vars
<1>21. ASSUME NEW r \in Run, CancelDone(r) PROVE NoStrayTask'
  BY <1>21 DEF CancelDone, Conclude, Done, Write, Waiting
<1> QED
  BY <1>1, <1>2, <1>3, <1>4, <1>5, <1>6, <1>7, <1>8, <1>9, <1>10, <1>11,
     <1>12, <1>13, <1>14, <1>15, <1>16, <1>17, <1>18, <1>19, <1>20, <1>21
  DEF Next, EventLoop, Tasks, Clients

\* A run gets its task only from the launch that takes its row up.
LEMMA RowStep == MInv /\ [Next]_vars => RowInv'
<1> SUFFICES ASSUME MInv, [Next]_vars PROVE RowInv'
  OBVIOUS
<1>0. TypeOK /\ RowInv /\ SlotInv
  BY DEF MInv
<1> USE <1>0, ManagerAssumption DEF TypeOK, RowInv, Terminal, rows, tasks
<1>1. CASE Start
  BY <1>1 DEF Start, Goto
<1>2. CASE Wake
  BY <1>2 DEF Wake, Goto
<1>3. CASE EndCheck
  BY <1>3 DEF EndCheck, Goto
<1>4. CASE Fetch
  BY <1>4 DEF Fetch, Goto, Oldest, Queued
<1>5. CASE EndLaunch
  BY <1>5 DEF EndLaunch, Goto
<1>6. CASE StopEnd
  BY <1>6 DEF StopEnd, Exit, Done, Alive
<1>7. CASE Stop
  BY <1>7 DEF Stop, Goto
<1>8. CASE Crash
  BY <1>8 DEF Crash, Exit, Alive
<1>9. ASSUME NEW r \in Run, Reap(r) PROVE RowInv'
  <2>1. outcome[r] \in Ending \ {"none"} /\ task[r] = "done"
    BY <1>9 DEF Reap, Done
  <2>2. PICK v \in Ending \ {"none"} : row' = [row EXCEPT ![r] = v]
    BY <1>9, <2>1 DEF Reap, Write, Ending
  <2>3. v \notin {"none", "queued"}
    BY <2>2 DEF Ending
  <2> QED
    BY <1>9, <2>1, <2>2, <2>3 DEF Reap
<1>10. ASSUME NEW r \in Run, Launch(r) PROVE RowInv'
  BY <1>10 DEF Launch, Write
<1>11. ASSUME NEW r \in Run, StopCancel(r) PROVE RowInv'
  BY <1>11 DEF StopCancel, Done
<1>12. ASSUME NEW r \in Run, RunEnds(r) PROVE RowInv'
  BY <1>12 DEF RunEnds, TaskStep, Waiting
<1>13. ASSUME NEW r \in Run, CleanupEnds(r) PROVE RowInv'
  BY <1>13 DEF CleanupEnds, TaskStep, Waiting
<1>14. ASSUME NEW r \in Run, CancelResumes(r) PROVE RowInv'
  BY <1>14 DEF CancelResumes, Conclude, Write, Waiting
<1>15. ASSUME NEW r \in Run, Submit(r) PROVE RowInv'
  BY <1>15 DEF Submit
<1>16. ASSUME NEW r \in Run, CancelRow(r) PROVE RowInv'
  BY <1>16 DEF CancelRow, Write, Ask, Waiting
<1>17. ASSUME NEW r \in Run, CancelTask(r) PROVE RowInv'
  BY <1>17 DEF CancelTask, Ask, Waiting
<1>18. ASSUME NEW r \in Run, RemoteRead(r) PROVE RowInv'
  BY <1>18 DEF RemoteRead
<1>19. ASSUME NEW r \in Run, RemoteWrite(r) PROVE RowInv'
  BY <1>19 DEF RemoteWrite, Write
<1>20. CASE UNCHANGED vars
  BY <1>20 DEF vars
<1>21. ASSUME NEW r \in Run, CancelDone(r) PROVE RowInv'
  BY <1>21 DEF CancelDone, Conclude, Done, Write, Waiting
<1> QED
  BY <1>1, <1>2, <1>3, <1>4, <1>5, <1>6, <1>7, <1>8, <1>9, <1>10, <1>11,
     <1>12, <1>13, <1>14, <1>15, <1>16, <1>17, <1>18, <1>19, <1>20, <1>21
  DEF Next, EventLoop, Tasks, Clients

\* Only cancel() and stop() mark a task for cancellation.
LEMMA AskedStep == MInv /\ [Next]_vars => AskedInv'
<1> SUFFICES ASSUME MInv, [Next]_vars PROVE AskedInv'
  OBVIOUS
<1>0. TypeOK /\ AskedInv /\ RowInv /\ SlotInv
  BY DEF MInv
<1> USE <1>0 DEF TypeOK, AskedInv, RowInv, SlotInv, rows, tasks
<1>1. CASE Start
  BY <1>1 DEF Start, Goto
<1>2. CASE Wake
  BY <1>2 DEF Wake, Goto
<1>3. CASE EndCheck
  BY <1>3 DEF EndCheck, Goto
<1>4. CASE Fetch
  BY <1>4 DEF Fetch, Goto, Oldest, Queued
<1>5. CASE EndLaunch
  BY <1>5 DEF EndLaunch, Goto
<1>6. CASE StopEnd
  BY <1>6 DEF StopEnd, Exit, Done, Alive
<1>7. CASE Stop
  BY <1>7 DEF Stop, Goto
<1>8. CASE Crash
  BY <1>8 DEF Crash, Exit, Alive
<1>9. ASSUME NEW r \in Run, Reap(r) PROVE AskedInv'
  BY <1>9 DEF Reap, Write, Done
<1>10. ASSUME NEW r \in Run, Launch(r) PROVE AskedInv'
  BY <1>10 DEF Launch, Write
<1>11. ASSUME NEW r \in Run, StopCancel(r) PROVE AskedInv'
  BY <1>11 DEF StopCancel, Done
<1>12. ASSUME NEW r \in Run, RunEnds(r) PROVE AskedInv'
  <2>1. UNCHANGED <<loop, active, cancelling, awaiting, remote, asked>>
    BY <1>12 DEF RunEnds, TaskStep
  <2>2. PICK e : /\ outcome' = [outcome EXCEPT ![r] = e]
                 /\ e = "cancelled" => r \in cancelling
    BY <1>12, ManagerAssumption DEF RunEnds
  <2> QED
    BY <2>1, <2>2
<1>13. ASSUME NEW r \in Run, CleanupEnds(r) PROVE AskedInv'
  BY <1>13 DEF CleanupEnds, TaskStep, Waiting
<1>14. ASSUME NEW r \in Run, CancelResumes(r) PROVE AskedInv'
  BY <1>14 DEF CancelResumes, Conclude, Write, Waiting
<1>15. ASSUME NEW r \in Run, Submit(r) PROVE AskedInv'
  BY <1>15 DEF Submit
<1>16. ASSUME NEW r \in Run, CancelRow(r) PROVE AskedInv'
  BY <1>16 DEF CancelRow, Write, Ask, Waiting
<1>17. ASSUME NEW r \in Run, CancelTask(r) PROVE AskedInv'
  BY <1>17 DEF CancelTask, Ask, Waiting
<1>18. ASSUME NEW r \in Run, RemoteRead(r) PROVE AskedInv'
  BY <1>18 DEF RemoteRead
<1>19. ASSUME NEW r \in Run, RemoteWrite(r) PROVE AskedInv'
  BY <1>19 DEF RemoteWrite, Write
<1>20. CASE UNCHANGED vars
  BY <1>20 DEF vars
<1>21. ASSUME NEW r \in Run, CancelDone(r) PROVE AskedInv'
  BY <1>21 DEF CancelDone, Conclude, Done, Write, Waiting
<1> QED
  BY <1>1, <1>2, <1>3, <1>4, <1>5, <1>6, <1>7, <1>8, <1>9, <1>10, <1>11,
     <1>12, <1>13, <1>14, <1>15, <1>16, <1>17, <1>18, <1>19, <1>20, <1>21
  DEF Next, EventLoop, Tasks, Clients

\* A terminal row is written only by the reaper or by a cancel().
LEMMA ReportStep == MInv /\ [Next]_vars => ReportedOutcome'
<1> SUFFICES ASSUME MInv, [Next]_vars PROVE ReportedOutcome'
  OBVIOUS
<1>0. TypeOK /\ AskedInv /\ RowInv /\ SlotInv /\ ReportedOutcome
  BY DEF MInv
<1> USE <1>0, ManagerAssumption DEF TypeOK, ReportedOutcome, Finished, AskedInv, RowInv, SlotInv, rows, tasks
<1>1. CASE Start
  BY <1>1 DEF Start, Goto
<1>2. CASE Wake
  BY <1>2 DEF Wake, Goto
<1>3. CASE EndCheck
  BY <1>3 DEF EndCheck, Goto
<1>4. CASE Fetch
  BY <1>4 DEF Fetch, Goto, Oldest, Queued
<1>5. CASE EndLaunch
  BY <1>5 DEF EndLaunch, Goto
<1>6. CASE StopEnd
  BY <1>6 DEF StopEnd, Exit, Done, Alive
<1>7. CASE Stop
  BY <1>7 DEF Stop, Goto
<1>8. CASE Crash
  BY <1>8 DEF Crash, Exit, Alive
<1>9. ASSUME NEW r \in Run, Reap(r) PROVE ReportedOutcome'
  BY <1>9 DEF Reap, Write, Done
<1>10. ASSUME NEW r \in Run, Launch(r) PROVE ReportedOutcome'
  BY <1>10 DEF Launch, Write
<1>11. ASSUME NEW r \in Run, StopCancel(r) PROVE ReportedOutcome'
  BY <1>11 DEF StopCancel, Done
<1>12. ASSUME NEW r \in Run, RunEnds(r) PROVE ReportedOutcome'
  BY <1>12 DEF RunEnds, TaskStep, Waiting
<1>13. ASSUME NEW r \in Run, CleanupEnds(r) PROVE ReportedOutcome'
  BY <1>13 DEF CleanupEnds, TaskStep, Waiting
<1>14. ASSUME NEW r \in Run, CancelResumes(r) PROVE ReportedOutcome'
  BY <1>14 DEF CancelResumes, Conclude, Write, Waiting
<1>15. ASSUME NEW r \in Run, Submit(r) PROVE ReportedOutcome'
  BY <1>15 DEF Submit
<1>16. ASSUME NEW r \in Run, CancelRow(r) PROVE ReportedOutcome'
  BY <1>16 DEF CancelRow, Write, Ask, Waiting
<1>17. ASSUME NEW r \in Run, CancelTask(r) PROVE ReportedOutcome'
  BY <1>17 DEF CancelTask, Ask, Waiting
<1>18. ASSUME NEW r \in Run, RemoteRead(r) PROVE ReportedOutcome'
  BY <1>18 DEF RemoteRead
<1>19. ASSUME NEW r \in Run, RemoteWrite(r) PROVE ReportedOutcome'
  BY <1>19 DEF RemoteWrite, Write
<1>20. CASE UNCHANGED vars
  BY <1>20 DEF vars
<1>21. ASSUME NEW r \in Run, CancelDone(r) PROVE ReportedOutcome'
  BY <1>21 DEF CancelDone, Conclude, Done, Write, Waiting
<1> QED
  BY <1>1, <1>2, <1>3, <1>4, <1>5, <1>6, <1>7, <1>8, <1>9, <1>10, <1>11,
     <1>12, <1>13, <1>14, <1>15, <1>16, <1>17, <1>18, <1>19, <1>20, <1>21
  DEF Next, EventLoop, Tasks, Clients

\* Fetching fills at most the free slots, launching moves runs between the sets.
LEMMA SlotStep == MInv /\ [Next]_vars => SlotInv'
<1> SUFFICES ASSUME MInv, [Next]_vars PROVE SlotInv'
  OBVIOUS
<1>0. TypeOK /\ RowInv /\ SlotInv /\ RowInv'
  BY RowStep DEF MInv
<1>a. /\ Cardinality(active) \in Nat /\ Cardinality(picked) \in Nat
      /\ Cardinality({}) = 0
  BY <1>0, RunsFinite, FS_EmptySet DEF TypeOK
<1> USE <1>0, <1>a, ManagerAssumption DEF TypeOK, SlotInv, RowInv, rows, tasks
<1>1. CASE Start
  BY <1>1 DEF Start, Goto
<1>2. CASE Wake
  BY <1>2 DEF Wake, Goto
<1>3. CASE EndCheck
  BY <1>3 DEF EndCheck, Goto
<1>4. CASE Fetch
  <2>1. /\ picked' \subseteq Queued /\ active' = active /\ loop' = "launch"
        /\ Cardinality(picked') + Cardinality(active) <= MaxConcurrent
        /\ UNCHANGED <<row, task>>
    BY <1>4 DEF Fetch, Goto, Oldest
  <2>2. Cardinality(picked') \in Nat
    BY <2>1, RunsFinite DEF Queued
  <2> QED
    BY <2>1, <2>2 DEF Queued
<1>5. CASE EndLaunch
  BY <1>5 DEF EndLaunch, Goto
<1>6. CASE StopEnd
  BY <1>6 DEF StopEnd, Exit, Done, Alive
<1>7. CASE Stop
  BY <1>7 DEF Stop, Goto
<1>8. CASE Crash
  BY <1>8 DEF Crash, Exit, Alive
<1>9. ASSUME NEW r \in Run, Reap(r) PROVE SlotInv'
  <2>1. /\ active' \subseteq active /\ UNCHANGED <<loop, picked, task>>
        /\ loop # "down"
    BY <1>9 DEF Reap, Write, Done
  <2>2. Cardinality(active') <= Cardinality(active) /\ Cardinality(active') \in Nat
    BY <2>1, RunsSubset, RunsFinite
  <2> QED
    BY <2>1, <2>2
<1>10. ASSUME NEW r \in Run, Launch(r) PROVE SlotInv'
  <2>1. /\ r \in picked /\ picked' = picked \ {r} /\ active' = active \cup {r}
        /\ loop' = "launch" /\ task' = [task EXCEPT ![r] = "running"]
    BY <1>10 DEF Launch
  <2>2. Cardinality(active') + Cardinality(picked') <= Cardinality(active) + Cardinality(picked)
    BY <2>1, SlotMoves
  <2>3. Cardinality(active') \in Nat /\ Cardinality(picked') \in Nat
    BY <2>1, RunsFinite
  <2> QED
    BY <2>1, <2>2, <2>3
<1>11. ASSUME NEW r \in Run, StopCancel(r) PROVE SlotInv'
  BY <1>11 DEF StopCancel, Done
<1>12. ASSUME NEW r \in Run, RunEnds(r) PROVE SlotInv'
  BY <1>12 DEF RunEnds, TaskStep, Waiting
<1>13. ASSUME NEW r \in Run, CleanupEnds(r) PROVE SlotInv'
  BY <1>13 DEF CleanupEnds, TaskStep, Waiting
<1>14. ASSUME NEW r \in Run, CancelResumes(r) PROVE SlotInv'
  <2>1. /\ active' \subseteq active /\ UNCHANGED <<loop, picked, task>>
        /\ loop # "down"
    BY <1>14 DEF CancelResumes, Conclude, Write, Waiting
  <2>2. Cardinality(active') <= Cardinality(active) /\ Cardinality(active') \in Nat
    BY <2>1, RunsSubset, RunsFinite
  <2> QED
    BY <2>1, <2>2
<1>15. ASSUME NEW r \in Run, Submit(r) PROVE SlotInv'
  BY <1>15 DEF Submit
<1>16. ASSUME NEW r \in Run, CancelRow(r) PROVE SlotInv'
  BY <1>16 DEF CancelRow, Write, Ask, Waiting
<1>17. ASSUME NEW r \in Run, CancelTask(r) PROVE SlotInv'
  BY <1>17 DEF CancelTask, Ask, Waiting
<1>18. ASSUME NEW r \in Run, RemoteRead(r) PROVE SlotInv'
  BY <1>18 DEF RemoteRead
<1>19. ASSUME NEW r \in Run, RemoteWrite(r) PROVE SlotInv'
  BY <1>19 DEF RemoteWrite, Write
<1>20. CASE UNCHANGED vars
  BY <1>20 DEF vars
<1>21. ASSUME NEW r \in Run, CancelDone(r) PROVE SlotInv'
  <2>1. /\ active' \subseteq active /\ UNCHANGED <<loop, picked, task>>
        /\ loop # "down"
    BY <1>21 DEF CancelDone, Conclude, Write, Waiting
  <2>2. Cardinality(active') <= Cardinality(active) /\ Cardinality(active') \in Nat
    BY <2>1, RunsSubset, RunsFinite
  <2> QED
    BY <2>1, <2>2
<1> QED
  BY <1>1, <1>2, <1>3, <1>4, <1>5, <1>6, <1>7, <1>8, <1>9, <1>10, <1>11,
     <1>12, <1>13, <1>14, <1>15, <1>16, <1>17, <1>18, <1>19, <1>20, <1>21
  DEF Next, EventLoop, Tasks, Clients

-----------------------------------------------------------------------------
(* The theorems *)

\* MInv holds in every reachable state of the manager.
THEOREM ManagerInvariance == Spec => []MInv
<1>1. MInv /\ [Next]_vars => MInv'
  BY ManagerTypeStep, StrayStep, RowStep, SlotStep, AskedStep, ReportStep DEF MInv
<1> QED
  BY ManagerInit, <1>1, PTL DEF Spec

\* The rows, tasks and sets of the manager keep their types.
THEOREM ManagerTypes == Spec => []TypeOK
<1>1. MInv => TypeOK
  BY DEF MInv
<1> QED
  BY ManagerInvariance, <1>1, PTL

\* No orchestrator is at work that the manager has lost track of.
THEOREM NoStray == Spec => []NoStrayTask
<1>1. MInv => NoStrayTask
  BY DEF MInv
<1> QED
  BY ManagerInvariance, <1>1, PTL

\* At most max_concurrent_runs orchestrators are at work, for any limit and any
\* number of runs.
THEOREM RunsLimited == Spec => []RunLimit
<1>1. MInv => RunLimit
  <2> SUFFICES ASSUME MInv PROVE Cardinality(Alive) <= MaxConcurrent
    BY DEF RunLimit
  <2>1. active \subseteq Run /\ picked \subseteq Run /\ Alive \subseteq active
    BY DEF MInv, TypeOK, NoStrayTask
  <2>2. Cardinality(Alive) <= Cardinality(active)
    BY <2>1, RunsSubset
  <2>3. /\ Cardinality(active) + Cardinality(picked) <= MaxConcurrent
        /\ Cardinality(active) \in Nat /\ Cardinality(picked) \in Nat
        /\ Cardinality(Alive) \in Nat
    BY <2>1, RunsFinite DEF MInv, SlotInv
  <2> QED
    BY <2>2, <2>3, ManagerAssumption
<1> QED
  BY ManagerInvariance, <1>1, PTL

\* Rows report what the run's own orchestrator returned, or a cancellation that
\* was asked for.
THEOREM OutcomesReported == Spec => []ReportedOutcome
<1>1. MInv => ReportedOutcome
  BY DEF MInv
<1> QED
  BY ManagerInvariance, <1>1, PTL

\* A run is launched at most once, across cancellations, crashes and restarts.
THEOREM LaunchedOnce == Spec => AtMostOnce
<1> DEFINE Once == \A r \in Run : task[r] # "none" => task'[r] = task[r] \/ task'[r] # "running"
<1>1. MInv /\ [Next]_vars => [Once]_vars
  <2> SUFFICES ASSUME MInv, [Next]_vars, NEW r \in Run, task[r] # "none"
               PROVE  task'[r] = task[r] \/ task'[r] # "running"
    OBVIOUS
  <2>0. task \in [Run -> TaskState] /\ \A q \in picked : task[q] = "none"
    BY DEF MInv, TypeOK, SlotInv
  <2>1. ASSUME NEW q \in Run, Launch(q) PROVE task'[r] = task[r]
    BY <2>0, <2>1 DEF Launch
  <2>2. ASSUME NEW q \in Run, RunEnds(q) \/ CleanupEnds(q) PROVE task'[r] = task[r] \/ task'[r] # "running"
    BY <2>0, <2>2 DEF RunEnds, CleanupEnds, TaskStep
  <2>3. CASE StopEnd \/ Crash
    BY <2>3 DEF StopEnd, Crash, Exit
  <2>4. CASE \/ Start \/ Wake \/ EndCheck \/ Fetch \/ EndLaunch \/ Stop \/ UNCHANGED vars
    BY <2>4 DEF Start, Wake, EndCheck, Fetch, EndLaunch, Stop, Goto, tasks, vars
  <2>5. ASSUME NEW q \in Run,
               \/ Reap(q) \/ StopCancel(q) \/ CancelResumes(q) \/ Submit(q) \/ CancelRow(q)
               \/ CancelTask(q) \/ CancelDone(q) \/ RemoteRead(q) \/ RemoteWrite(q)
        PROVE  task' = task
    BY <2>5 DEF Reap, StopCancel, CancelResumes, CancelDone, Conclude, Submit, CancelRow,
                CancelTask, RemoteRead, RemoteWrite, tasks
  <2> QED
    BY <2>1, <2>2, <2>3, <2>4, <2>5 DEF Next, EventLoop, Tasks, Clients
<1> QED
  BY ManagerInvariance, <1>1, PTL DEF Spec, AtMostOnce

\* A cancellation is overwritten only by a launch of a row that was fetched before
\* it, or by the report of a task that is still held.
THEOREM CancelIsFinal == Spec => CancelFinal
<1> DEFINE Gone(r) == row[r] = "cancelled" /\ r \notin picked \cup active
           Final == \A r \in Run : Gone(r) => row'[r] = "cancelled" /\ r \notin picked' \cup active'
<1>1. MInv /\ [Next]_vars => [Final]_vars
  <2> SUFFICES ASSUME MInv, [Next]_vars, NEW r \in Run, Gone(r)
               PROVE  row'[r] = "cancelled" /\ r \notin picked' \cup active'
    OBVIOUS
  <2>0. row \in [Run -> RowState] /\ awaiting \subseteq Run
    BY DEF MInv, TypeOK
  <2>1. ASSUME NEW q \in Run, Reap(q) \/ Launch(q) \/ Submit(q)
        PROVE  row'[r] = "cancelled" /\ r \notin picked' \cup active'
    BY <2>0, <2>1 DEF Reap, Launch, Submit, Write, Done, tasks
  <2>2. CASE Fetch
    BY <2>2 DEF Fetch, Goto, Queued, rows, tasks
  <2>3. CASE StopEnd \/ Crash
    BY <2>3 DEF StopEnd, Crash, Exit, rows
  <2>4. CASE Start \/ Wake \/ EndCheck \/ EndLaunch \/ Stop \/ UNCHANGED vars
    BY <2>4 DEF Start, Wake, EndCheck, EndLaunch, Stop, Goto, rows, tasks, vars
  <2>5. ASSUME NEW q \in Run,
               StopCancel(q) \/ RunEnds(q) \/ CleanupEnds(q) \/ CancelTask(q) \/ RemoteRead(q)
        PROVE  row'[r] = "cancelled" /\ r \notin picked' \cup active'
    BY <2>5 DEF StopCancel, RunEnds, CleanupEnds, TaskStep, CancelTask, RemoteRead, Ask, rows, tasks
  <2>6. ASSUME NEW q \in Run, CancelRow(q) \/ CancelDone(q) \/ CancelResumes(q) \/ RemoteWrite(q)
        PROVE  row'[r] = "cancelled" /\ r \notin picked' \cup active'
    BY <2>0, <2>6 DEF CancelRow, CancelDone, CancelResumes, Conclude, RemoteWrite, Write, Ask,
                      rows, tasks
  <2> QED
    BY <2>1, <2>2, <2>3, <2>4, <2>5, <2>6 DEF Next, EventLoop, Tasks, Clients
<1> QED
  BY ManagerInvariance, <1>1, PTL DEF Spec, CancelFinal
=============================================================================
