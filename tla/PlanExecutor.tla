----------------------------- MODULE PlanExecutor -----------------------------
(***************************************************************************)
(* PlanExecutor.execute of src/horse_fish/orchestrator/plan_executor.py    *)
(* with the GoalPlanner of planner/goal.py: `hf run --foreground`.  A goal *)
(* is decomposed into a batch of tasks by a language model, the batch is   *)
(* run in dependency order, the model is asked whether the goal is met,    *)
(* and the tasks it names next are the batch of the following round.       *)
(*                                                                         *)
(* The model answers as it likes: Batches are the task lists it may name,  *)
(* each a sequence of items with a description and the descriptions it     *)
(* depends on.  A task is one run of the Orchestrator, of which only the   *)
(* outcome matters here.                                                   *)
(***************************************************************************)
EXTENDS Naturals, Sequences

CONSTANTS
  Name,      \* descriptions an answer may mention
  Goal,      \* the description of the fallback task
  Batches,   \* the task lists the model may answer with
  MaxRounds  \* PlanExecutor.max_rounds

Item    == [desc : Name, deps : SUBSET Name]
Outcome == {"completed", "partial_success", "failed"}

ASSUME PlanAssumption ==
  /\ Goal \in Name
  /\ Batches \subseteq Seq(Item) \ {<<>>}
  /\ MaxRounds \in Nat

VARIABLES
  pc, plan, round,      \* the coroutine and the Plan record
  turn, batch,          \* current_round of the loop and its round_tasks
  pending, ready, done, \* locals of _execute_round: items left, items of the
                        \* pass not yet run, completed_descriptions
  tasks,                \* plan.tasks: every task run so far
  row                   \* the state in the plans table, "none" before the first

planVars  == <<plan, round>>
roundVars == <<pending, ready, done>>
vars == <<pc, planVars, turn, batch, roundVars, tasks, row>>

Phase     == {"create", "decompose", "rounds", "scan", "run", "evaluate", "ended"}
PlanState == {"planning", "executing", "replanning", "completed", "failed"}
Over      == {"completed", "failed"}
Ran       == [round : Nat, desc : Name, deps : SUBSET Name, state : Outcome]

TypeOK ==
  /\ pc \in Phase /\ plan \in PlanState /\ round \in Nat /\ turn \in Nat
  /\ batch \in Seq(Item)
  /\ pending \subseteq DOMAIN batch /\ ready \subseteq pending /\ done \subseteq Name
  /\ tasks \in Seq(Ran)
  /\ row \in PlanState \cup {"none"}

Init ==
  /\ pc = "create" /\ plan = "planning" /\ round = 0
  /\ turn = 0 /\ batch = <<>>
  /\ pending = {} /\ ready = {} /\ done = {}
  /\ tasks = <<>> /\ row = "none"

\* _persist_plan: the state as it now is; a failing write is only logged.
Persist == row' \in {row, plan'}

Become(state) == plan' = state /\ Persist

Create ==
  /\ pc = "create"
  /\ Become("planning")
  /\ pc' = "decompose"
  /\ UNCHANGED <<round, turn, batch, roundVars, tasks>>

\* decompose_goal: the tasks of a well-formed, non-empty answer, or else the goal
\* itself as the only task.
Fallback == <<[desc |-> Goal, deps |-> {}]>>

\* What parsing makes of an answer: a list of objects, or not.
Parsed == Batches \cup {Fallback}

Decompose ==
  /\ pc = "decompose"
  /\ batch' \in Parsed
  /\ Become("executing")
  /\ pc' = "rounds"
  /\ UNCHANGED <<round, turn, roundVars, tasks>>

-----------------------------------------------------------------------------
(* _execute_round *)

\* A mutant of BeginRound: completed_descriptions outlives its round.
BeginRoundRemembering ==
  /\ pc = "rounds" /\ turn < MaxRounds
  /\ round' = turn
  /\ pending' = DOMAIN batch /\ ready' = {} /\ UNCHANGED done
  /\ pc' = "scan"
  /\ UNCHANGED <<plan, turn, batch, tasks, row>>

BeginRound ==
  /\ pc = "rounds" /\ turn < MaxRounds
  /\ round' = turn
  /\ pending' = DOMAIN batch /\ ready' = {} /\ done' = {}
  /\ pc' = "scan"
  /\ UNCHANGED <<plan, turn, batch, tasks, row>>

Unblocked == {i \in pending : batch[i].deps \subseteq done}

\* One pass of the while loop: the items whose dependencies are completed.
Scan ==
  /\ pc = "scan" /\ Unblocked # {}
  /\ ready' = Unblocked
  /\ pc' = "run"
  /\ UNCHANGED <<planVars, turn, batch, pending, done, tasks, row>>

\* A mutant of Run: only a completed task completes its description.
RunStrict(i) ==
  /\ pc = "run" /\ i \in ready /\ \A j \in ready : i <= j
  /\ \E state \in Outcome :
       /\ tasks' = Append(tasks, [round |-> round, desc |-> batch[i].desc,
                                  deps |-> batch[i].deps, state |-> state])
       /\ done' = IF state = "completed" THEN done \cup {batch[i].desc} ELSE done
  /\ pending' = pending \ {i} /\ ready' = ready \ {i}
  /\ pc' = IF ready = {i} THEN "scan" ELSE "run"
  /\ UNCHANGED <<planVars, turn, batch, row>>

\* The items of a pass run one after another, whatever became of the one before;
\* a description counts as completed whatever the outcome.
Run(i) ==
  /\ pc = "run" /\ i \in ready /\ \A j \in ready : i <= j
  /\ \E state \in Outcome :
       tasks' = Append(tasks, [round |-> round, desc |-> batch[i].desc,
                               deps |-> batch[i].deps, state |-> state])
  /\ done' = done \cup {batch[i].desc}
  /\ pending' = pending \ {i} /\ ready' = ready \ {i}
  /\ pc' = IF ready = {i} THEN "scan" ELSE "run"
  /\ UNCHANGED <<planVars, turn, batch, row>>

-----------------------------------------------------------------------------
(* The end of a round *)

Conclude(state) ==
  /\ Become(state)
  /\ pc' = "ended"
  /\ UNCHANGED <<round, turn, batch, roundVars, tasks>>

\* A mutant of RoundFailed: only the last task is looked at.
LastFailed == tasks # <<>> /\ tasks[Len(tasks)].round = round /\ tasks[Len(tasks)].state = "failed"

RoundFailed == \E k \in DOMAIN tasks : tasks[k].round = round /\ tasks[k].state = "failed"

\* A mutant of EndRound: the items that cannot proceed are waited for.
EndRoundPatient ==
  /\ pc = "scan" /\ pending = {}
  /\ IF RoundFailed
     THEN Conclude("failed")
     ELSE /\ Become("replanning")
          /\ pc' = "evaluate"
          /\ UNCHANGED <<round, turn, batch, roundVars, tasks>>

\* Nothing left that can proceed: every item ran, or the rest is dropped as a
\* deadlock, of which the caller learns nothing.
EndRound ==
  /\ pc = "scan" /\ Unblocked = {}
  /\ IF RoundFailed
     THEN Conclude("failed")
     ELSE /\ Become("replanning")
          /\ pc' = "evaluate"
          /\ UNCHANGED <<round, turn, batch, roundVars, tasks>>

\* evaluate_goal says that the goal is met, whatever tasks it names next.
GoalMet == pc = "evaluate" /\ Conclude("completed")

\* Not met and nothing to do next; so too when the call fails or its answer is
\* not an object with goal_met.
NothingNext == pc = "evaluate" /\ Conclude("failed")

\* A mutant of NextRound: the dropped items stay pending.
NextRoundLeftover ==
  /\ pc = "evaluate"
  /\ batch' \in Batches
  /\ turn' = turn + 1
  /\ pc' = "rounds"
  /\ UNCHANGED <<planVars, roundVars, tasks, row>>

\* Not met: the next batch.  The plan stays in replanning.
NextRound ==
  /\ pc = "evaluate"
  /\ batch' \in Batches
  /\ turn' = turn + 1
  /\ pc' = "rounds"
  /\ pending' = {} /\ ready' = {}
  /\ UNCHANGED <<planVars, done, tasks, row>>

RoundsExceeded == pc = "rounds" /\ turn >= MaxRounds /\ Conclude("failed")

\* run_task_fn raises, an item has no description, or the process is interrupted:
\* execute() ends and the plan, and its row, stay as they are.
Abort ==
  /\ pc # "ended"
  /\ pc' = "ended"
  /\ UNCHANGED <<planVars, turn, batch, roundVars, tasks, row>>

Ended == pc = "ended" /\ UNCHANGED vars

Execute ==
  \/ Create \/ Decompose \/ BeginRound \/ Scan \/ (\E i \in DOMAIN batch : Run(i))
  \/ EndRound \/ GoalMet \/ NothingNext \/ NextRound \/ RoundsExceeded

Next == Execute \/ Abort \/ Ended

Spec == Init /\ [][Next]_vars

\* asyncio.run drives execute() until it returns or raises: the calls to the model
\* have a timeout and a run of the Orchestrator ends (Termination of Engine).
FairSpec == Spec /\ WF_vars(Execute)
=============================================================================
