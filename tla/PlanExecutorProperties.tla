------------------------ MODULE PlanExecutorProperties ------------------------
(***************************************************************************)
(* The correctness properties of PlanExecutor.                             *)
(***************************************************************************)
EXTENDS PlanExecutor

\* Before a task runs, a task of the same round ran for every description it
\* depends on: what an earlier round did never counts for this one, a dependency
\* that nobody provides never counts at all.
DepsRanFirst ==
  \A k \in DOMAIN tasks : \A d \in tasks[k].deps :
    \E j \in 1 .. k - 1 : tasks[j].round = tasks[k].round /\ tasks[j].desc = d

\* The sets of items of a batch closed under "everything it depends on is there".
Closed(b) ==
  {C \in SUBSET DOMAIN b :
     \A i \in DOMAIN b : b[i].deps \subseteq {b[j].desc : j \in C} => i \in C}

\* The items that can run at all: the least closed set.
Runnable(b) == {i \in DOMAIN b : \A C \in Closed(b) : i \in C}

\* The while loop runs exactly the items that can run in some order: when the goal
\* is evaluated, what was dropped depends, directly or not, on a cycle or on a
\* description nobody provides.
DropsOnlyBlocked == pc = "evaluate" => DOMAIN batch \ pending = Runnable(batch)

\* A failed task ends the plan with its round: no later round runs anything, and
\* the plan is neither called nor recorded as completed.
FailureEnds ==
  \A k \in DOMAIN tasks : tasks[k].state = "failed" =>
    /\ round = tasks[k].round
    /\ pc \notin {"evaluate", "rounds"}
    /\ plan # "completed" /\ row # "completed"

\* Whatever the model answers, and however often it asks for more, execute() comes
\* to an end: rounds are limited and a deadlocked batch is noticed.
PlanEnds == <>(pc = "ended")

-----------------------------------------------------------------------------
(* The inductive invariant behind them *)

NoFailure == \A k \in DOMAIN tasks : tasks[k].state # "failed"

\* A failed task is of the current round, and nothing but the end of the plan
\* follows it.
FailInv ==
  /\ pc \in {"create", "decompose", "rounds", "evaluate"} => NoFailure
  /\ \A k \in DOMAIN tasks : tasks[k].state = "failed" => tasks[k].round = round
  /\ plan = "completed" \/ row = "completed" => NoFailure /\ pc = "ended"

Attempted == DOMAIN batch \ pending

\* Within a round: the completed descriptions are those of the items that ran, each
\* with its task, and the items of a pass depend on nothing else.
RoundInv ==
  pc \in {"scan", "run", "evaluate"} =>
    /\ done = {batch[i].desc : i \in Attempted}
    /\ \A d \in done : \E k \in DOMAIN tasks : tasks[k].round = round /\ tasks[k].desc = d
    /\ \A i \in ready : batch[i].deps \subseteq done

\* Only items that can run are run, and the loop does not stop before the last one.
LoopInv ==
  /\ pc \in {"create", "decompose"} => pending = {} /\ ready = {}
  /\ pc \in {"scan", "run", "evaluate"} =>
       \A C \in Closed(batch) : Attempted \cup ready \subseteq C
  /\ pc = "evaluate" => Unblocked = {}

PInv == TypeOK /\ DepsRanFirst /\ FailInv /\ RoundInv /\ LoopInv
=============================================================================
