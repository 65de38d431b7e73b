-------------------------- MODULE EngineProperties --------------------------
(***************************************************************************)
(* The correctness properties of one run of the Orchestrator.              *)
(***************************************************************************)
EXTENDS Engine

-----------------------------------------------------------------------------
(* Bookkeeping of _execute *)

\* The local active_count of _execute is decremented in two places (per polled
\* subtask, and once per stall pass by the number _check_stalls returns); it
\* nevertheless always equals the number of running subtasks, so the dispatch
\* limit is never computed from a drifted counter.
ActiveCountExact ==
  pc \in PollLoop => active = Cardinality(In("running")) + stalled

\* The agent that is polled, stalled out and reviewed for a subtask is always
\* the last one spawned for it: neither agent_map nor Subtask.agent survives a
\* retry, and a gate retry re-enters _execute with the same agent.
CurrentAgent ==
  \A s \in Subtask :
    /\ st[s] \in {"running", "done"} => agent[s] = spawns[s] /\ agent[s] # 0
    /\ pc \in PollLoop /\ st[s] = "running" => agentMap[s] = agent[s]

\* A subtask never consumes more agents than max_retries + 1, however stalls,
\* gate retries and failures to spawn interleave.
SpawnBudget == \A s \in Subtask : spawns[s] <= MaxRetries + 1

\* No subtask is ever started while something it depends on was never started:
\* subtasks on a dependency cycle, or with a dependency nobody provides, and
\* everything behind them, never get an agent.
DepsStartFirst ==
  \A s \in Subtask : spawns[s] > 0 => \A d \in deps[s] : d \in Subtask /\ spawns[d] > 0

\* A dispatch never takes the number of running subtasks beyond max_agents: the
\* pass that spawns several agents in a row re-checks the limit before each one,
\* also when a gate retry has put subtasks back to running behind its back.
DispatchWithinLimit ==
  [][\A s \in Subtask :
       st[s] = "pending" /\ st'[s] = "running" => Cardinality(In("running")') <= mode.limit]_vars

-----------------------------------------------------------------------------
(* The inductive invariant behind the bookkeeping properties *)

\* A handler runs only in its state, and no agent exists before the plan does.
PhaseInv ==
  /\ pc = "scout" => runState = "scouting"
  /\ pc = "plan" => runState = "planning"
  /\ pc \in PollLoop => runState = "executing"
  /\ runState \in {"scouting", "planning"} => \A s \in Subtask : spawns[s] = 0

\* What is left of a loop are subtasks in the state the loop is about.
TurnInv ==
  /\ pc \in {"sleep", "poll", "stalls"} => todo \subseteq In("running")
  /\ pc \in {"review", "merge"} => todo \subseteq In("done")

\* A live attempt is the one that follows the retries counted so far.
AttemptInv ==
  \A s \in Subtask :
    /\ st[s] = "pending" => spawns[s] = retry[s]
    /\ st[s] \in {"running", "done"} => spawns[s] = retry[s] + 1
    /\ spawns[s] <= retry[s] + 1

\* The inductive invariant of one run: types, phases, loops, attempts, agents,
\* the running counter and the order in which dependencies start.
IInv ==
  /\ TypeOK /\ PhaseInv /\ TurnInv /\ AttemptInv
  /\ CurrentAgent /\ ActiveCountExact /\ DepsStartFirst

-----------------------------------------------------------------------------
(* What a run promises *)

\* Who passed the gates of the latest review, and whose work is on main.
Approved == {s \in Subtask : gated[s] > 0}
OnMain   == {s \in Subtask : landed[s] > 0}

Lifecycle == INSTANCE RunLifecycle WITH
  partial  <- mode.partial,
  approved <- Approved,
  merged   <- OnMain,
  over     <- pc = "ended"

\* The polling engine implements the promise of RunLifecycle: subtasks start only
\* after their dependencies, nothing reaches main before every surviving subtask
\* passed the gates of one and the same review, a failed subtask never comes
\* back, and a run is completed only when the work of every subtask is on main.
ImplementsLifecycle == Lifecycle!Spec

\* Where a run of each state is in its loop.
PlaceInv ==
  /\ pc = "review" => runState = "reviewing"
  /\ pc = "merge" => runState = "merging"
  /\ runState = "reviewing" => pc \in {"return", "review", "ended"}
  /\ runState = "merging" => pc \in {"return", "merge", "ended"}

\* The worktree of finished work holds an edit, as long as there is a worktree.
WorkInv == \A s \in Subtask : st[s] = "done" /\ wt[s] => ver[s] > 0

\* A review starts from nothing, and has approved whom it has turned to and left
\* done; it sends somebody back if and only if somebody runs.
ReviewInv ==
  pc # "ended" =>
    /\ runState \in {"scouting", "planning", "executing"} => Approved = {}
    /\ runState = "reviewing" =>
         /\ In("pending") = {}
         /\ pc = "return" =>
              Approved = {} /\ In("running") = {} /\ (mode.partial \/ In("failed") = {})
         /\ pc = "review" =>
              /\ Approved = In("done") \ todo
              /\ reexec <=> In("running") # {}
              /\ allPassed => mode.partial \/ In("failed") = {}
    /\ runState = "merging" =>
         /\ In("done") \subseteq Approved
         /\ In("done") \cup In("failed") = Subtask
         /\ mode.partial \/ In("failed") = {}

\* Only a merge brings work to main, all of it that is done unless git refused.
MergeInv ==
  /\ pc # "ended" /\ runState \in {"scouting", "planning", "executing", "reviewing"} => OnMain = {}
  /\ runState = "merging" /\ pc = "return" => OnMain = {}
  /\ pc = "merge" =>
       /\ OnMain \subseteq In("done") \ todo
       /\ mergeFailed => mode.queue
       /\ ~mergeFailed /\ ~CommitCanFail => OnMain = In("done") \ todo

\* The inductive invariant of the refinement, together with IInv.
LifeInv == PlaceInv /\ WorkInv /\ ReviewInv /\ MergeInv

\* Nothing reaches main that the gates of the latest review did not pass, or that
\* failed: neither a subtask approved before a gate retry of another, nor one whose
\* merge was given up.
OnlyApprovedLand == OnMain \subseteq Approved \cap In("done")

\* The builds the promise is for.  Two ways out of it are left out: git's refusal to
\* commit, which merge ignores, and a merge queue together with partial success,
\* where a conflict leaves its subtask done.
Promised == ~(mode.partial /\ mode.queue) /\ ~CommitCanFail

\* Completed means that the work of every subtask is on main.
CompletedIsLanded == runState = "completed" /\ Promised => OnMain = Subtask

\* The subtasks that can start at all: the least set that holds every one whose
\* dependencies it holds.
Reachable ==
  LET Closed == {C \in SUBSET Subtask : \A s \in Subtask : deps[s] \subseteq C => s \in C}
  IN  {s \in Subtask : \A C \in Closed : s \in C}

\* However the loop of _execute, stalls and gate retries interleave, no agent is ever
\* spent on a subtask that no order of the plan could have started.
OnlyReachableStart == \A s \in Subtask : spawns[s] > 0 => s \in Reachable

NoDeps == [s \in Subtask |-> {}]

\* Why a run may fail: planning failed, a subtask failed, a branch conflicted in the
\* merge queue, or the deadlock check fired, and then exactly those subtasks are done
\* that could ever have been.
FailsForCause ==
  runState = "failed" =>
    \/ deps = NoDeps /\ In("pending") = Subtask
    \/ In("failed") # {} \/ mergeFailed
    \/ In("done") = Reachable /\ Reachable # Subtask

\* Before there is a plan nothing has happened to a subtask, and a review that will
\* fail the run has failed a subtask.
CauseInv ==
  /\ runState \in {"scouting", "planning"} => deps = NoDeps /\ In("pending") = Subtask
  /\ pc = "review" /\ ~allPassed => In("failed") # {}

\* A gate retry "re-enters the poll loop": when a subtask whose gates failed is
\* done again, its agent has changed something since.
GateRetryFixed ==
  [][\A s \in Subtask :
       st[s] = "running" /\ st'[s] = "done" => ver[s] > rejected[s]]_vars

-----------------------------------------------------------------------------
(* Progress *)

\* The pane of an agent that had been silent changes again.
Chatter == pc = "poll" /\ \E s \in todo : st'[s] = "running" /\ quiet'[s] < quiet[s]

\* What is left to a subtask: its retries, its gate retries and the states ahead of it.
Stage(state) == CASE state = "pending" -> 3 [] state = "running" -> 2
                  [] state = "done" -> 1 [] state = "failed" -> 0
Budget == [s \in Subtask |-> 2 * (MaxRetries - retry[s]) + 2 * (MaxGateRetries - gateRetry[s]) + Stage(st[s])]

\* Where run() is, and what is still ahead of it when nothing is spent and no time passes.
Place == IF pc = "return" THEN runState ELSE IF pc = "review" /\ reexec THEN "rework" ELSE pc
Ahead == [scout |-> 14, planning |-> 13, plan |-> 12, rework |-> 11, executing |-> 10, poll |-> 9,
          stalls |-> 8, dispatch |-> 7, sleep |-> 6, reviewing |-> 5, review |-> 4, merging |-> 3,
          merge |-> 2, completed |-> 1, partial_success |-> 1, failed |-> 1, ended |-> 0]

Below(f, g) == f # g /\ \A s \in Subtask : f[s] <= g[s]

Spends   == Below(Budget', Budget)
Ages     == Budget' = Budget /\ Below(quiet, quiet')
Advances ==
  /\ Budget' = Budget /\ quiet' = quiet
  /\ \/ Ahead[Place'] < Ahead[Place]
     \/ Place' = Place /\ todo' \subseteq todo /\ todo' # todo

\* The coroutine never spins: each of its steps spends a subtask's budget, or lets a
\* silent agent age, or advances through the loop, unless an agent is chattering; what
\* the agents do gives nothing back.
NeverSpins ==
  [][\/ Spends \/ Ages \/ Advances \/ Chatter
     \/ Agents /\ UNCHANGED <<Budget, quiet, Place, todo>>]_vars

\* A running subtask that has been silent for its timeout is on its way to _check_stalls.
SilentNoticed ==
  \A s \in In("running") :
    quiet[s] >= Timeout(s) => pc \in {"poll", "ended"} \/ (pc = "stalls" /\ s \in todo)

\* What can be dispatched is still ahead of a dispatch pass.
ReadyAhead == pc = "dispatch" => \A s \in In("pending") : DepsMet(s) => s \in todo

\* The invariant behind it: silence is bounded and noticed, and there is somebody to
\* wait for whenever the loop sleeps.
SilenceInv ==
  /\ \A s \in Subtask : quiet[s] <= 2 * StallTicks
  /\ SilentNoticed /\ ReadyAhead
  /\ pc \in {"dispatch", "sleep", "poll"} => stalled = 0
  /\ pc = "sleep" => In("running") # {}

\* Unless some agent keeps its pane changing forever without ever producing a
\* diff, the run ends: stalls, gate retries and unmet dependencies are all
\* bounded, whatever the agents do and whichever calls fail.
Termination == <>[][~Chatter]_vars => <>(pc = "ended")
=============================================================================
