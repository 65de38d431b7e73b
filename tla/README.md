# Formal models of Horse Fish

TLA+ modules, TLC runs and TLAPS proofs about Horse Fish, a program that splits
a task into subtasks, lets coding agents work on them in tmux sessions and git
worktrees, validates the results and merges them. All paths below are relative to
the root of the repository; `engine.py` and the like live under
`src/src/horse_fish/`.

## 1. The system

| Component | State it keeps | Operations | Talks to |
|---|---|---|---|
| **Orchestrator** (`orchestrator/engine.py`, `middleware.py`) | a `Task` with its `Subtask`s, locals of `_execute` (`agent_map`, `active_count`) | `run`, and a handler per state: `_scout`, `_plan`, `_execute`, `_review`, `_merge`; `_check_stalls` | pool, planner, gates, merge queue, store (awaited calls) |
| **RunManager** (`orchestrator/run_manager.py`) | `_active_tasks`, the `runs` table | `submit`, `start`, `cancel`, `stop` | one Orchestrator task per run; other processes through SQLite |
| **AgentPool** (`agents/pool.py`) | `agents` table, output hashes | `spawn`, `send_task`, `check_status`, `check_heartbeat`, `collect_result`, `respawn`, `release`, `cleanup`, `kill_agents_for_run`, scouts | tmux, worktrees, store |
| **TmuxManager** (`agents/tmux.py`) | none; sessions live in tmux | `spawn`, `send_keys`, `capture_pane`, `kill_session`, `is_alive` | tmux |
| **WorktreeManager** (`agents/worktree.py`) | worktrees, branches, the main checkout | `create`, `merge`, `remove`, `cleanup`, `get_diff` | git |
| **MergeQueue** (`merge/queue.py`) | `merge_queue` table | `enqueue`, `process`, `pending`, `clear` | worktrees, store |
| **ValidationGates** (`validation/gates.py`) | none | `run_all`, `auto_fix_and_commit` | compiler, ruff, pytest, git |
| **Store** (`store/db.py`, `models.py`) | the SQLite tables | upserts, queue queries, migrations | everybody |
| **Planner** (`planner/decompose.py`, `smart.py`, `scout.py`) | none | decompose, classify, scout | a language model |
| **PlanExecutor** (`planner/goal.py`, `orchestrator/plan_executor.py`) | a `Plan` | rounds of tasks, evaluation, replanning | Orchestrator |
| **Memory** (`memory/*.py`) | `memory_entries`, `lessons` | store, batch ingest, search | Cognee |
| **AgentSelector** (`dispatch/selector.py`) | none | score and select an agent | pool |
| Runtime adapters, prompts, dashboard, CLI, observability, smoke | none that a run depends on | | |

What is hard here:

* **Concurrency.** Everything in a process is one asyncio loop, so steps
  interleave at `await`s: agents edit, commit and die between any two awaited
  calls of the orchestrator, several orchestrators share one agents table, and
  `hf cancel` works on the database from another process.
* **Retries.** Stall retries, gate retries and dispatch failures act on the same
  subtask with different counters, and `_execute` is left and re-entered.
* **Partial failure.** Releasing an agent, dispatching it and merging are
  sequences of external commands any of which can fail.
* **Restarts.** The database survives a process, its tasks and locals do not.

`PROJECT.json` lists every hazard at its line with the properties that cover it.
The properties that make each component correct, in short: the Orchestrator
counts and addresses its agents correctly, respects limits and dependencies,
merges only what was validated and ends; the RunManager never exceeds its limit,
loses, repeats or misreports a run; the pool's cleanup misses no agent and no
attempt gets another's session; the merge queue merges in order, drops nothing
unmerged and leaves main usable; the planner blocks only the subtasks that depend on
something it removed, and tries to release every scout that got its row; the plan
executor runs each task after its dependencies and drops only what can never run;
memory ingests, of what is in the table, the oldest first, and loses an entry only with
a batch of which another domain came through; the database is complete at the version
it says, wherever a migration was interrupted.

## 2. Modules

| Module | Contents |
|---|---|
| `Engine` | the Orchestrator of one run, with its agents, sessions and worktrees |
| `RunLifecycle` | abstract: what a run promises, without agents, polling or retries |
| `EngineProperties` | properties of `Engine`, the inductive invariants `IInv`, `LifeInv`, `CauseInv` and `SilenceInv`, the mapping to `RunLifecycle` |
| `EngineProofs` | TLAPS proofs about `Engine` |
| `RunManager` | the queue of runs, the manager's event loop, cancel, stop, crash |
| `RunManagerProperties` | properties of `RunManager`, the inductive invariant `MInv` |
| `RunManagerProofs` | TLAPS proofs about `RunManager` |
| `FifoQueue` | abstract: what the merge queue promises |
| `MergeQueue` | the queue's table, `process`, and `WorktreeManager.merge` command by command, for several processes |
| `MergeQueueProperties` | properties of `MergeQueue`, the inductive invariant `QInv`, the mapping to `FifoQueue` |
| `MergeQueueProofs` | TLAPS proofs about `MergeQueue` |
| `AgentPool` | the pool's operations between tmux and git calls, for several runs at once |
| `AgentPoolProperties` | properties of `AgentPool`, the inductive invariant `PoolInv` |
| `AgentPoolProofs` | TLAPS proofs about `AgentPool` |
| `Planning` | `_scout` and `_plan` with the SmartPlanner: the scout agent, classification, decomposition, resolved dependencies |
| `PlanningProperties`, `PlanningProofs` | its properties, the inductive invariant `PlanInv`, the proofs |
| `PlanExecutor` | `hf run --foreground`: rounds of tasks, evaluation, replanning |
| `PlanExecutorProperties`, `PlanExecutorProofs` | its properties, the inductive invariant `PInv`, the proofs |
| `Memory` | the memory table and its batch ingestion into Cognee, by several processes |
| `MemoryProperties`, `MemoryProofs` | its properties, the inductive invariant `IngestInv`, the proofs |
| `Store` | opening and migrating the database, by several processes that may die |
| `StoreProperties`, `StoreProofs` | its properties, the inductive invariant `SchemaInv`, the proofs |
| `MCEngine`, `MCRunManager`, `MCMergeQueue`, `MCAgentPool`, `MCPlanning`, `MCPlanExecutor`, `MCMemory`, `MCStore` | constants for TLC |

The modules meet where the code's parts call each other, each seeing of the other
what it can tell apart: `Planning` ends with the subtasks and dependencies `Engine`
starts from (`DepChoices`, where 0 is a description no subtask has); `Engine` is a
task with an outcome to `RunManager` and `PlanExecutor`, and an actor that learns to
`Memory`; `AgentPool` is the inside of the calls that `Engine` takes in one step, and
`MergeQueue` that of `QueueConflict`, `QueueRaises` and `MergeOk`.

Operators introduced by the comment "A mutant of X" are not part of a
specification: each is X with a plausible mistake, and `PROJECT.json` names the
property that must fail when it takes the place of X.

### Engine

`pc` says where the coroutine of `run()` is: a handler (`scout`, `plan`, `review`,
`merge`), a part of `_execute` (`dispatch`, `sleep`, `poll`, `stalls`), between
two handlers (`return`) or over (`ended`). A loop over `run.subtasks` is one step
per subtask, because each iteration awaits something and agents act in between;
`todo` is the rest of the loop. `mode` is how the Orchestrator was built: partial
success, a merge queue, the limit `max_agents`. The `Subtask` fields are `st` (state), `agent`,
`retry`, `gateRetry`, and `quiet`, the poll intervals since `last_activity_at`;
agents are numbered by `spawns[s]`. The locals of `_execute` are `agentMap`,
`active` and `stalled` (what `_check_stalls` is going to return), those of
`_review` and `_merge` are `reexec`, `allPassed`, `anyPassed` and `mergeFailed`.

| Code | Actions |
|---|---|
| `run()`: loop, `finally`, cancellation | `EnterPlan`, `EnterExecute`, `EnterReview`, `EnterMerge`, `Finish`, `Cancel` |
| `_scout`, `_plan` | `Scout`, `Plan` |
| `_execute`, dispatch | `DispatchOk`, `DispatchFails`, `EndDispatch` |
| `_execute`, polling | `Wake`, `PollDead`, `PollDone`, `PollBusy`, `PollAborts`, `EndPoll` |
| `_check_stalls` | `StallRetry`, `StallExhausted`, `EndStalls` |
| `_review` | `GatesPass`, `GateRetry`, `GateReject`, `EndReview` |
| `_merge` | `MergeOk`, `MergeFails`, `QueueConflict`, `QueueRaises`, `EndMerge` |
| agents | `Edit`, `Commit`, `Exit` |
| `AgentPool.cleanup` of another run | `ForeignCleanup` |

What a call returns has an operator of its own where several actions depend on it:
`Collected` (`collect_result`: success is a non-empty pane, which a dead session does
not have: `HasPane`), `Heartbeat`, `AutoFix` and `AutoCommit` (the worktree is
committed unless the fixer or git fails), `GateResults` (what the three gates may say:
where the worktree is gone, no file is left that does not compile, and the other two
cannot be started) with `GatesMayPass`, and `MergeCommit`.

Work carries no data. `ver[s]` counts the edits in the worktree of `s` and
`head[s]` is the last edit its branch has committed: `get_diff` is non-empty when
`ver[s] > 0`, whether or not the edit is committed, and a merge brings `head[s]`
to main. `gated`, `rejected` and `landed` are history variables: the edit that
passed the gates of the latest review, that failed them, and that was merged.

Calls of the pool can fail wherever the code handles it. A failed dispatch may
leave a worktree, or a worktree and its session, behind; `Release` may fail at
either of its two steps, which `_check_stalls` ignores; a status check outside a
`try` ends the run (`PollAborts`); tmux refuses a session name in use.

### RunManager

`row` and `at` are the `runs` table (state and creation order), `task` and
`outcome` the asyncio tasks, `active` the keys of `_active_tasks`, `loop` the place
in `start()`. An iteration of the loop has no suspension point, so tasks and
local cancels move only while it waits (`Waiting`); each statement on the
database is a step of its own, between which other processes act
(`Submit`, `RemoteRead`, `RemoteWrite`).

| Code | Actions |
|---|---|
| `submit` | `Submit` |
| `start` | `Start`, `Wake`, `EndCheck`, `EndLaunch` |
| `_check_completed_tasks` | `Reap` |
| `_dispatch_queued_runs` | `Fetch`, `Launch` |
| `_run_orchestrator` | `RunEnds`, `CleanupEnds` |
| `cancel`, same process | `CancelRow`, `CancelTask`, `CancelDone`, `CancelResumes` |
| `cancel`, another process (`hf cancel`) | `RemoteRead`, `RemoteWrite` |
| `stop` | `Stop`, `StopCancel`, `StopEnd` |
| the process dies | `Crash` |

No command of the program starts the loop (`hf run` and `hf cancel` only write rows); the
design has a process such as the dashboard do so. The model has one such process, since
nothing claims a queued row (a hazard no property covers).

An Orchestrator is here only a task that returns an outcome, raises or is
cancelled, then cleans its pool up. The orchestrator writes a row of its own
under another id, which this model leaves out.

### MergeQueue

Callers are coroutines that may merge: `hf merge`, an orchestrator with a queue, an
orchestrator that merges directly (strictly, or allowing partial success). They
share the rows (`status`, `prio`, `branch`; a row's number is its `created_at`), the
worktrees (`exists`) and the main checkout (`merged`, and `mid`, the conflicting merge it
is in). `at` is the caller's next git command or statement, `todo` its snapshot of
the rows, `cur` the one it merges.

| Code | Actions |
|---|---|
| `enqueue`, `clear` | `Enqueue`, `Clear` |
| `process`, and the loop of `_merge` without a queue | `Fetch`, `Begin`, `Turn`, `Return`, `RecordMerged`, `RecordConflict` |
| `WorktreeManager.merge` | `Commit`, `Checkout`, `CheckoutFails`, `MergeClean`, `MergeConflict`, `MergeRefused`, `MergeBlocked`, `Diff`, `Abort` |
| `WorktreeManager.remove`, by the pool | `Discard` |
| outside the code | `Crash`, `Resolve` |

Which contents conflict is the constant `Clash`. What the except clause of `merge`
recognises is what git really writes to stderr: nothing about a conflict of its own
(that goes to stdout), "unresolved conflict" when main is in a merge already, and
the command line with the branch name (`Telltale`). In the first case the error is
raised and main stays in the merge, which the run `merge_conflict` shows.

### AgentPool

Every run has a pool, but the `agents` table, the tmux server and the worktrees are
shared. A name (session, worktree and branch are found by it) is spawned several
times, and `session` and `tree` record which attempt the things of that name belong
to; `row[a][k]` is the table's row of an attempt. `op` is the call the run is
suspended in; at rest an agent is `free` (not spawned, or released for a retry),
`held` by its subtask, or `given_up`. `sweep` and `removing` are the rest of the list
`cleanup` read at its start, and the row whose session it has killed.

| Code | Actions |
|---|---|
| `spawn`, `spawn_scout` | `Spawn`, `Create`, `Start`, `Ready`, `NotReady`, `Expire`, `Discard` |
| `send_task` | `Send`, `Enter`, `Sent`, `SendFails`, `SendAgain` |
| `check_status`, `respawn` | `CheckStatus`, `Respawn` |
| `release`, `release_scout` | `Release`, `Kill`, `Remove` |
| `cleanup` (end of a run, `hf clean`) | `EndRun`, `SweepKill`, `SweepRemove`, `RemoveOld`, `EndSweep` |
| outside the code | `Crash`, `Exit` |

When operations are called is taken from the orchestrator: a failed dispatch is not
repeated, a stall retry follows a release whether or not that worked, a respawn
follows a status check. `send_task` is three steps, the text, the Enter that follows a
moment later, and the mark on the row: another run's cleanup may come between any two of
them. `stuck` is a history variable: the
agents of whom tmux or git refused to remove something, whom the properties leave
out. tmux can refuse only where there is a session to kill: that it is `Missing` is no
error of `kill_session`. `kill_agents_for_run` is not modelled: it selects rows by `run_id`, which the
orchestrator never sets.

### Planning

`pc` is the place in `_scout` (`scout`; `ready`, `prompt`, `poll` and `release` of the
scout agent; `fallback`), then in `_plan`
(`plan`, `decompose`, `resolve`). Descriptions are names, some of them ceremony
(`_CEREMONY_PATTERNS`); the language model may answer with any list of `Answers`. A
scout's brief is `bare` or has acceptance `criteria`, which the subtasks take over.
`scout` is what there is of the scout agent: a session that is `starting`, one that has
its row (`live`), one that was `released` or could not be killed (`left behind`), or a
`stray` one, whose spawn raised or was cancelled between `new-session` and the `INSERT`,
so that `scout_slot` is still `None` and the `finally` block has nothing to release.

| Code | Actions |
|---|---|
| `spawn_scout`: `new-session`; the wait for the prompt and the `INSERT` | `SpawnScout`; `ScoutReady`, `ScoutNotReady` |
| `_scout`, prompt | `PromptScout` |
| `_scout`, polling; `parse_scout_output` | `PollScout` |
| `_scout`, `finally` | `ReleaseScout` |
| `programmatic_scout` | `FallbackScout` |
| `SmartPlanner.decompose`, classification | `Classify` |
| `SmartPlanner.decompose`, then strip and cap | `Decompose`, `DecomposeFails` (`Work`, `Capped`, `Kept`) |
| `Planner.decompose` | `PlainDecompose` |
| `_resolve_deps` | `Resolve` (`IdOf`) |
| cancellation of the run | `Cancel` (`AfterCancel`) |

Dependencies are descriptions until `Resolve`: `IdOf` takes the last subtask of a
description, as the dictionary of `_resolve_deps` does, and 0 for an unknown one.

### PlanExecutor

`batch` is the list of tasks of a round, `pending` its items not yet run, `ready` those
of the current pass of the `while` loop, `done` is `completed_descriptions`. `tasks` is
every task run so far, and `row` the plan's state in the database, which may lag:
`_persist_plan` only logs a failing write.

| Code | Actions |
|---|---|
| `execute`: create, decompose | `Create`, `Decompose` |
| `_execute_round` | `BeginRound`, `Scan`, `Run`, `EndRound` |
| evaluation and replanning | `GoalMet`, `NothingNext`, `NextRound`, `RoundsExceeded` |
| an exception or an interrupt | `Abort` |

### Memory

An entry is its timestamp and its domain. `store_entry` takes the timestamp when it makes
the `MemoryEntry`, then writes the memvid file, and inserts the row last; other processes
act in between, so that rows appear in any order. `rows` is the set of entries in the
table, `draft` the entry an actor has taken a timestamp for and not yet inserted (it may
die with it). An actor is a process: a call of `hf memory store`, a completed run that
learns or a call of `hf memory organize`; `batch` is what it fetched, `left` what of it
is still to be added, `bad` the domains in which an add failed. `copied` is what
Cognee holds. `missed` and `late` are history variables: rows that came while a newer
entry was in somebody's batch, and those of them that this made too late, because the
newer one was marked.

| Code | Actions |
|---|---|
| `store_entry` | `Stamp` (a part of the next two), `Insert` |
| `hf memory store` | `StoreEntry` |
| `_learn`: store the results | `Learn`, `StoreResult` |
| `get_uningested` | `Fetch` (`Oldest`) |
| `batch_ingest`, entry by entry | `Add`, `AddFails` (`Before` is its order) |
| `mark_ingested` | `Mark` (`Counted`) |
| the actor dies, is cancelled or raises | `Abandon` |

### Store

The schema is `tables` and `columns`, the columns being those the migrations add or
rely on; `rows` is the set of tables that are not empty. `Script` is the list of
migrations, statement by statement. A process is `closed`, `migrating` (at statement
`step` of version `ver`) or `open`. `torn` and `overlap` are history variables: the
migrations that died after they had added a column, and those that were at work while
another process began to migrate. A process begins with whatever an earlier release
left: any version, with or without the tables from before versions existed.

| Code | Actions |
|---|---|
| `Store.__init__`, start of `migrate` | `Open` (`Current`) |
| `executescript` | `Apply`, one statement at a time |
| `INSERT INTO schema_version` | `Record` |
| SQLite refuses a statement | `Raise` |
| the command ends or dies, the database stays locked | `Leave` |
| the upserts and inserts of the commands | `Insert` |

## 3. Runs

| Run | Instance | Shows |
|---|---|---|
| `engine_core` | 2 subtasks; 5 dependency maps (independent, both chains, a cycle, an unknown dependency); `max_agents` 1 and 2; 1 stall retry, 1 gate retry; stall after 1 poll; strict, queued and partial modes; foreign cleanup | the safety of one run, that it implements `RunLifecycle`, and `Termination` |
| `manager` | 3 runs, 2 slots, 1 crash, symmetric runs | the safety of the manager |
| `manager_live` | 2 runs, 1 slot, 1 crash | `QueueDrains`, `RunsEnd` |
| `merge_queue` | 2 callers (symmetric), 2 rows, 2 priorities, 2 branches that clash, one with a telltale name | `QInv`, and that the queue implements `FifoQueue` |
| `pool` | a run with a builder, a run with a scout, `hf clean`; 2 attempts; failing kills and removals; an old worktree | what cleanup, retries and respawns may not do |
| `planning` | every answer of one or two items over two pieces of work and a ceremony, each with at most one dependency; longer chains around the caps of 3 and 8; 3 scout polls | what stripping, capping and resolving may do to a plan; a scout with a row is tried to be released; the phases end |
| `plan` | up to 2 rounds; batches with a chain listed backwards, a cycle, an unknown description, a repeated one, a dependency on another round | order within a round, what a deadlock drops, a failure ends the plan, the plan ends |
| `memory` | 2 actors, 2 domains, batches of 2, 4 timestamps | order, what may be lost, and that a domain Cognee accepts is delivered |
| `store` | 3 processes (symmetric), all 5 migrations, every initial version | completeness, surviving rows, and why a migration may fail |
| `gate_retry` | violation | a gate retry re-completes on the rejected diff |
| `merge_conflict` | violation | a conflict is not recognised and leaves main in a merge |
| `isolation` | violation | the cleanup of one run takes the agents of another |

Why the bounds are enough to meet the interesting cases. Two subtasks on one slot
already compete for it, and with a dependency one waits for the other; a retry of
each kind makes every counter reach its limit and go through "one left" and
"none left", and both kinds can hit the same subtask; with two slots both
subtasks run, stall and are reviewed together. Three runs on two slots
let one wait while two compete; one crash lets every row survive its process
once. In `merge_queue` two callers can hold the same row, one of them stale, and the
two branches give one clean and one conflicting merge in either order. In `pool` the
second attempt of a name meets what the first left behind, and three cleanups
overlap. In `planning` every way two items can depend on each other occurs with every
tier, and the long lists are cut by each cap. In `plan` a second round repeats the
names of the first, so that a description completed in the wrong round would count.
In `memory` a third entry makes one batch full and one short, with a fourth two batches
of different entries follow one another, the two actors hold overlapping batches of both
domains, and a row may come before, during and after the batch of a newer one. In `store` two processes migrate at
once while a third one has the database open or fills it. `MaxEdits` 1 is enough where only
"is there a diff" matters; `gate_retry` uses 2. `MaxCrashes`, `MaxEdits`, `Entries`,
`MaxEntries`, `Attempts`, the answers of the language model and the finite sets of run
ids, agents, branches and processes are the only bounds that are not in the code.
`quiet` stops at the longest timeout, where no guard can tell more.

`engine_core` has no mode with a merge queue and partial success together: a
conflict then leaves the subtask done and the run becomes `completed` although
that branch is not on main, so `ImplementsLifecycle` does not hold. No factory
builds that combination; it is listed as a hazard.

Violation runs and the statements they refute are in `PROJECT.json` under
`findings`. Other places where the models follow the code and a document says
otherwise, without a run of their own:

* `docs/plans/2026-03-08-orchestrator-cli-design.md:50` speaks of a timeout per
  subtask; `_execute` has only the stall timer, which a changing pane resets.
* `README.md:48` has agents' work merged after validation; the merge commits whatever is
  in the worktree then, edits made after the gates included (`MergeOk` merges
  `ver[s]`, not `gated[s]`).
* The multi-run design (`docs/plans/2026-03-09-multi-run-manager-design.md:46`) lets `hf
  cancel` stop a run; from another process it only writes the row (`RemoteWrite`).
* `docs/plans/2026-03-09-cognee-universal-memory-design.md:39` calls an entry ingested
  when it is organized into Cognee; a batch of which one domain got through is marked
  as a whole (`Mark`).
* Results are added to the Cognee dataset `run_result`, while `find_similar_tasks`
  searches `run_results`; neither is in a model, since no state depends on it.

### Fairness

`Engine!FairSpec` asks only that the coroutine takes its next step or raises while
it can (`WF_vars(Coroutine \/ Raise)`): asyncio resumes a coroutine whose
`sleep` or subprocess is done. Nothing obliges an agent to edit, commit or exit,
and no call is assumed to succeed. `Termination` has one premise, that no agent
changes its pane forever without a diff: only such an agent keeps a run going
without end, as the code has no timeout for a subtask. `RunManager!FairSpec` asks that the loop keeps
turning, also after the process was started again, and, strongly, that an
orchestrator and its cleanup end: they move only while the loop waits, and asyncio
serves every ready task each time it does. That an Orchestrator ends is what
`Termination` shows, under its premise. No client is assumed to act.
`Planning!FairSpec` and `PlanExecutor!FairSpec` ask that their coroutine moves: their
loops and their calls of a runtime have timeouts, or they await a run of the Orchestrator.
That a tmux or git command returns is assumed there as in `Engine`: `_run_tmux` and
`_run_git` wait for it without a timeout. `Memory!FairSpec` asks that
an actor that has fetched a batch goes on with it or is abandoned, hence that
`cognee.add` answers or raises; that somebody
organizes again, that the domain does not fail for ever and that fewer than a batch of
entries of other domains wait are premises of `DomainDelivered`. `Store` has only safety
properties and no fairness.

## 4. Proofs

The eight proof modules prove, for every value of the constants allowed by
`EngineAssumption`, `ManagerAssumption`, `MergeQueueAssumption`, `PoolAssumption`,
`PlanAssumption`, `MemoryAssumption` and `PlanningAssumption` (positive limits, a finite
set of runs, well-typed plans, modes, owners and answers; nothing else is assumed, and
of `Store` nothing at all):

* of `Engine`: `TypeOK`, `ActiveCountExact`, `CurrentAgent`, `SpawnBudget`,
  `DepsStartFirst`, `DispatchWithinLimit`; that it implements `RunLifecycle`, under
  `Promised`; and five properties no run checks: `OnlyApprovedLand`, `CompletedIsLanded`,
  `OnlyReachableStart`, `FailsForCause`, `NeverSpins`;
* of `RunManager`: `TypeOK`, `NoStrayTask`, `RunLimit`, `ReportedOutcome`,
  `AtMostOnce`, `CancelFinal`;
* of `MergeQueue`: `QInv`, and that it implements `FifoQueue`;
* of `AgentPool`: `PoolInv`, `NothingRegisteredLeft`, `OwnWorktree`,
  `PromptReachesAttempt`;
* of `Planning`: `TypeOK`, `ScoutGone`, `PlanFits`, `BlockedAreOrphans`;
* of `PlanExecutor`: `TypeOK`, `DepsRanFirst`, `FailureEnds`, `DropsOnlyBlocked`;
* of `Memory`: `TypeOK`, `OldestFirst`, `LostBesideAnother`;
* of `Store`: `TypeOK`, `RecordedIsComplete`, `RowsSurvive`, `CleanUpgrade`.

These are all the safety properties of the passing runs.

**Engine.** None of the properties is inductive alone. The counter can be
decremented safely only if the subtask being settled is running, which needs
`TurnInv` (what is left of a loop is in the state the loop is about); the budget
needs `AttemptInv` (a pending subtask has used as many agents as it has retries, a
running or done one exactly one more); `DepsStartFirst` needs that dependencies are
fixed before the first spawn, which is `PhaseInv`. `IInv` is their conjunction, the
lemmas `TypeStep` ... `CountStep` prove each part preserved with one step per
action, and the theorems follow from `Invariance` by temporal logic. Counting is
reduced to four lemmas on the set of running subtasks (`CountUp`, `CountDown`,
`CountSame`, `StateFinite`). `SubtaskStep` says which actions touch a subtask's
record at all, so that the other steps are dealt with once.

*The refinement.* `EngineImplementsLifecycle` needs more than `IInv`, because
`RunLifecycle` merges only what one and the same review approved. `LifeInv` says where a
run of each state is in its loop (`PlaceInv`), that finished work has an edit as long as
there is a worktree, so that passing the gates and landing can be seen (`WorkInv`), that
a review has approved exactly the done subtasks it has turned to, and sends somebody
back if and only if somebody runs (`ReviewInv`), and that all that is done and no longer
ahead of the merge loop is on main unless a merge failed (`MergeInv`). Every step of the
engine is then a step of `RunLifecycle` or a stutter, one lemma per handler. The
hypothesis `Promised` leaves out two ways in which the code breaks the promise, both
listed as hazards: a merge queue combined with partial success, which no factory builds,
and a refusal of `git commit`, which `merge` ignores. Without it, `OnlyApprovedLand`
still holds: whatever reaches main passed the latest review and is done.

*Plans that cannot be finished.* `OnlyReachableStart` says that agents are spent only on
`Reachable` subtasks, the least set closed under "everything it depends on is there";
that is what `DepsStartFirst` means for cycles and unknown dependencies, where no
single state shows it. With it `FailsForCause` shows the deadlock check exact: when a run
fails with no failed subtask, a plan and no conflict, what is done is `Reachable`, all of
it. `BlockedOrphans` of `PlanningProofs` says which subtasks are outside: given a sound
answer, those behind an item that was stripped or capped.

*Progress.* Liveness is out of the prover's reach, but what makes `Termination` true is not:
`NeverSpins` is an action property. A step of the coroutine `Spends` (the retries, gate
retries and states left to a subtask, weighed so that a retry costs more than it gives
back), `Ages` (a silent agent gets older), or `Advances` (comes nearer to the end of
`run()`, or shortens the loop it is in), in this lexicographic order, unless it sees an
agent chatter; agents give nothing back. A lap of the polling loop ages somebody because
of `SilenceInv`: whoever has been silent for its timeout is settled by `_check_stalls`
before the loop sleeps again, and the loop never sleeps with nobody running, which rests on
the exactness of the counter and on `ReadyAhead` (a dispatch pass passes over nothing it
could dispatch). Budgets, ages and places are bounded below, so that without chatter the
coroutine takes finitely many steps; that it can always take the next one is what only
TLC checks, in `Termination`.

**RunManager.** `RunLimit` follows from `NoStrayTask` and `SlotInv`: what was fetched
and what is active together never exceed the limit, and `SlotMoves` says that a
launch moves a run from one set to the other. `SlotInv` also says that a fetched
run has no task yet, whatever has become of its row, from which `AtMostOnce`
follows; it needs `RowInv` (a queued row has no task). `ReportedOutcome` needs
`AskedInv`, because "cancelled" may be written by the reaper for a task that only
`cancel` can have cancelled.

**MergeQueue.** `QInv` says, besides the types, that rows are inserted in order
(`InsertInv`), that whatever waits ahead of a row a caller works on is in that
caller's hands too (`OrderInv`), and that a deleted row is on main (`MergedInv`).
`OrderInv` is why stale snapshots are harmless: a row added later is behind every
older row of its priority, and a row settled by somebody else is no longer waiting.
The refinement then needs one lemma per kind of step; `GitShape` deals with all git
commands at once.

**AgentPool.** `CleaningInv` says that while a run cleans up, each of its registered
sessions and worktrees is still ahead of the cleanup; with `SweepInv`, `OneAtATime`
and `OpInv` (a run that cleans up is in no operation, so nothing is registered
behind the cleanup's back) it gives `NothingRegisteredLeft`. `TreeInv` says for every place in
an operation which of session and worktree exist and for which attempt, from which
`OwnWorktree` follows; `SessionInv` gives `PromptReachesAttempt` also after cleanups
and failed kills. `OperationShape` says once that an operation disturbs only its own
agent.

**Planning.** `ScoutGone` is inductive once `UnpolledInv` is added (nobody polls a scout
that is not ready). `Work`, the items that are no ceremony in their order, is written with the
number of such items up to a position (`Place`) instead of `SelectSeq`, which is recursive;
`WorkSelects` in `MCPlanning` has TLC compare the two on all answers of the run. `Places`
shows by counting that these numbers are 1, 2, ..., each taken once; `WorkOfAnswer`,
`CappedList` and `KeptOfAnswer` say what stripping and capping keep. `PlanInv` says that the
subtasks mirror what was kept of the answer, or are the whole task where nothing was, and
that dependencies are resolved in one step. `BlockedOrphans` then has two halves: the
subtasks that never start inherit as orphans do, hence contain them (`OrphansAreBlocked`),
and a closed set that missed another subtask would make a closed set of items that
misses an item, which a sound answer does not have (`OthersStart`).

**PlanExecutor.** `RoundInv` ties `completed_descriptions` to the items that ran and to
tasks of this round, from which `DepsRanFirst` follows when a pass runs what it found
ready. `LoopInv` says that what ran is in every closed set of the batch; when no item is
unblocked, what ran is closed itself, hence the least closed set, which is
`DropsOnlyBlocked`. `FailInv` keeps a failed task in the current round.

**Memory.** `BatchInv` says that a batch leaves no older entry waiting outside it but
those in `missed` (their rows came after the batch was fetched) or `late`, whoever else
marks what in the meantime, and that an entry of it that was tried has a copy unless
its domain failed. `LateInv` keeps these exceptions to what really came too late: each is
older than an entry of the batch, or than a marked one. Fetching establishes the first
part by the minimality of `Oldest` (a counting argument on finite sets, `BatchIsOldest`),
`InsertKeeps` shows that a row that appears is either behind a batch or recorded as
missed, and marking needs it for `OldestFirst`. `LostBesideAnother` is an action property:
an entry marked without a copy is of a failed domain, by the second part, and `Counted`
then gives another domain of that same batch without a failure, all of it copied.

**Store.** Recorded versions form a prefix (`PrefixInv`), which makes `MAX(version)` the
one to continue from. `AloneInv` says that whoever migrates below version 4 is alone
unless an overlap has been noted, and migrates to a version not yet recorded: so nobody
drops what a recorded migration 3 created. `DoneInv` says which tables and columns are
there at each statement of each script, `KeptInv` that nothing drops the others, and
recording then gives `RecordedIsComplete`. `DroppedInv` and `AddedInv` say what is *not*
there without an overlap, which is what SQLite may complain about: `CleanUpgrade`.
`ApplyCases` reduces the statements to thirteen cases once.

Only model-checked: the liveness properties `Termination`, `QueueDrains`, `RunsEnd`,
`PlanEnds`, `PlanningEnds` and `DomainDelivered`, since fairness and `ENABLED` are out of
reach of the prover; so is the induction that would turn `NeverSpins` into a bound on the
number of steps. The statements of the violation runs are refuted, not proved. The
invariants behind the proofs and the five properties no run checks were checked with TLC
on the instance of `engine_core` (with all four combinations of partial success and a
queue, and a `git commit` that may fail, where the property does not exclude them) before
they were proved.

## 5. What is not modelled, and the plan

Of the modelled components:

* `Engine`: the selector branch of the dispatch loop (no factory passes a selector; with
  one that returns nothing, the loop would poll forever), tracing, and what the persisted
  copies of run and subtasks look like after a crash (nothing reads them back to go on).
* `Memory`: the extraction of lessons, which is text classification; the searches, which read;
  memvid, a second copy nothing reads back.
* `AgentPool`: `kill_agents_for_run`, see above; the texts of prompts.
* `ValidationGates`: what compiler, ruff and pytest say is a choice.
* `Store`: the contents of rows, and the queries that only read.

Not modelled at all: `AgentSelector` (not wired to anything), prompts and command lines
of the runtimes, the dashboard, tracing, the formatting of the CLI and the smoke test,
which keep no state a run depends on. `src/.agent/skills` holds tools for writing skill
descriptions that are no part of the program.

Planned, in this order:

1. The composition of `RunManager` with the shared pool: the cleanup of a cancelled run
   against the dispatch of the next one.
2. The safety half of the other liveness properties, as `NeverSpins` is that of
   `Termination`: what a pass of the manager's loop does to the queue, what a batch does to
   the entries before a domain's own.
