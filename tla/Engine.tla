------------------------------- MODULE Engine -------------------------------
(***************************************************************************)
(* The Orchestrator of src/horse_fish/orchestrator/engine.py driving ONE   *)
(* run: scout, plan, execute (dispatch / poll / stall recovery), review    *)
(* (gates, gate retry) and merge, interleaved with the coding agents that  *)
(* live in tmux sessions and edit one git worktree each.                   *)
(*                                                                         *)
(* The coroutine is a program counter pc; every handler that loops over    *)
(* run.subtasks takes one step per subtask (each iteration awaits tmux,    *)
(* git or a gate, so agents act between two iterations), and todo is what  *)
(* is left of the loop.  Work is data-free: ver[s] counts the edits made   *)
(* in the worktree of subtask s and head[s] is the edit its branch has     *)
(* committed, so "git diff is not empty" is ver[s] > 0 and "uncommitted    *)
(* changes" is ver[s] > head[s].                                           *)
(***************************************************************************)
EXTENDS Naturals, FiniteSets

CONSTANTS
  N,              \* number of subtasks the planner returns
  DepChoices,     \* dependency maps the planner may return; 0 is a dep that
                  \* _resolve_deps could not match to any subtask
  MaxRetries,     \* Subtask.max_retries
  MaxGateRetries, \* Subtask.max_gate_retries
  StallTicks,     \* stall_timeout_seconds, in poll intervals
  Modes,          \* how the Orchestrator may be built: records with fields
                  \* partial (allow_partial_success), queue (merge_queue given)
                  \* and limit (max_agents)
  SharedPool,     \* another run's pool.cleanup() may release our agents
  CommitCanFail,  \* "git commit" in WorktreeManager.merge may fail
  MaxEdits        \* bound on the edits an agent makes in one worktree

Subtask == 1 .. N

ASSUME EngineAssumption ==
  /\ N \in Nat \ {0}
  /\ DepChoices \subseteq [Subtask -> SUBSET (0 .. N)]
  /\ MaxRetries \in Nat /\ MaxGateRetries \in Nat
  /\ StallTicks \in Nat \ {0} /\ MaxEdits \in Nat
  /\ Modes \subseteq [partial : BOOLEAN, queue : BOOLEAN, limit : Nat \ {0}]
  /\ SharedPool \in BOOLEAN /\ CommitCanFail \in BOOLEAN

VARIABLES
  mode, runState, pc, todo, deps,
  st, agent, spawns, retry, gateRetry, quiet,   \* the Subtask records
  agentMap, active, stalled,                    \* locals of _execute
  reexec, allPassed, anyPassed, mergeFailed,    \* locals of _review, _merge
  session, wt, ver, head,                       \* tmux sessions and worktrees
  gated, rejected, landed     \* history: the edit that passed the gates of the
                              \* latest review, that failed them, that merged

setup       == <<mode, deps>>
loopVars    == <<runState, pc, todo>>
taskVars    == <<st, agent, spawns, retry, gateRetry, quiet>>
execVars    == <<agentMap, active, stalled>>
verdictVars == <<reexec, allPassed, anyPassed, mergeFailed>>
envVars     == <<session, wt, ver, head>>
historyVars == <<gated, rejected, landed>>
vars == <<setup, loopVars, taskVars, execVars, verdictVars, envVars, historyVars>>

RunState     == {"scouting", "planning", "executing", "reviewing", "merging",
                 "completed", "partial_success", "failed"}
TerminalRun  == {"completed", "partial_success", "failed"}
SubtaskState == {"pending", "running", "done", "failed"}
PollLoop     == {"dispatch", "sleep", "poll", "stalls"}
Phase        == {"scout", "plan", "review", "merge", "return", "ended"} \cup PollLoop

In(state)  == {s \in Subtask : st[s] = state}
\* A mutant of DepsMet: a dependency that matches no subtask is ignored.
KnownDepsMet(s) == deps[s] \cap Subtask \subseteq In("done")

DepsMet(s) == \A d \in deps[s] : d \in In("done")
First(s)   == s \in todo /\ \A t \in todo : s <= t
Timeout(s) == IF gateRetry[s] > 0 THEN 2 * StallTicks ELSE StallTicks
HasDiff(s) == wt[s] /\ ver[s] > 0

\* capture_pane: a session that is gone has no pane.
HasPane(s) == session[s]

\* collect_result: success is that the pane shows anything.
Collected(s) == [success |-> HasPane(s), diff |-> HasDiff(s)]

TypeOK ==
  /\ mode \in Modes /\ runState \in RunState /\ pc \in Phase /\ todo \subseteq Subtask
  /\ deps \in [Subtask -> SUBSET (0 .. N)]
  /\ st \in [Subtask -> SubtaskState]
  /\ agent \in [Subtask -> Nat] /\ spawns \in [Subtask -> Nat]
  /\ retry \in [Subtask -> 0 .. MaxRetries]
  /\ gateRetry \in [Subtask -> 0 .. MaxGateRetries]
  /\ quiet \in [Subtask -> Nat]
  /\ agentMap \in [Subtask -> Nat] /\ active \in Nat /\ stalled \in Nat
  /\ reexec \in BOOLEAN /\ allPassed \in BOOLEAN
  /\ anyPassed \in BOOLEAN /\ mergeFailed \in BOOLEAN
  /\ session \in [Subtask -> BOOLEAN] /\ wt \in [Subtask -> BOOLEAN]
  /\ ver \in [Subtask -> 0 .. MaxEdits] /\ head \in [Subtask -> 0 .. MaxEdits]
  /\ gated \in [Subtask -> 0 .. MaxEdits] /\ rejected \in [Subtask -> 0 .. MaxEdits]
  /\ landed \in [Subtask -> 0 .. MaxEdits]

None == [s \in Subtask |-> 0]

Init ==
  /\ mode \in Modes
  /\ runState = "scouting" /\ pc = "scout" /\ todo = {}
  /\ deps = [s \in Subtask |-> {}]
  /\ st = [s \in Subtask |-> "pending"]
  /\ agent = None /\ spawns = None /\ retry = None
  /\ gateRetry = None /\ quiet = None
  /\ agentMap = None /\ active = 0 /\ stalled = 0
  /\ reexec = FALSE /\ allPassed = TRUE /\ anyPassed = FALSE /\ mergeFailed = FALSE
  /\ session = [s \in Subtask |-> FALSE] /\ wt = [s \in Subtask |-> FALSE]
  /\ ver = None /\ head = None
  /\ gated = None /\ rejected = None /\ landed = None

-----------------------------------------------------------------------------
(* run(): a handler returns with the next state; the loop enters its handler. *)

\* The running handler returns, leaving the run in `state'.
Return(state) == runState' = state /\ pc' = "return" /\ todo' = {}

Enter(phase, subtasks) ==
  /\ pc = "return"
  /\ pc' = phase /\ todo' = subtasks
  /\ UNCHANGED <<runState, setup, taskVars, envVars>>

EnterPlan ==
  /\ runState = "planning"
  /\ Enter("plan", {})
  /\ UNCHANGED <<execVars, verdictVars, historyVars>>

\* A mutant of EnterExecute: agent_map starts empty also after a gate retry.
EnterExecuteForgetful ==
  /\ runState = "executing"
  /\ Enter("dispatch", Subtask)
  /\ agentMap' = [s \in Subtask |-> 0]
  /\ active' = Cardinality(In("running"))
  /\ stalled' = 0
  /\ UNCHANGED <<verdictVars, historyVars>>

\* _execute starts by rebuilding agent_map and active_count from the subtasks
\* a gate retry left running.
EnterExecute ==
  /\ runState = "executing"
  /\ Enter("dispatch", Subtask)
  /\ agentMap' = [s \in Subtask |-> IF st[s] = "running" THEN agent[s] ELSE 0]
  /\ active' = Cardinality({s \in In("running") : agent[s] # 0})
  /\ stalled' = 0
  /\ UNCHANGED <<verdictVars, historyVars>>

EnterReview ==
  /\ runState = "reviewing"
  /\ Enter("review", {s \in In("done") : agent[s] # 0})
  /\ reexec' = FALSE /\ allPassed' = TRUE /\ anyPassed' = FALSE
  /\ UNCHANGED <<execVars, mergeFailed, historyVars>>

EnterMerge ==
  /\ runState = "merging"
  /\ Enter("merge", {s \in In("done") : agent[s] # 0})
  /\ mergeFailed' = FALSE
  /\ UNCHANGED <<execVars, reexec, allPassed, anyPassed, historyVars>>

Finish ==
  /\ runState \in TerminalRun
  /\ Enter("ended", {})
  /\ UNCHANGED <<execVars, verdictVars, historyVars>>

RunLoop == EnterPlan \/ EnterExecute \/ EnterReview \/ EnterMerge \/ Finish

\* An exception the handler does not catch, or CancelledError at an await: the
\* finally block of run() ends the run in whatever state it is.
Stop ==
  /\ pc' = "ended" /\ todo' = {}
  /\ UNCHANGED <<runState, setup, taskVars, execVars, verdictVars, envVars, historyVars>>

Cancel == pc \notin {"return", "ended"} /\ Stop

-----------------------------------------------------------------------------
(* _scout and _plan *)

\* Whatever the scout agent and the programmatic fallback do, planning follows.
Scout ==
  /\ pc = "scout"
  /\ Return("planning")
  /\ UNCHANGED <<setup, taskVars, execVars, verdictVars, envVars, historyVars>>

Plan ==
  /\ pc = "plan"
  /\ \/ Return("executing") /\ deps' \in DepChoices
     \/ Return("failed") /\ UNCHANGED deps
  /\ UNCHANGED <<mode, taskVars, execVars, verdictVars, envVars, historyVars>>

-----------------------------------------------------------------------------
(* _execute: the dispatch pass *)

\* A mutant of Dispatchable: one agent too many.
DispatchableOneMore(s) ==
  s \in todo /\ st[s] = "pending" /\ DepsMet(s) /\ active <= mode.limit

Dispatchable(s) == s \in todo /\ st[s] = "pending" /\ DepsMet(s) /\ active < mode.limit

\* The next subtask of the pass that is pending, ready and within the limit.
DispatchTurn(s) ==
  /\ pc = "dispatch"
  /\ Dispatchable(s)
  /\ \A t \in todo : Dispatchable(t) => s <= t
  /\ todo' = {t \in todo : t > s}
  /\ spawns' = [spawns EXCEPT ![s] = @ + 1]
  /\ ver' = [ver EXCEPT ![s] = 0] /\ head' = [head EXCEPT ![s] = 0]
  /\ rejected' = [rejected EXCEPT ![s] = 0]
  /\ UNCHANGED <<runState, pc, setup, retry, gateRetry, stalled, verdictVars, gated, landed>>

\* pool.spawn and send_task both succeed; tmux refuses a session name in use.
DispatchOk(s) ==
  /\ DispatchTurn(s)
  /\ ~session[s]
  /\ session' = [session EXCEPT ![s] = TRUE] /\ wt' = [wt EXCEPT ![s] = TRUE]
  /\ st' = [st EXCEPT ![s] = "running"]
  /\ agent' = [agent EXCEPT ![s] = spawns[s] + 1]
  /\ agentMap' = [agentMap EXCEPT ![s] = spawns[s] + 1]
  /\ quiet' = [quiet EXCEPT ![s] = 0]
  /\ active' = active + 1

\* Either call raises.  Depending on where, the worktree, or the worktree and
\* its session, stay behind; the subtask fails without a retry.
DispatchFails(s) ==
  /\ DispatchTurn(s)
  /\ \E alive, tree \in BOOLEAN :
       /\ session[s] => alive
       /\ alive => tree \/ session[s]
       /\ session' = [session EXCEPT ![s] = alive] /\ wt' = [wt EXCEPT ![s] = tree]
  /\ st' = [st EXCEPT ![s] = "failed"]
  /\ UNCHANGED <<agent, agentMap, quiet, active>>

\* Locals of _execute go out of scope when it returns.
LeaveExecute(state) ==
  /\ Return(state)
  /\ agentMap' = None /\ active' = 0 /\ stalled' = 0

\* A mutant of EndDispatch: unmet dependencies are not noticed.
EndDispatchPatient ==
  /\ pc = "dispatch"
  /\ \A s \in Subtask : ~Dispatchable(s)
  /\ IF In("done") \cup In("failed") = Subtask
     THEN LeaveExecute(IF In("failed") = {} \/ (mode.partial /\ In("done") # {})
                       THEN "reviewing" ELSE "failed")
     ELSE /\ pc' = "sleep" /\ todo' = In("running")
          /\ UNCHANGED <<runState, execVars>>
  /\ UNCHANGED <<setup, taskVars, verdictVars, envVars, historyVars>>

\* End of the pass: leave when all subtasks are settled, fail on a deadlock,
\* else remember who is running and sleep until the next poll.
EndDispatch ==
  /\ pc = "dispatch"
  /\ \A s \in Subtask : ~Dispatchable(s)
  /\ IF In("done") \cup In("failed") = Subtask
     THEN LeaveExecute(IF In("failed") = {} \/ (mode.partial /\ In("done") # {})
                       THEN "reviewing" ELSE "failed")
     ELSE IF In("running") = {} /\ \A s \in In("pending") : ~DepsMet(s)
     THEN LeaveExecute("failed")
     ELSE /\ pc' = "sleep" /\ todo' = In("running")
          /\ UNCHANGED <<runState, execVars>>
  /\ UNCHANGED <<setup, taskVars, verdictVars, envVars, historyVars>>

-----------------------------------------------------------------------------
(* _execute: polling and stall recovery *)

\* asyncio.sleep(POLL_INTERVAL_SECONDS): time passes for every running subtask.
Wake ==
  /\ pc = "sleep"
  /\ pc' = "poll"
  /\ quiet' = [s \in Subtask |->
                 IF st[s] = "running" /\ quiet[s] < 2 * StallTicks
                 THEN quiet[s] + 1 ELSE quiet[s]]
  /\ UNCHANGED <<runState, todo, setup, st, agent, spawns, retry, gateRetry,
                 execVars, verdictVars, envVars, historyVars>>

PollTurn(s) ==
  /\ pc = "poll" /\ First(s)
  /\ todo' = todo \ {s}
  /\ UNCHANGED <<runState, pc, setup, agent, spawns, retry, gateRetry,
                 agentMap, stalled, verdictVars, envVars, historyVars>>

Settle(s, state) ==
  /\ st' = [st EXCEPT ![s] = state]
  /\ quiet' = [quiet EXCEPT ![s] = 0]
  /\ active' = active - 1

\* The session is gone: what was collected decides, which has no output whatever
\* the worktree holds.
PollDead(s) ==
  /\ PollTurn(s)
  /\ agentMap[s] # 0 /\ ~session[s] /\ wt[s]
  /\ Settle(s, IF Collected(s).success THEN "done" ELSE "failed")

\* A diff, committed or not: the subtask is done.
PollDone(s) ==
  /\ PollTurn(s)
  /\ agentMap[s] # 0 /\ session[s] /\ Collected(s).diff
  /\ Settle(s, "done")

\* check_heartbeat: the pane has changed since the last look, or not; it cannot
\* be read.  Only a change refreshes last_activity_at.
Heartbeat(s) == quiet' \in {quiet, [quiet EXCEPT ![s] = 0]}

\* No diff yet, or collecting raised.  A subtask without an entry in agent_map is passed over.
PollBusy(s) ==
  /\ PollTurn(s)
  /\ IF agentMap[s] = 0
     THEN UNCHANGED quiet
     ELSE session[s] /\ Heartbeat(s)
  /\ UNCHANGED <<st, active>>

\* check_status raised, or the dead agent's worktree directory is gone: neither
\* is inside a try block.
PollAborts ==
  /\ pc = "poll" /\ todo # {}
  /\ Stop

EndPoll ==
  /\ pc = "poll" /\ todo = {}
  /\ pc' = "stalls" /\ todo' = {s \in In("running") : quiet[s] >= Timeout(s)}
  /\ UNCHANGED <<runState, setup, taskVars, execVars, verdictVars, envVars, historyVars>>

\* pool.release kills the session, then deletes worktree and branch.  Either
\* step may fail, which is ignored and leaves the rest as it is.
Release(s) ==
  \E alive \in {FALSE, session[s]}, tree \in {FALSE, wt[s]} :
    /\ alive => tree = wt[s]
    /\ session' = [session EXCEPT ![s] = alive] /\ wt' = [wt EXCEPT ![s] = tree]
    /\ ver' = [ver EXCEPT ![s] = IF tree THEN @ ELSE 0]
    /\ head' = [head EXCEPT ![s] = IF tree THEN @ ELSE 0]

StallTurn(s) ==
  /\ pc = "stalls" /\ First(s)
  /\ todo' = todo \ {s}
  /\ Release(s)
  /\ agentMap' = [agentMap EXCEPT ![s] = 0]
  /\ quiet' = [quiet EXCEPT ![s] = 0]
  /\ stalled' = stalled + 1
  /\ UNCHANGED <<runState, pc, setup, spawns, gateRetry, active, verdictVars, historyVars>>

\* A mutant of StallRetry: the retry is not counted.
StallRetryUncounted(s) ==
  /\ StallTurn(s)
  /\ retry[s] < MaxRetries
  /\ st' = [st EXCEPT ![s] = "pending"]
  /\ agent' = [agent EXCEPT ![s] = 0]
  /\ UNCHANGED retry

StallRetry(s) ==
  /\ StallTurn(s)
  /\ retry[s] < MaxRetries
  /\ retry' = [retry EXCEPT ![s] = @ + 1]
  /\ st' = [st EXCEPT ![s] = "pending"]
  /\ agent' = [agent EXCEPT ![s] = 0]

StallExhausted(s) ==
  /\ StallTurn(s)
  /\ retry[s] >= MaxRetries
  /\ st' = [st EXCEPT ![s] = "failed"]
  /\ UNCHANGED <<retry, agent>>

\* A mutant of EndStalls: the stalled subtasks are not taken off the counter.
EndStallsUncounted ==
  /\ pc = "stalls" /\ todo = {}
  /\ pc' = "dispatch" /\ todo' = Subtask
  /\ stalled' = 0
  /\ UNCHANGED <<runState, setup, taskVars, agentMap, active, verdictVars, envVars, historyVars>>

\* active_count -= retried_count, then the next dispatch pass.
EndStalls ==
  /\ pc = "stalls" /\ todo = {}
  /\ pc' = "dispatch" /\ todo' = Subtask
  /\ active' = active - stalled /\ stalled' = 0
  /\ UNCHANGED <<runState, setup, taskVars, agentMap, verdictVars, envVars, historyVars>>

-----------------------------------------------------------------------------
(* _review: gates on every done subtask *)

ReviewTurn(s) ==
  /\ pc = "review" /\ First(s)
  /\ todo' = todo \ {s}
  /\ UNCHANGED <<runState, pc, setup, agent, spawns, retry, execVars, mergeFailed, landed>>

\* auto_fix runs the linters in the worktree, and a linter that cannot be started
\* there counts as a failed fix.
AutoFix(s) == wt[s]

\* auto_fix_and_commit commits the worktree unless the fixer or git fails.
AutoCommit(s) ==
  \/ UNCHANGED head
  \/ AutoFix(s) /\ head' = [head EXCEPT ![s] = ver[s]]

Gate == {"compile", "ruff-check", "pytest"}

\* What the gates may say of a worktree: pytest fails also by taking too long.  Where
\* the worktree is gone, no file is left that does not compile, and the other gates
\* cannot be started.
GateResults(s) ==
  {passed \in [Gate -> BOOLEAN] : ~wt[s] => passed = [g \in Gate |-> g = "compile"]}

\* run_all and all_passed: every gate runs, and one that raises has failed.
GatesMayPass(s) == \E passed \in GateResults(s) : \A g \in Gate : passed[g]

GatesPass(s) ==
  /\ ReviewTurn(s)
  /\ GatesMayPass(s)
  /\ AutoCommit(s)
  /\ anyPassed' = TRUE
  /\ gated' = [gated EXCEPT ![s] = ver[s]]
  /\ UNCHANGED <<st, gateRetry, quiet, reexec, allPassed, session, wt, ver, rejected>>

\* A mutant of GateRetry: without the limit on gate retries.
GateRetryUnlimited(s) ==
  /\ ReviewTurn(s)
  /\ AutoCommit(s)
  /\ session' = [session EXCEPT ![s] = TRUE]
  /\ st' = [st EXCEPT ![s] = "running"]
  /\ gateRetry' = [gateRetry EXCEPT ![s] = @ + 1]
  /\ quiet' = [quiet EXCEPT ![s] = 0]
  /\ reexec' = TRUE
  /\ rejected' = [rejected EXCEPT ![s] = ver[s]]
  /\ UNCHANGED <<allPassed, anyPassed, wt, ver, gated>>

\* Gates failed: respawn the agent if it is dead, send it the gate output.
GateRetry(s) ==
  /\ ReviewTurn(s)
  /\ gateRetry[s] < MaxGateRetries
  /\ AutoCommit(s)
  /\ session' = [session EXCEPT ![s] = TRUE]
  /\ st' = [st EXCEPT ![s] = "running"]
  /\ gateRetry' = [gateRetry EXCEPT ![s] = @ + 1]
  /\ quiet' = [quiet EXCEPT ![s] = 0]
  /\ reexec' = TRUE
  /\ rejected' = [rejected EXCEPT ![s] = ver[s]]
  /\ UNCHANGED <<allPassed, anyPassed, wt, ver, gated>>

\* Gates failed for the last time, or respawning or prompting the agent raised.
\* A respawned agent that never gets ready takes worktree and branch with it.
GateReject(s) ==
  /\ ReviewTurn(s)
  /\ st' = [st EXCEPT ![s] = "failed"]
  /\ allPassed' = FALSE
  /\ rejected' = [rejected EXCEPT ![s] = ver[s]]
  /\ \/ /\ AutoCommit(s)
        /\ \E alive \in BOOLEAN :
             /\ gateRetry[s] < MaxGateRetries \/ alive = session[s]
             /\ session' = [session EXCEPT ![s] = alive]
        /\ UNCHANGED <<wt, ver>>
     \/ /\ gateRetry[s] < MaxGateRetries /\ ~session[s]
        /\ wt' = [wt EXCEPT ![s] = FALSE]
        /\ ver' = [ver EXCEPT ![s] = 0] /\ head' = [head EXCEPT ![s] = 0]
        /\ UNCHANGED session
  /\ UNCHANGED <<gateRetry, quiet, reexec, anyPassed, gated>>

\* A mutant of EndReview: the verdict does not wait for the subtasks sent back.
EndReviewHasty ==
  /\ pc = "review" /\ todo = {}
  /\ Return(IF allPassed \/ (mode.partial /\ anyPassed) THEN "merging" ELSE "failed")
  /\ UNCHANGED <<setup, taskVars, execVars, verdictVars, envVars, historyVars>>

EndReview ==
  /\ pc = "review" /\ todo = {}
  /\ Return(IF reexec THEN "executing"
            ELSE IF allPassed \/ (mode.partial /\ anyPassed) THEN "merging" ELSE "failed")
  /\ gated' = IF reexec THEN None ELSE gated
  /\ UNCHANGED <<setup, taskVars, execVars, verdictVars, envVars, rejected, landed>>

-----------------------------------------------------------------------------
(* _merge: through the merge queue or directly, in the order of run.subtasks *)

MergeTurn(s) ==
  /\ pc = "merge" /\ First(s)
  /\ UNCHANGED <<setup, agent, spawns, retry, gateRetry, quiet, execVars,
                 reexec, allPassed, anyPassed, session, wt, ver, gated, rejected>>

\* WorktreeManager.merge commits what is uncommitted (ignoring a failure of
\* that commit), then merges the branch.
MergeOk(s) ==
  /\ MergeTurn(s)
  /\ wt[s]
  /\ head' \in {[head EXCEPT ![s] = ver[s]]} \cup (IF CommitCanFail THEN {head} ELSE {})
  /\ landed' = [landed EXCEPT ![s] = head'[s]]
  /\ todo' = todo \ {s}
  /\ UNCHANGED <<runState, pc, st, mergeFailed>>

\* The commit of a merge that then fails.
MergeCommit(s) == head' \in {head, [head EXCEPT ![s] = ver[s]]}

\* Direct merge: a conflict and an exception both fail the subtask, and the
\* run unless partial success is allowed.
MergeFails(s) ==
  /\ MergeTurn(s)
  /\ ~mode.queue
  /\ MergeCommit(s)
  /\ st' = [st EXCEPT ![s] = "failed"]
  /\ IF mode.partial
     THEN todo' = todo \ {s} /\ UNCHANGED <<runState, pc>>
     ELSE Return("failed")
  /\ UNCHANGED <<mergeFailed, landed>>

\* Queue: a conflict is a failed MergeResult; the loop goes on and the subtask
\* keeps its state.
QueueConflict(s) ==
  /\ MergeTurn(s)
  /\ mode.queue
  /\ MergeCommit(s)
  /\ mergeFailed' = TRUE
  /\ todo' = todo \ {s}
  /\ UNCHANGED <<runState, pc, st, landed>>

\* Queue: any other git error propagates out of process() and of run().
QueueRaises ==
  /\ pc = "merge" /\ todo # {} /\ mode.queue
  /\ Stop

EndMerge ==
  /\ pc = "merge" /\ todo = {}
  /\ Return(IF mergeFailed /\ ~mode.partial THEN "failed"
            ELSE IF mode.partial /\ In("failed") # {} THEN "partial_success"
            ELSE "completed")
  /\ UNCHANGED <<setup, taskVars, execVars, verdictVars, envVars, historyVars>>

-----------------------------------------------------------------------------
(* The agents and their surroundings, while the run lasts *)

Edit(s) ==
  /\ pc # "ended" /\ session[s] /\ wt[s] /\ ver[s] < MaxEdits
  /\ ver' = [ver EXCEPT ![s] = @ + 1]
  /\ UNCHANGED <<setup, loopVars, taskVars, execVars, verdictVars, session, wt, head, historyVars>>

Commit(s) ==
  /\ pc # "ended" /\ session[s] /\ wt[s] /\ head[s] < ver[s]
  /\ head' = [head EXCEPT ![s] = ver[s]]
  /\ UNCHANGED <<setup, loopVars, taskVars, execVars, verdictVars, session, wt, ver, historyVars>>

Exit(s) ==
  /\ pc # "ended" /\ session[s]
  /\ session' = [session EXCEPT ![s] = FALSE]
  /\ UNCHANGED <<setup, loopVars, taskVars, execVars, verdictVars, wt, ver, head, historyVars>>

\* Another run of the same RunManager ends: its pool.cleanup() releases every
\* agent in the shared agents table, ours included.
ForeignCleanup ==
  /\ SharedPool /\ pc # "ended"
  /\ \E s \in Subtask : agent[s] # 0 /\ (session[s] \/ wt[s])
  /\ session' = [s \in Subtask |-> agent[s] = 0 /\ session[s]]
  /\ wt' = [s \in Subtask |-> agent[s] = 0 /\ wt[s]]
  /\ ver' = [s \in Subtask |-> IF agent[s] = 0 THEN ver[s] ELSE 0]
  /\ head' = [s \in Subtask |-> IF agent[s] = 0 THEN head[s] ELSE 0]
  /\ UNCHANGED <<setup, loopVars, taskVars, execVars, verdictVars, historyVars>>

-----------------------------------------------------------------------------

Execute ==
  \/ \E s \in Subtask : DispatchOk(s) \/ DispatchFails(s)
  \/ EndDispatch \/ Wake
  \/ \E s \in Subtask : PollDead(s) \/ PollDone(s) \/ PollBusy(s)
  \/ EndPoll
  \/ \E s \in Subtask : StallRetry(s) \/ StallExhausted(s)
  \/ EndStalls

Review ==
  \/ \E s \in Subtask : GatesPass(s) \/ GateRetry(s) \/ GateReject(s)
  \/ EndReview

Merge ==
  \/ \E s \in Subtask : MergeOk(s) \/ MergeFails(s) \/ QueueConflict(s)
  \/ EndMerge

\* The coroutine of run(); its exceptional exits are kept apart.
Coroutine == RunLoop \/ Scout \/ Plan \/ Execute \/ Review \/ Merge
Raise     == PollAborts \/ QueueRaises \/ Cancel
Agents    == ForeignCleanup \/ \E s \in Subtask : Edit(s) \/ Commit(s) \/ Exit(s)

\* Nothing moves once the run has ended.
Ended == pc = "ended" /\ UNCHANGED vars

Next == Coroutine \/ Raise \/ Agents \/ Ended

Spec == Init /\ [][Next]_vars

\* asyncio resumes the coroutine as long as it is not done, and it takes its next
\* step or raises; nothing obliges an agent to edit, commit or exit.
FairSpec == Spec /\ WF_vars(Coroutine \/ Raise)
=============================================================================
