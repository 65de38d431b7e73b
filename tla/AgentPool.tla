------------------------------ MODULE AgentPool ------------------------------
(***************************************************************************)
(* The AgentPool of src/horse_fish/agents/pool.py with the tmux sessions   *)
(* and git worktrees it handles, used by several runs at once and by       *)
(* `hf clean`.  Each run has a pool object of its own; the table agents,   *)
(* the tmux server and the worktree directory are one for all of them.     *)
(*                                                                         *)
(* An agent is a name: session hf-<name>, worktree and branch are found by *)
(* it.  Spawning it again (a retry) makes a new row, an attempt.  What the *)
(* names stand for is recorded by the number of the attempt they belong    *)
(* to, 0 for nothing.  A pool operation suspends at every tmux and git     *)
(* call, so each call is a step, between which other runs act and at which *)
(* the run may be cancelled.                                               *)
(***************************************************************************)
EXTENDS Naturals

CONSTANTS
  Run,        \* runs, and processes that only clean up
  Agent,      \* agent names
  Owner,      \* the run that spawns an agent
  Scout,      \* agents that work in the repository itself
  Old,        \* agents whose worktree gets older than a day
  Attempts,   \* bound on how often one name is spawned
  KillFails   \* kill-session may fail, and removing a worktree too

Attempt == 1 .. Attempts

ASSUME PoolAssumption ==
  /\ Owner \in [Agent -> Run] /\ Scout \subseteq Agent /\ Old \subseteq Agent
  /\ Attempts \in Nat \ {0} /\ KillFails \in BOOLEAN

VARIABLES
  phase,        \* of a run: working, cleaning (pool.cleanup), over; died in either
  sweep,        \* rows its cleanup has still to release
  removing,     \* the row, if any, it has killed the session of
  op, tries,    \* of an agent: what its run does with it; attempts so far
  row,          \* the table agents: state of each attempt
  session, tree,
  stuck         \* history: agents whose session or worktree could not be removed

cleaning == <<phase, sweep, removing>>
spawning == <<op, tries>>
world    == <<session, tree>>
vars     == <<cleaning, spawning, row, world, stuck>>

Phase == {"working", "gone", "cleaning", "half_done", "over"}
Rest  == {"free", "held", "given_up"}   \* the run is in no operation on it
Op    == Rest \cup {"create", "start", "ready", "expire", "discard",
                    "send", "enter", "sent", "kill", "remove"}
Rows  == {x \in Agent \X Attempt : row[x[1]][x[2]] # "none"}

Registered(a, k) == row[a][k] # "none"
Mine(r) == {a \in Agent : Owner[a] = r}

TypeOK ==
  /\ phase \in [Run -> Phase]
  /\ sweep \in [Run -> SUBSET (Agent \X Attempt)]
  /\ removing \in [Run -> SUBSET (Agent \X Attempt)]
  /\ op \in [Agent -> Op] /\ tries \in [Agent -> 0 .. Attempts]
  /\ row \in [Agent -> [Attempt -> {"none", "idle", "busy", "dead"}]]
  /\ session \in [Agent -> 0 .. Attempts] /\ tree \in [Agent -> 0 .. Attempts]
  /\ stuck \subseteq Agent

Init ==
  /\ phase = [r \in Run |-> "working"]
  /\ sweep = [r \in Run |-> {}] /\ removing = [r \in Run |-> {}]
  /\ op = [a \in Agent |-> "free"] /\ tries = [a \in Agent |-> 0]
  /\ row = [a \in Agent |-> [k \in Attempt |-> "none"]]
  /\ session = [a \in Agent |-> 0] /\ tree = [a \in Agent |-> 0]
  /\ stuck = {}

-----------------------------------------------------------------------------
(* The pool operations of a working run, one at a time *)

State(a)        == IF tries[a] = 0 THEN "none" ELSE row[a][tries[a]]
Mark(a, k, s)   == row' = [row EXCEPT ![a][k] = s]
Goto(a, to)     == op' = [op EXCEPT ![a] = to] /\ UNCHANGED tries
Sets(f, a, k)   == [f EXCEPT ![a] = k]

\* list-sessions, as the only test whether a process is there.
Alive(a)        == session[a] # 0

\* The run, in no other operation, calls one on a.
Calls(a) == phase[Owner[a]] = "working" /\ \A b \in Mine(Owner[a]) : op[b] \in Rest

\* spawn, spawn_scout: a stall retry comes after release, even a failed one.
Spawn(a) ==
  /\ Calls(a) /\ op[a] = "free" /\ tries[a] < Attempts
  /\ op' = [op EXCEPT ![a] = IF a \in Scout THEN "start" ELSE "create"]
  /\ tries' = [tries EXCEPT ![a] = @ + 1]
  /\ UNCHANGED <<cleaning, row, world, stuck>>

\* WorktreeManager.create removes what has the name first.
Create(a) ==
  /\ op[a] = "create"
  /\ \/ tree' = Sets(tree, a, tries[a]) /\ Goto(a, "start")
     \/ tree' \in {tree, Sets(tree, a, 0)} /\ Goto(a, "given_up")
  /\ UNCHANGED <<cleaning, row, session, stuck>>

\* A mutant of Start: a session of that name is taken over.
StartAttach(a) ==
  /\ op[a] = "start"
  /\ \/ /\ Goto(a, "ready")
        /\ session' = Sets(session, a, IF session[a] = 0 THEN tries[a] ELSE session[a])
     \/ Goto(a, "given_up") /\ session' \in {session, Sets(session, a, tries[a])}
  /\ UNCHANGED <<cleaning, row, tree, stuck>>

\* TmuxManager.spawn: new-session refuses a name in use; reading the pid of the
\* pane may fail when the session is there already.
Start(a) ==
  /\ op[a] = "start"
  /\ \/ session[a] = 0 /\ session' = Sets(session, a, tries[a])
        /\ (Goto(a, "ready") \/ Goto(a, "given_up"))
     \/ Goto(a, "given_up") /\ UNCHANGED session
  /\ UNCHANGED <<cleaning, row, tree, stuck>>

\* _wait_for_ready succeeds: the row is inserted (respawn: updated).
Ready(a) ==
  /\ op[a] = "ready" /\ session[a] # 0
  /\ Mark(a, tries[a], "idle") /\ Goto(a, "send")
  /\ UNCHANGED <<cleaning, world, stuck>>

\* It raises out of a tmux call, or the time is up.
NotReady(a) ==
  /\ op[a] = "ready"
  /\ Goto(a, "given_up") \/ Goto(a, "expire")
  /\ UNCHANGED <<cleaning, row, world, stuck>>

\* What tmux says of a session, or a server, that is gone is no error of kill_session.
Missing(a) == session[a] = 0

\* kill_session, which raises on any other error.
KillSession(a, next, raised) ==
  \/ session' = Sets(session, a, 0) /\ Goto(a, next) /\ UNCHANGED stuck
  \/ KillFails /\ ~Missing(a) /\ Goto(a, raised) /\ stuck' = stuck \cup {a} /\ UNCHANGED session

\* WorktreeManager.remove ignores every git error.
RemoveTree(a) ==
  \/ tree' = Sets(tree, a, 0) /\ UNCHANGED stuck
  \/ KillFails /\ tree[a] # 0 /\ stuck' = stuck \cup {a} /\ UNCHANGED tree

Expire(a) ==
  /\ op[a] = "expire"
  /\ KillSession(a, "discard", "given_up")
  /\ UNCHANGED <<cleaning, row, tree>>

Discard(a) ==
  /\ op[a] = "discard"
  /\ RemoveTree(a) /\ Goto(a, "given_up")
  /\ UNCHANGED <<cleaning, row, session>>

\* send_task: the prompt is typed,
Send(a) ==
  /\ op[a] = "send" /\ session[a] # 0
  /\ Goto(a, "enter")
  /\ UNCHANGED <<cleaning, row, world, stuck>>

\* a moment later Enter is pressed,
Enter(a) ==
  /\ op[a] = "enter" /\ session[a] # 0
  /\ Goto(a, "sent")
  /\ UNCHANGED <<cleaning, row, world, stuck>>

\* and the row is marked, whatever has become of the session.
Sent(a) ==
  /\ op[a] = "sent"
  /\ Mark(a, tries[a], "busy") /\ Goto(a, "held")
  /\ UNCHANGED <<cleaning, world, stuck>>

\* send_keys raises: the subtask fails with its agent as it is, a scout is released.
SendFails(a) ==
  /\ op[a] \in {"send", "enter"}
  /\ Goto(a, IF a \in Scout THEN "kill" ELSE "given_up")
  /\ UNCHANGED <<cleaning, row, world, stuck>>

\* A fix prompt to an agent that is still alive.
SendAgain(a) ==
  /\ Calls(a) /\ op[a] = "held" /\ State(a) # "dead" /\ a \notin Scout
  /\ Goto(a, "send")
  /\ UNCHANGED <<cleaning, row, world, stuck>>

CheckStatus(a) ==
  /\ Calls(a) /\ op[a] = "held" /\ State(a) # "dead" /\ ~Alive(a)
  /\ Mark(a, tries[a], "dead")
  /\ UNCHANGED <<cleaning, spawning, world, stuck>>

\* respawn kills what lingers and starts again in the same worktree.
Respawn(a) ==
  /\ Calls(a) /\ op[a] = "held" /\ State(a) = "dead" /\ a \notin Scout
  /\ KillSession(a, "start", "given_up")
  /\ UNCHANGED <<cleaning, row, tree>>

\* release of an agent that stalls, release_scout of one that is done.
Release(a) ==
  /\ Calls(a) /\ op[a] = "held"
  /\ Goto(a, "kill")
  /\ UNCHANGED <<cleaning, row, world, stuck>>

\* A mutant of Kill: the session is left to end by itself.
KillLater(a) ==
  /\ op[a] = "kill"
  /\ Goto(a, "remove")
  /\ UNCHANGED <<cleaning, row, world, stuck>>

\* The session first; a scout has no worktree, and none is spawned twice.
Kill(a) ==
  /\ op[a] = "kill"
  /\ KillSession(a, "remove", IF a \in Scout THEN "given_up" ELSE "free")
  /\ UNCHANGED <<cleaning, row, tree>>

Remove(a) ==
  /\ op[a] = "remove"
  /\ IF a \in Scout
     THEN Goto(a, "given_up") /\ UNCHANGED <<tree, stuck>>
     ELSE Goto(a, "free") /\ RemoveTree(a)
  /\ Mark(a, tries[a], "dead")
  /\ UNCHANGED <<cleaning, session>>

-----------------------------------------------------------------------------
(* cleanup(), at the end of a run or as `hf clean` *)

\* A mutant of EndRun: rows that are dead already are left out.
EndRunLiveRows(r) ==
  /\ phase[r] = "working"
  /\ phase' = [phase EXCEPT ![r] = "cleaning"]
  /\ sweep' = [sweep EXCEPT ![r] = {x \in Rows : row[x[1]][x[2]] # "dead"}]
  /\ op' = [a \in Agent |-> IF Owner[a] = r THEN "given_up" ELSE op[a]]
  /\ UNCHANGED <<removing, tries, row, world, stuck>>

\* A mutant of EndRun: the operation the run is in goes on behind the cleanup.
EndRunDetached(r) ==
  /\ phase[r] = "working"
  /\ phase' = [phase EXCEPT ![r] = "cleaning"]
  /\ sweep' = [sweep EXCEPT ![r] = Rows]
  /\ UNCHANGED <<removing, spawning, row, world, stuck>>

\* The run returns, raises or is cancelled, wherever it is; cleanup reads the
\* whole table, the rows of all runs.
EndRun(r) ==
  /\ phase[r] = "working"
  /\ phase' = [phase EXCEPT ![r] = "cleaning"]
  /\ sweep' = [sweep EXCEPT ![r] = Rows]
  /\ op' = [a \in Agent |-> IF Owner[a] = r THEN "given_up" ELSE op[a]]
  /\ UNCHANGED <<removing, tries, row, world, stuck>>

\* release of one row: the session of that name, whichever attempt it belongs
\* to; an exception is swallowed and the row stays as it is.
SweepKill(r, a, k) ==
  /\ phase[r] = "cleaning" /\ removing[r] = {} /\ <<a, k>> \in sweep[r]
  /\ sweep' = [sweep EXCEPT ![r] = @ \ {<<a, k>>}]
  /\ \/ /\ session' = Sets(session, a, 0)
        /\ removing' = [removing EXCEPT ![r] = {<<a, k>>}]
        /\ UNCHANGED stuck
     \/ /\ KillFails /\ ~Missing(a)
        /\ stuck' = stuck \cup {a} /\ UNCHANGED <<removing, session>>
  /\ UNCHANGED <<phase, spawning, row, tree>>

SweepRemove(r, a, k) ==
  /\ phase[r] = "cleaning" /\ <<a, k>> \in removing[r]
  /\ removing' = [removing EXCEPT ![r] = {}]
  /\ RemoveTree(a) /\ Mark(a, k, "dead")
  /\ UNCHANGED <<phase, sweep, spawning, session>>

\* What `git worktree list` shows of the branches of this program.
Listed == {a \in Agent : tree[a] # 0}

\* After the rows, the worktrees of whoever that are older than a day.
RemoveOld(r, a) ==
  /\ phase[r] = "cleaning" /\ sweep[r] = {} /\ removing[r] = {}
  /\ a \in Old \cap Listed /\ RemoveTree(a)
  /\ UNCHANGED <<cleaning, spawning, row, session>>

EndSweep(r) ==
  /\ phase[r] = "cleaning" /\ sweep[r] = {} /\ removing[r] = {}
  /\ phase' = [phase EXCEPT ![r] = "over"]
  /\ UNCHANGED <<sweep, removing, spawning, row, world, stuck>>

-----------------------------------------------------------------------------
(* The surroundings *)

\* A run ends without cleanup (`hf run`), its process dies, or cleanup is cancelled.
Crash(r) ==
  /\ phase[r] \in {"working", "cleaning"}
  /\ phase' = [phase EXCEPT ![r] = IF @ = "working" THEN "gone" ELSE "half_done"]
  /\ sweep' = [sweep EXCEPT ![r] = {}] /\ removing' = [removing EXCEPT ![r] = {}]
  /\ op' = [a \in Agent |-> IF Owner[a] = r THEN "given_up" ELSE op[a]]
  /\ UNCHANGED <<tries, row, world, stuck>>

\* The process in the session ends, and the session with it.
Exit(a) ==
  /\ session[a] # 0
  /\ session' = Sets(session, a, 0)
  /\ UNCHANGED <<cleaning, spawning, row, tree, stuck>>

-----------------------------------------------------------------------------

Operation(a) ==
  \/ Spawn(a) \/ Create(a) \/ Start(a) \/ Ready(a) \/ NotReady(a) \/ Expire(a)
  \/ Discard(a) \/ Send(a) \/ Enter(a) \/ Sent(a) \/ SendFails(a) \/ SendAgain(a)
  \/ CheckStatus(a) \/ Respawn(a) \/ Release(a) \/ Kill(a) \/ Remove(a)

Cleanup(r) ==
  \/ EndRun(r) \/ EndSweep(r)
  \/ \E a \in Agent : RemoveOld(r, a)
  \/ \E a \in Agent, k \in Attempt : SweepKill(r, a, k) \/ SweepRemove(r, a, k)

Next ==
  \/ \E a \in Agent : Operation(a) \/ Exit(a)
  \/ \E r \in Run : Cleanup(r) \/ Crash(r)

Spec == Init /\ [][Next]_vars
=============================================================================
