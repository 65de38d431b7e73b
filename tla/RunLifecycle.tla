---------------------------- MODULE RunLifecycle ----------------------------
(***************************************************************************)
(* What a run of the Orchestrator promises, without agents, polling,       *)
(* retry counters or worktrees: which states a run and its subtasks go     *)
(* through, and what must be true before a branch may reach main and       *)
(* before a run may call itself completed.                                 *)
(***************************************************************************)
CONSTANTS
  Subtask,      \* the subtasks of the plan
  DepChoices    \* dependency maps a plan may have

VARIABLES
  partial,      \* may the run succeed with some subtasks failed?
  runState, deps, st,
  approved,     \* subtasks whose gates passed in the latest review
  merged,       \* subtasks whose branch reached main
  over          \* the run has ended: nothing happens any more

vars == <<partial, runState, deps, st, approved, merged, over>>

In(state) == {s \in Subtask : st[s] = state}
Active    == {"scouting", "planning", "executing", "reviewing", "merging"}

Init ==
  /\ partial \in BOOLEAN
  /\ runState = "scouting" /\ over = FALSE
  /\ deps = [s \in Subtask |-> {}]
  /\ st = [s \in Subtask |-> "pending"]
  /\ approved = {} /\ merged = {}

Goto(from, to) ==
  /\ ~over /\ runState = from /\ runState' = to
  /\ UNCHANGED <<partial, st, merged, over>>

Scouted == Goto("scouting", "planning") /\ UNCHANGED <<deps, approved>>
Planned == Goto("planning", "executing") /\ deps' \in DepChoices /\ UNCHANGED approved

\* A run may fail from any active state.
GiveUp == \E from \in Active : Goto(from, "failed") /\ UNCHANGED <<deps, approved>>

Move(s, phase, from, to) ==
  /\ ~over /\ runState = phase
  /\ st[s] = from /\ st' = [st EXCEPT ![s] = to]
  /\ UNCHANGED <<partial, deps, merged, over>>

\* A subtask starts, or fails to start, only after everything it depends on.
Start(s) ==
  /\ deps[s] \subseteq In("done")
  /\ \E to \in {"running", "failed"} : Move(s, "executing", "pending", to)
  /\ UNCHANGED <<runState, approved>>

Settle(s) ==
  /\ \E to \in {"done", "failed", "pending"} : Move(s, "executing", "running", to)
  /\ UNCHANGED <<runState, approved>>

\* Only settled subtasks are reviewed.
Submit ==
  /\ Goto("executing", "reviewing")
  /\ In("done") \cup In("failed") = Subtask
  /\ partial \/ In("failed") = {}
  /\ UNCHANGED <<deps, approved>>

Approve(s) ==
  /\ ~over /\ runState = "reviewing" /\ st[s] = "done"
  /\ approved' = approved \cup {s}
  /\ UNCHANGED <<partial, runState, deps, st, merged, over>>

Reject(s) ==
  /\ s \notin approved
  /\ \E to \in {"running", "failed"} : Move(s, "reviewing", "done", to)
  /\ UNCHANGED <<runState, approved>>

\* A subtask sent back goes through review again, and so do all the others.
Rework ==
  /\ Goto("reviewing", "executing")
  /\ In("running") # {}
  /\ approved' = {} /\ UNCHANGED deps

\* Nothing is merged before every surviving subtask is approved.
Accept ==
  /\ Goto("reviewing", "merging")
  /\ In("done") = approved
  /\ partial \/ In("done") = Subtask
  /\ UNCHANGED <<deps, approved>>

Land(s) ==
  /\ ~over /\ runState = "merging" /\ s \in approved /\ st[s] = "done"
  /\ merged' = merged \cup {s}
  /\ UNCHANGED <<partial, runState, deps, st, approved, over>>

\* Without partial success a subtask that cannot be merged fails the run.
Bounce(s) ==
  /\ Move(s, "merging", "done", "failed")
  /\ s \notin merged
  /\ runState' = IF partial THEN runState ELSE "failed"
  /\ UNCHANGED approved

\* Completed means all of it is on main.
Complete ==
  /\ Goto("merging", "completed")
  /\ merged = Subtask
  /\ UNCHANGED <<deps, approved>>

CompletePartially ==
  /\ Goto("merging", "partial_success")
  /\ partial /\ In("failed") # {} /\ merged = In("done")
  /\ UNCHANGED <<deps, approved>>

End == ~over /\ over' = TRUE /\ UNCHANGED <<partial, runState, deps, st, approved, merged>>

Next ==
  \/ Scouted \/ Planned \/ GiveUp \/ Submit \/ Rework \/ Accept
  \/ Complete \/ CompletePartially \/ End
  \/ \E s \in Subtask :
       Start(s) \/ Settle(s) \/ Approve(s) \/ Reject(s) \/ Land(s) \/ Bounce(s)

Spec == Init /\ [][Next]_vars
=============================================================================
