------------------------ MODULE AgentPoolProperties ------------------------
(***************************************************************************)
(* The correctness properties of the AgentPool, and the invariant that     *)
(* makes them inductive.                                                   *)
(***************************************************************************)
EXTENDS AgentPool

\* After a run's own cleanup, whatever is left of its agents is an attempt that
\* never made it into the table (a spawn that raised or was cancelled half way),
\* unless tmux or git refused to remove something: nothing that another run, a
\* stall retry or a respawn does meanwhile makes cleanup miss a registered agent.
NothingRegisteredLeft ==
  \A a \in Agent :
    phase[Owner[a]] = "over" /\ a \notin stuck =>
      /\ session[a] # 0 => ~Registered(a, session[a])
      /\ tree[a] # 0 => ~Registered(a, tree[a])

\* A prompt and the Enter after it go to the session of the attempt they are meant
\* for, never to a session that an earlier attempt of that name left behind; when the
\* row of an attempt is marked busy, its session is there or none is.
PromptReachesAttempt ==
  [][\A a \in Agent :
       /\ <<op[a], op'[a]>> \in {<<"send", "enter">>, <<"enter", "sent">>} => session[a] = tries[a]
       /\ \A k \in Attempt :
            row[a][k] # "busy" /\ row'[a][k] = "busy" => session[a] \in {0, k}]_vars

\* Nobody has begun a cleanup.
NoCleanup == \A r \in Run : phase[r] \in {"working", "gone"}

\* As long as nobody cleans up, a live agent works in the worktree that was
\* created for its own attempt: no retry or release takes it from under it,
\* unless tmux or git refused to remove something.
OwnWorktree ==
  NoCleanup =>
    \A a \in Agent \ (Scout \cup stuck) : session[a] # 0 => tree[a] = session[a]

\* What the design of the multi-run manager says: "each Orchestrator is
\* independent".  A run that is working and in no operation on an agent it holds
\* keeps the worktree of that agent.
IndependentRuns ==
  [][\A a \in Agent :
       phase[Owner[a]] = "working" /\ op[a] = "held" => tree'[a] = tree[a]]_vars

-----------------------------------------------------------------------------
(* The inductive invariant *)

\* Only a working run is in an operation.
OpInv == \A a \in Agent : op[a] \notin Rest => phase[Owner[a]] = "working"

\* Once started, the session of a name, if there is one, is the last attempt's.
SessionInv ==
  \A a \in Agent : op[a] \in {"ready", "send", "enter", "sent", "held"} => session[a] \in {0, tries[a]}

\* Where session and worktree stand in each operation, before any cleanup.
TreeInv ==
  NoCleanup =>
    \A a \in Agent \ (Scout \cup stuck) :
      /\ session[a] # 0 => tree[a] = session[a]
      /\ op[a] \in {"free", "create", "start", "discard", "remove"} => session[a] = 0
      /\ op[a] \in {"start", "ready", "send", "enter", "sent", "held", "expire", "kill"} => tree[a] = tries[a]

\* A cleanup has only rows ahead of it that are in the table.
SweepInv == \A r \in Run : (sweep[r] \cup removing[r]) \subseteq Rows

\* A cleanup is at one row at a time.
OneAtATime == \A r \in Run : \A x, y \in removing[r] : x = y

\* What a cleanup has still to remove of its own run is ahead of it.
CleaningInv ==
  \A a \in Agent : LET r == Owner[a] IN
    phase[r] = "cleaning" /\ a \notin stuck =>
      /\ session[a] # 0 /\ Registered(a, session[a]) => <<a, session[a]>> \in sweep[r]
      /\ tree[a] # 0 /\ Registered(a, tree[a]) =>
           \/ <<a, tree[a]>> \in sweep[r]
           \/ \E k \in Attempt : <<a, k>> \in removing[r]

\* Nothing of an agent is unaccounted for, from its spawn to the cleanup: the
\* invariant from which the properties above follow.
PoolInv ==
  /\ TypeOK /\ OpInv /\ SessionInv /\ TreeInv /\ SweepInv
  /\ OneAtATime /\ CleaningInv /\ NothingRegisteredLeft
=============================================================================
