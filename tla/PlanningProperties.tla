-------------------------- MODULE PlanningProperties --------------------------
(***************************************************************************)
(* The correctness properties of Planning.                                 *)
(***************************************************************************)
EXTENDS Planning

\* What _execute can ever start: the least set of subtasks that holds every one
\* whose dependencies it holds.
Startable ==
  LET Closed == {C \in SUBSET DOMAIN deps : \A i \in DOMAIN deps : deps[i] \subseteq C => i \in C}
  IN  {i \in DOMAIN deps : \A C \in Closed : i \in C}

Distinct(a) == \A i, j \in DOMAIN a : a[i].desc = a[j].desc => i = j

\* The items of an answer that can be done in some order.
Doable(a) ==
  LET Closed == {C \in SUBSET DOMAIN a :
                   \A i \in DOMAIN a : a[i].deps \subseteq {a[j].desc : j \in C} => i \in C}
  IN  {i \in DOMAIN a : \A C \in Closed : i \in C}

\* An answer a reasonable runtime gives: no description twice, no dependency on
\* what is not there, no cycle.
Sound(a) == Distinct(a) /\ Doable(a) = DOMAIN a

\* The subtasks that depend, directly or not, on an item the planner removed.
Orphan ==
  LET kept == {subtasks[j].desc : j \in DOMAIN subtasks}
      Heir == {C \in SUBSET DOMAIN subtasks :
                 \A i \in DOMAIN subtasks :
                   (\E d \in subtasks[i].deps : d \notin kept \/ \E j \in C : subtasks[j].desc = d)
                     => i \in C}
  IN  {i \in DOMAIN subtasks : \A C \in Heir : i \in C}

\* Given a sound answer, stripping ceremony, capping and matching descriptions do
\* no other harm than this: a subtask that can never start, on which _execute ends
\* in a deadlock, depends on an item that was stripped or capped, and every such
\* dependent is one.
BlockedAreOrphans ==
  pc = "planned" /\ Sound(answer) => DOMAIN subtasks \ Startable = Orphan

\* The plan of the SmartPlanner has at most the subtasks of its tier; no ceremony
\* takes the place of work: an item of work is left out only when the tier is full.
PlanFits ==
  pc = "planned" /\ smart =>
    /\ Len(subtasks) <= Cap(complexity)
    /\ complexity # "SOLO" =>
         \A i \in DOMAIN answer :
           \/ answer[i].desc \in Ceremony
           \/ \E j \in DOMAIN subtasks : subtasks[j].desc = answer[i].desc
           \/ Len(subtasks) = Cap(complexity)

\* A scout agent that has its row in the agents table never outlives the scout phase
\* without a try to release it, whether the prompt fails, it dies, never answers or
\* answers nonsense, and also when the run is cancelled in the middle.  Nobody tries
\* that of one whose spawn broke off: its session may stay, without a row, and the
\* run goes on without having waited for it.
ScoutGone ==
  /\ scout = "live" => pc \in {"prompt", "poll", "release"}
  /\ scout = "starting" => pc = "ready"
  /\ scout = "stray" => polls = 0 /\ pc \notin {"prompt", "poll", "release"}

-----------------------------------------------------------------------------
(* The inductive invariant behind them *)

\* The subtasks are the items of a list, one by one.
Mirrors(a) ==
  /\ a # <<>> /\ DOMAIN subtasks = DOMAIN a
  /\ \A i \in DOMAIN a : subtasks[i].desc = a[i].desc /\ subtasks[i].deps = a[i].deps

\* The subtasks are what was kept of the answer, or the whole task takes its place:
\* in the lowest tier, or when nothing was kept.
SourceInv ==
  /\ pc = "decompose" => smart
  /\ pc \in {"resolve", "planned"} =>
       \/ Mirrors(IF smart THEN Kept(answer) ELSE answer)
       \/ /\ smart /\ \E criteria \in BOOLEAN : subtasks = Whole(criteria)
          /\ complexity = "SOLO" \/ Kept(answer) = <<>>

\* Dependencies are resolved once, all of them.
ResolvedInv ==
  deps = IF pc = "planned"
         THEN [i \in DOMAIN subtasks |-> {IdOf(d) : d \in subtasks[i].deps}]
         ELSE <<>>

\* Nobody polls a scout that is not ready.
UnpolledInv == pc \in {"scout", "ready"} => polls = 0

PlanInv == TypeOK /\ ScoutGone /\ UnpolledInv /\ SourceInv /\ ResolvedInv

-----------------------------------------------------------------------------
(* Progress *)

\* The two phases end: a scout that never says anything is given up.
PlanningEnds == <>(pc \in {"planned", "failed", "cancelled"})
=============================================================================
