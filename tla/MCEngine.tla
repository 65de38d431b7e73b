------------------------------ MODULE MCEngine ------------------------------
(***************************************************************************)
(* Finite instances of Engine and the properties TLC checks on them.       *)
(***************************************************************************)
EXTENDS EngineProperties

\* Two independent subtasks, a chain, a plan whose second subtask comes first
\* in dependency order, a cycle, and a dependency no description matches.
TwoSubtaskPlans ==
  { <<{}, {}>>, <<{}, {1}>>, <<{2}, {}>>, <<{2}, {1}>>, <<{}, {0}>> }

\* The Orchestrator as the command line builds it, and its two variants, with one
\* agent at a time and with two.
Build(partial, queue, limit) == [partial |-> partial, queue |-> queue, limit |-> limit]
Variants == {<<FALSE, FALSE>>, <<FALSE, TRUE>>, <<TRUE, FALSE>>}

StrictMode == {Build(FALSE, FALSE, 1)}
CoreModes == {Build(v[1], v[2], limit) : v \in Variants, limit \in {1, 2}}
=============================================================================
