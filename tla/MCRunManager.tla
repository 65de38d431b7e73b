---------------------------- MODULE MCRunManager ----------------------------
(***************************************************************************)
(* Finite instances of RunManager and the properties TLC checks on them.   *)
(***************************************************************************)
EXTENDS RunManagerProperties, TLC

\* Orchestrator.run without partial success, as create_orchestrator builds it.
StrictOutcomes == {"completed", "failed"}

\* The ids are opaque: which run is which makes no difference to safety.
Symmetry == Permutations(Run)
=============================================================================
