-------------------------------- MODULE MCStore --------------------------------
(***************************************************************************)
(* A finite instance of Store.                                             *)
(***************************************************************************)
EXTENDS StoreProperties, TLC

\* Which process is which makes no difference.
Symmetry == Permutations(Proc)
=============================================================================
