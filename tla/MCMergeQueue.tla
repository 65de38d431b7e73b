---------------------------- MODULE MCMergeQueue ----------------------------
(* Two coroutines, a high and a low priority, two branches that clash. *)
EXTENDS MergeQueueProperties, TLC

MCClash == {{1, 2}}
Interchangeable == Permutations(Caller)
=============================================================================
