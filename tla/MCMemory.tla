------------------------------- MODULE MCMemory -------------------------------
(***************************************************************************)
(* A finite instance of Memory.                                            *)
(***************************************************************************)
EXTENDS MemoryProperties
=============================================================================
