----------------------------- MODULE MCAgentPool -----------------------------
(* A run with a builder, a run with a scout, and `hf clean`. *)
EXTENDS AgentPoolProperties, TLC

CONSTANTS r1, r2, clean, builder, scout

MCRun   == {r1, r2, clean}
MCAgent == {builder, scout}
MCOwner == builder :> r1 @@ scout :> r2
MCScout == {scout}
MCOld   == {builder}
=============================================================================
