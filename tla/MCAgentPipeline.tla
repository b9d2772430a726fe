--------------------------- MODULE MCAgentPipeline ---------------------------
(* AgentPipeline on a small instance; the constants are in the .cfg file. *)
EXTENDS AgentPipeline
=============================================================================
