----------------------------- MODULE MCAgentLoop -----------------------------
(* AgentLoop on a small instance; the constants are in MCAgentLoop.cfg. *)
EXTENDS AgentLoop
=============================================================================
