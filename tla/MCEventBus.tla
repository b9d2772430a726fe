----------------------------- MODULE MCEventBus -----------------------------
(* Two publishers, two subscribers and two callers of Stop. *)
EXTENDS EventBus
=============================================================================
