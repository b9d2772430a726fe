-------------------------- MODULE MCSendWithRetry --------------------------
(* Two senders with one retry each, a breaker that trips at two failures. *)
EXTENDS SendWithRetry
=============================================================================
