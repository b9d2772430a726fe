--------------------------- MODULE MCRateLimiter ---------------------------
(* Two callers of a limiter with a two-tick minute, which may call again. *)
EXTENDS RateLimiter
=============================================================================
