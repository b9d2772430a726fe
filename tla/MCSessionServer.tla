--------------------------- MODULE MCSessionServer ---------------------------
(* Requests that share a session and requests that do not. *)
EXTENDS SessionServer
=============================================================================
