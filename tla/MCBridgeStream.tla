--------------------------- MODULE MCBridgeStream ---------------------------
(* The stream goroutine and the bridge on a two-place channel. *)
EXTENDS BridgeStream
=============================================================================
