--------------------------- MODULE MCOpenAIClient ---------------------------
(* Two requests of either kind with an attempt for each of two keys. *)
EXTENDS OpenAIClient, TLC

Symmetric == Permutations(Requests)
=============================================================================
