--------------------------- MODULE MCOpenAIStream ---------------------------
(* One stream request, with and without a fallback model. *)
EXTENDS OpenAIStream
=============================================================================
