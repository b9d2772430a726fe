----------------------------- MODULE ChunkStream -----------------------------
(***************************************************************************)
(* What OpenAI.Stream promises the reader of the channel it returns, with  *)
(* no word about connections, retries or failover: chunks arrive in the    *)
(* order in which they were put, the answer comes from one connection,     *)
(* nothing but errors follows its end, and nothing at all follows the      *)
(* close.  OpenAIStream implements it.                                     *)
(***************************************************************************)
EXTENDS Naturals, Sequences

CONSTANTS
    Cap,        \* capacity of the channel
    Chunk       \* chunks: records with a type t and the connection conn

VARIABLES
    sent,       \* everything ever put on the channel
    taken,      \* how much of it the reader has taken
    closed      \* the channel is closed

vars == <<sent, taken, closed>>

Answer(c) == c.t \notin {"warn", "error"}
Ends(c) == c.t \in {"done", "error"}

Init == sent = <<>> /\ taken = 0 /\ closed = FALSE

\* A part of the answer, or a warning: the end has not been told, and the part
\* continues the answer that was begun.
PutAnswer(c) ==
    /\ c.t # "error"
    /\ \A i \in DOMAIN sent :
        /\ ~Ends(sent[i])
        /\ Answer(c) /\ Answer(sent[i]) => sent[i].conn = c.conn

PutError(c) == c.t = "error"

Put(c) ==
    /\ ~closed
    /\ Len(sent) - taken < Cap
    /\ sent' = Append(sent, c)
    /\ PutAnswer(c) \/ PutError(c)
    /\ closed' \in BOOLEAN          \* the last chunk may be put by the closing step
    /\ UNCHANGED taken

Take ==
    /\ taken < Len(sent)
    /\ taken' = taken + 1
    /\ UNCHANGED <<sent, closed>>

Close ==
    /\ ~closed
    /\ closed' = TRUE
    /\ UNCHANGED <<sent, taken>>

Next == Take \/ Close \/ (sent' # sent /\ \E c \in Chunk : Put(c))

Spec == Init /\ [][Next]_vars
=============================================================================
