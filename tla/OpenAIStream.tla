---------------------------- MODULE OpenAIStream ----------------------------
(***************************************************************************)
(* protocol/openai.go: the goroutine that OpenAI.Stream starts for one     *)
(* request.  streamWithFailover connects, reconnects and fails over;       *)
(* readStream scans the SSE body of a connection; processSSEData turns an  *)
(* event into chunks, put one at a time on the buffered channel out.  A    *)
(* reader drains out, the request's context may be cancelled and the stall *)
(* guard may close the body, each at any moment.                           *)
(*                                                                         *)
(* out is kept as the sequence of everything ever put on it and the number *)
(* of chunks the reader has taken: its content is sent[rd + 1 ..].         *)
(***************************************************************************)
EXTENDS Naturals, Sequences

CONSTANTS
    MaxReconnect,   \* o.maxReconnect (3 by default)
    FailoverMax,    \* o.failover.maxRetries() (2)
    HasFallback,    \* OPENAI_FALLBACK_MODEL and its base URL are configured
    OutCap,         \* capacity of out (256)
    MaxEvents       \* bound: SSE events a connection carries

ASSUME StreamAssumption ==
    /\ MaxReconnect \in Nat \ {0}
    /\ FailoverMax \in Nat \ {0}
    /\ HasFallback \in BOOLEAN
    /\ OutCap \in Nat /\ OutCap >= 2
    /\ MaxEvents \in Nat

VARIABLES
    pc,         \* where streamWithFailover is
    attempt,    \* its loop counter
    emitted,    \* emitted / readStreamState.emitted
    lastErr,    \* lastErr: "none" or the kind of error
    sent,       \* history of out
    rd,         \* chunks received from out
    cancelled,  \* ctx is done
    stalled,    \* the stall guard of the connection has fired
    pend,       \* chunks the current SSE event still has to send
    after,      \* where readStream goes once pend is sent
    events,     \* SSE events read on this connection
    calls,      \* tool calls started on it: len(state.order)
    model,      \* o.model, which outlives the request
    tried,      \* history: models SendWithRetry was called for
    hooks       \* history: lifecycle hooks run, "after" and "error"

producer == <<pc, attempt, emitted, lastErr, stalled, pend, after, events,
              calls, model, tried, hooks>>
vars == <<producer, sent, rd, cancelled>>

-----------------------------------------------------------------------------
Content == {"reason", "text", "call", "tool"}
ChunkType == Content \cup {"usage", "warn", "done", "error"}

\* A chunk remembers the connection it was read on, and an error whether it
\* is a StreamInterruptedError.
Chunk == [t : ChunkType, conn : Nat, interrupted : BOOLEAN]

Plain(t) == [t |-> t, conn |-> attempt, interrupted |-> FALSE]
\* streamErr: an error after something was emitted is an interruption.
Failure == [t |-> "error", conn |-> attempt, interrupted |-> emitted]

Terminal(c) == c.t \in {"done", "error"}

ErrorKind == {"none", "ctx", "auth", "send", "reset", "broken", "api", "stall"}

TotalAttempts == MaxReconnect + FailoverMax + 1

\* close(out) is the last deferred call of streamWithFailover.
Closed == pc = "closed"

Room == Len(sent) - rd < OutCap

\* Mutant of SendChunk: out without a buffer, so that a send nobody waits for is
\* lost.
SendChunkUnbuffered(c) == sent' \in {sent, Append(sent, c)}

\* Mutant of SendChunk: a full out gives up its oldest chunk.
SendChunkEvicts(c) ==
    sent' = IF Room THEN Append(sent, c)
            ELSE SubSeq(sent, 1, rd) \o SubSeq(sent, rd + 2, Len(sent)) \o <<c>>

\* sendChunk: never blocks.  The chunk is dropped when out is full, and may be
\* dropped when ctx is done.
SendChunk(c) ==
    \/ Room /\ sent' = Append(sent, c)
    \/ (~Room \/ cancelled) /\ sent' = sent

\* The deferred functions: OnError hooks if lastErr is set, then close(out).
Close(err, ran) ==
    /\ pc' = "closed"
    /\ lastErr' = err
    /\ hooks' = ran \cup (IF err = "none" THEN {} ELSE {"error"})

-----------------------------------------------------------------------------
Init ==
    /\ pc = "limit"
    /\ attempt = 0
    /\ emitted = FALSE
    /\ lastErr = "none"
    /\ sent = <<>> /\ rd = 0
    /\ cancelled = FALSE
    /\ stalled = FALSE
    /\ pend = <<>> /\ after = "scan"
    /\ events = 0 /\ calls = 0
    /\ model \in IF HasFallback THEN {"primary", "fallback"} ELSE {"primary"}
    /\ tried = {} /\ hooks = {}

\* rateLimiter.Wait: it fails only with the error of a done ctx.
RateWait ==
    /\ pc = "limit"
    /\ \/ /\ pc' = "loop"
          /\ UNCHANGED <<lastErr, hooks, sent>>
       \/ /\ cancelled
          /\ SendChunk(Failure)
          /\ Close("ctx", {})
    /\ UNCHANGED <<attempt, emitted, stalled, pend, after, events, calls,
                   model, tried, rd, cancelled>>

\* The conditions under which the head of the loop gives up with lastErr: a
\* reconnection after something was emitted, or the reconnections are used up
\* and getFailoverModel has nothing to offer.
GiveUp ==
    /\ attempt > 0
    /\ emitted \/ (attempt > MaxReconnect /\ ~HasFallback)

\* The loop condition is false.  The mutant goes round once more.
ExhaustedLate == attempt > TotalAttempts + 1
Exhausted == attempt > TotalAttempts

\* The head of the loop body, up to the backoff.
LoopHead ==
    /\ pc = "loop"
    /\ \/ /\ attempt = 0
          /\ pc' = "send"
          /\ UNCHANGED <<attempt, lastErr, model, hooks, sent>>
       \/ /\ Exhausted \/ GiveUp
          /\ SendChunk(Failure)
          /\ Close(lastErr, {})
          /\ UNCHANGED <<attempt, model>>
       \/ /\ attempt > MaxReconnect
          /\ ~Exhausted /\ ~GiveUp
          /\ model' = "fallback"            \* applyFailover, then continue
          /\ attempt' = attempt + 1
          /\ UNCHANGED <<pc, lastErr, hooks, sent>>
       \/ /\ attempt \in 1..MaxReconnect /\ ~GiveUp
          /\ pc' = "backoff"
          /\ UNCHANGED <<attempt, lastErr, model, hooks, sent>>
    /\ UNCHANGED <<emitted, stalled, pend, after, events, calls, tried, rd, cancelled>>

\* The select between ctx.Done() and the backoff timer.
Backoff ==
    /\ pc = "backoff"
    /\ \/ pc' = "send" /\ UNCHANGED <<lastErr, hooks>>
       \/ cancelled /\ Close("ctx", {})
    /\ UNCHANGED <<attempt, emitted, stalled, pend, after, events, calls,
                   model, tried, sent, rd, cancelled>>

\* SendWithRetry: a response with status 200, on which readStream starts with a
\* fresh state and a fresh stall guard, or an error and the next attempt.
Connect ==
    /\ pc = "send"
    /\ tried' = tried \cup {model}
    /\ \/ /\ pc' = "scan"
          /\ emitted' = FALSE /\ stalled' = FALSE
          /\ events' = 0 /\ calls' = 0
          /\ UNCHANGED <<attempt, lastErr>>
       \/ /\ \E e \in {"auth", "send"} \cup (IF cancelled THEN {"ctx"} ELSE {}) :
                lastErr' = e
          /\ attempt' = attempt + 1
          /\ pc' = "loop"
          /\ UNCHANGED <<emitted, stalled, events, calls>>
    /\ UNCHANGED <<pend, after, model, hooks, sent, rd, cancelled>>

-----------------------------------------------------------------------------
(* readStream *)

\* What processSSEData sends for one event, in its order: usage and perhaps a
\* context warning; reasoning, text, a tool call that starts; and with a finish
\* reason every accumulated tool call and ChunkDone.
UsageChunks(usage) ==
    (IF usage = {} THEN <<>> ELSE <<Plain("usage")>>)
    \o (IF "warn" \in usage THEN <<Plain("warn")>> ELSE <<>>)

DeltaChunks(delta) ==
    LET Each(t) == IF t \in delta THEN <<Plain(t)>> ELSE <<>>
    IN  Each("reason") \o Each("text") \o Each("call")

FinishChunks(finish, n) ==
    IF finish # "" THEN [i \in 1..n |-> Plain("tool")] \o <<Plain("done")>> ELSE <<>>

EventChunks(usage, delta, finish, n) ==
    UsageChunks(usage) \o DeltaChunks(delta) \o FinishChunks(finish, n)

\* The stop result of processSSEData.  The mutant forgets it.
AfterDeltaNoStop(finish) == "scan"
AfterDelta(finish) == IF finish # "" THEN "success" ELSE "scan"

FinishReasons == {"", "stop"}
Usages == {{}, {"usage"}, {"usage", "warn"}}
Deltas == {{}, {"text"}, {"reason", "text"}, {"call"}}

\* The scanner delivers a data line.
ScanEvent ==
    /\ pc = "scan"
    /\ events < MaxEvents
    /\ events' = events + 1
    /\ \/ \E usage \in Usages, delta \in Deltas, finish \in FinishReasons :
            /\ calls' = calls + (IF "call" \in delta THEN 1 ELSE 0)
            /\ pend' = EventChunks(usage, delta, finish, calls')
            /\ after' = AfterDelta(finish)
            /\ UNCHANGED lastErr
       \/ /\ pend' = <<Plain("done")>>                    \* [DONE]
          /\ after' = "ended"
          /\ UNCHANGED <<calls, lastErr>>
       \/ /\ pend' = <<Failure>>                          \* sr.Error, sendErr
          /\ after' = "failed"
          /\ lastErr' = "api"
          /\ UNCHANGED calls
    /\ pc' = IF pend' = <<>> THEN after' ELSE "emit"
    /\ UNCHANGED <<attempt, emitted, stalled, model, tried, hooks, sent, rd, cancelled>>

\* The scan loop ends: at EOF, or on a read error.  A closed body (stall guard,
\* ctx) is a read error too; whether IsConnReset accepts it depends on where
\* the close caught the reader, except that the error of a done ctx never is.
ScanEnd ==
    /\ pc = "scan"
    /\ \/ pc' = "ended" /\ UNCHANGED lastErr
       \/ /\ pc' = "failed"
          /\ \E e \in {"reset", "broken"} \cup (IF cancelled THEN {"ctx"} ELSE {}) :
                lastErr' = e
    /\ UNCHANGED <<attempt, emitted, stalled, pend, after, events, calls,
                   model, tried, hooks, sent, rd, cancelled>>

\* pend moves on to its next chunk, or control to what follows the event.
Advance ==
    /\ pend' = Tail(pend)
    /\ pc' = IF Tail(pend) = <<>> THEN after ELSE "emit"

\* Does a sent chunk set emitted?  The mutant counts text only.
CountsTextOnly(c) == c.t = "text"
Counts(c) == c.t # "warn"

\* readStreamState.send puts the chunk on out, waiting for room if need be; a
\* warning goes through sendChunk and does not count as emitted.
EmitSent ==
    /\ pc = "emit"
    /\ Room
    /\ sent' = Append(sent, Head(pend))
    /\ emitted' = (emitted \/ Counts(Head(pend)))
    /\ Advance
    /\ UNCHANGED <<attempt, lastErr, stalled, after, events, calls, model,
                   tried, hooks, rd, cancelled>>

\* A failed send of usage, done or an error is not looked at, and a warning is
\* dropped when out is full.
EmitSkipped ==
    /\ pc = "emit"
    /\ \/ cancelled /\ Head(pend).t \notin Content
       \/ ~Room /\ Head(pend).t = "warn"
    /\ Advance
    /\ UNCHANGED <<attempt, emitted, lastErr, stalled, after, events, calls,
                   model, tried, hooks, sent, rd, cancelled>>

\* Mutant of EmitAborted: the send looks at ctx only once out has room.
EmitAbortedWaits ==
    /\ pc = "emit"
    /\ cancelled /\ Room /\ Head(pend).t \in Content
    /\ pend' = <<>>
    /\ pc' = "failed"
    /\ lastErr' = "ctx"
    /\ UNCHANGED <<attempt, emitted, stalled, after, events, calls, model,
                   tried, hooks, sent, rd, cancelled>>

\* A failed send of content ends readStream with ctx.Err().
EmitAborted ==
    /\ pc = "emit"
    /\ cancelled /\ Head(pend).t \in Content
    /\ pend' = <<>>
    /\ pc' = "failed"
    /\ lastErr' = "ctx"
    /\ UNCHANGED <<attempt, emitted, stalled, after, events, calls, model,
                   tried, hooks, sent, rd, cancelled>>

\* After the scan loop: a stall that closed nothing worth an error is found
\* here, reported on out, and returned as an error as well.
ScanEnded ==
    /\ pc = "ended"
    /\ \/ stalled /\ SendChunk(Plain("error")) /\ pc' = "failed" /\ lastErr' = "stall"
       \/ ~stalled /\ pc' = "success" /\ UNCHANGED <<sent, lastErr>>
    /\ UNCHANGED <<attempt, emitted, stalled, pend, after, events, calls,
                   model, tried, hooks, rd, cancelled>>

-----------------------------------------------------------------------------
(* Back in streamWithFailover *)

\* readStream failed: only a connection reset before anything was emitted is
\* worth another attempt, and only what was not emitted yet reports the error.
ReadFailed ==
    /\ pc = "failed"
    /\ \/ /\ ~emitted /\ lastErr = "reset"
          /\ attempt' = attempt + 1
          /\ pc' = "loop"
          /\ UNCHANGED <<lastErr, hooks, sent>>
       \/ /\ ~emitted /\ lastErr # "reset"
          /\ SendChunk(Failure)
          /\ Close(lastErr, {})
          /\ UNCHANGED attempt
       \/ /\ emitted
          /\ Close(lastErr, {})
          /\ UNCHANGED <<attempt, sent>>
    /\ UNCHANGED <<emitted, stalled, pend, after, events, calls, model, tried,
                   rd, cancelled>>

\* readStream succeeded: the AfterProcess hooks run, and the OnError hooks if one
\* of them fails; out is closed.  lastErr still holds the error of an earlier
\* attempt, if there was one.
Success ==
    /\ pc = "success"
    /\ Close(lastErr, {"after"}) \/ Close(lastErr, {"after", "error"})
    /\ UNCHANGED <<attempt, emitted, stalled, pend, after, events, calls,
                   model, tried, sent, rd, cancelled>>

Producer ==
    \/ RateWait \/ LoopHead \/ Backoff \/ Connect
    \/ ScanEvent \/ ScanEnd \/ EmitSent \/ EmitSkipped \/ EmitAborted
    \/ ScanEnded \/ ReadFailed \/ Success

-----------------------------------------------------------------------------
(* The environment *)

\* startStallGuard: no line was scanned for the idle timeout, because the
\* server is silent or because the reader of out is slow.
StallFires ==
    /\ pc \in {"scan", "emit", "ended"}
    /\ ~stalled
    /\ stalled' = TRUE
    /\ UNCHANGED <<pc, attempt, emitted, lastErr, pend, after, events, calls,
                   model, tried, hooks, sent, rd, cancelled>>

Receive ==
    /\ rd < Len(sent)
    /\ rd' = rd + 1
    /\ UNCHANGED <<producer, sent, cancelled>>

CancelCtx ==
    /\ ~cancelled
    /\ cancelled' = TRUE
    /\ UNCHANGED <<producer, sent, rd>>

Next == Producer \/ StallFires \/ Receive \/ CancelCtx

Spec == Init /\ [][Next]_vars

-----------------------------------------------------------------------------
TypeOK ==
    /\ pc \in {"limit", "loop", "backoff", "send", "scan", "emit", "ended",
               "failed", "success", "closed"}
    /\ attempt \in 0..(TotalAttempts + 1)
    /\ emitted \in BOOLEAN /\ cancelled \in BOOLEAN /\ stalled \in BOOLEAN
    /\ lastErr \in ErrorKind
    /\ sent \in Seq(Chunk) /\ pend \in Seq(Chunk)
    /\ rd \in 0..Len(sent)
    /\ after \in {"scan", "success", "ended", "failed"}
    /\ events \in Nat /\ calls \in Nat
    /\ model \in {"primary", "fallback"}
    /\ tried \subseteq {"primary", "fallback"}
    /\ hooks \subseteq {"after", "error"}

(* Everything the reader can see of the answer was read on one connection:  *)
(* no reconnection ever repeats or mixes content, at whatever point the     *)
(* first connection was lost (emitted in streamWithFailover).               *)
FromOneConnection ==
    \A i, j \in DOMAIN sent :
        sent[i].t \notin {"warn", "error"} /\ sent[j].t \notin {"warn", "error"}
            => sent[i].conn = sent[j].conn

(* After ChunkDone or ChunkError nothing but a further error is put on out, *)
(* so a reader that leaves at the first terminal chunk misses no content.   *)
OnlyErrorsAfterTerminal ==
    \A i, j \in DOMAIN sent : i < j /\ Terminal(sent[i]) => sent[j].t = "error"

(* A request that fails before it emitted anything tells its reader: the    *)
(* last chunk before out is closed is the error, although sendChunk drops   *)
(* chunks when out is full.  Only a cancelled reader may go without.        *)
FailureReported ==
    Closed /\ "after" \notin hooks /\ ~emitted /\ ~cancelled
        => sent # <<>> /\ sent[Len(sent)].t = "error"

(* What the proofs of the three rest on.  The first part bounds attempt and *)
(* says where a reconnection can still follow; the second that only a stall *)
(* found after the scan puts anything on out before emitted is set, so that *)
(* out has room for the error; the third where a terminal chunk can be.     *)
ShapeInv ==
    /\ pc = "emit" <=> pend # <<>>
    /\ pc = "limit" => attempt = 0
    /\ pc \in {"backoff", "send", "scan", "emit", "ended", "failed"} => attempt <= MaxReconnect
    /\ pc \in {"limit", "loop", "backoff", "send"} => ~emitted
    /\ \A i \in DOMAIN pend : pend[i].conn = attempt

ReportInv ==
    /\ ~emitted /\ ~cancelled /\ pc \notin {"failed", "closed"} => sent = <<>>
    /\ ~emitted /\ ~cancelled /\ pc = "failed"
            => sent = <<>> \/ (Len(sent) = 1 /\ lastErr = "stall")
    /\ \A i \in DOMAIN pend : pend[i].t = "warn" => i > 1 \/ emitted \/ cancelled
    /\ FailureReported

OrderInv ==
    /\ \A i \in DOMAIN sent :
        sent[i].t \notin {"warn", "error"} => emitted /\ sent[i].conn = attempt
    /\ \A i \in DOMAIN sent : Terminal(sent[i]) =>
        /\ pc \in {"ended", "success", "failed", "closed"}
        /\ pc = "failed" => lastErr # "reset"
    /\ \A i \in DOMAIN pend : Terminal(pend[i]) =>
        /\ i = Len(pend)
        /\ after # "scan"
        /\ after = "failed" => lastErr = "api"
    /\ OnlyErrorsAfterTerminal

(* What the reader is promised, ChunkStream, is what it gets: the chunks    *)
(* put and the close of out are steps of the abstract channel, everything   *)
(* else streamWithFailover does is invisible to the reader.                 *)
Promise == INSTANCE ChunkStream WITH
    Cap <- OutCap,
    Chunk <- [t : ChunkType, conn : 0..(TotalAttempts + 1), interrupted : BOOLEAN],
    taken <- rd,
    closed <- Closed

KeepsPromise == Promise!Spec

(* Model failover as README.detail.md:53 has it: "switches to               *)
(* OPENAI_FALLBACK_MODEL after retry exhaustion; supports both Chat and     *)
(* Stream".  A stream that used up its attempts has asked the fallback.     *)
FallbackTried ==
    Closed /\ ~cancelled /\ HasFallback /\ Exhausted => "fallback" \in tried
=============================================================================
