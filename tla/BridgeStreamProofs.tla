------------------------- MODULE BridgeStreamProofs -------------------------
(***************************************************************************)
(* The stream goroutine and the bridge, for every capacity of out of at    *)
(* least two and every number of attempts and events.                      *)
(*                                                                         *)
(* The stream on its own (OpenAIStream, any reader) keeps its types,       *)
(* reports a failure, never mixes connections and puts nothing but errors  *)
(* after a terminal chunk.  The bridge reads a stream as OpenAIStream has  *)
(* it, so all of that holds under the bridge; the agent gets one answer,   *)
(* and a message is the whole answer.                                      *)
(***************************************************************************)
EXTENDS BridgeStream, SequenceTheorems, FiniteSetTheorems, TLAPS

-----------------------------------------------------------------------------
(* The stream goroutine *)

(* A chunk made on the current connection is a chunk.                      *)
LEMMA ChunkTypes ==
    ASSUME attempt \in Nat, emitted \in BOOLEAN
    PROVE  /\ Failure \in Chunk
           /\ \A t \in ChunkType : Plain(t) \in Chunk
BY DEF Failure, Plain, Chunk, ChunkType

(* Two one-element sequences put together.                                 *)
LEMMA ConcatPair ==
    ASSUME NEW S, NEW a \in S, NEW b \in S
    PROVE  <<a>> \o <<b>> = <<a, b>>
<1>1. /\ <<a>> \in Seq(S) /\ <<b>> \in Seq(S) /\ <<a, b>> \in Seq(S)
      /\ Len(<<a>>) = 1 /\ Len(<<b>>) = 1 /\ Len(<<a, b>>) = 2
  OBVIOUS
<1>2. /\ <<a>> \o <<b>> \in Seq(S)
      /\ Len(<<a>> \o <<b>>) = 2
      /\ \A i \in 1..2 : (<<a>> \o <<b>>)[i] = IF i <= 1 THEN <<a>>[i] ELSE <<b>>[i - 1]
  BY <1>1, ConcatProperties
<1>3. (<<a>> \o <<b>>)[1] = a /\ (<<a>> \o <<b>>)[2] = b
  BY <1>2
<1>4. \A i \in 1..2 : (<<a>> \o <<b>>)[i] = <<a, b>>[i]
  <2>1. <<a, b>>[1] = a /\ <<a, b>>[2] = b
    OBVIOUS
  <2>2. \A i \in 1..2 : i = 1 \/ i = 2
    OBVIOUS
  <2> QED
    BY <1>3, <2>1, <2>2
<1> QED
  BY <1>1, <1>2, <1>4, SeqEqual

(* The part of processSSEData that sends usage: chunks of this connection, *)
(* none terminal, and the warning never the first.                         *)
LEMMA UsageChunksFacts ==
    ASSUME attempt \in Nat, emitted \in BOOLEAN, NEW usage \in Usages
    PROVE  LET s == UsageChunks(usage)
           IN  /\ s \in Seq(Chunk)
               /\ \A i \in DOMAIN s : /\ s[i].conn = attempt
                                      /\ ~Terminal(s[i])
                                      /\ s[i].t = "warn" => i > 1
<1> USE ChunkTypes DEF UsageChunks, ChunkType, Content, Terminal
<1>1. Plain("usage") \in Chunk /\ Plain("warn") \in Chunk
  OBVIOUS
<1>2. /\ Plain("usage").t = "usage" /\ Plain("usage").conn = attempt
      /\ Plain("warn").t = "warn" /\ Plain("warn").conn = attempt
  BY DEF Plain
<1>3. CASE usage = {}
  BY <1>3, <1>1, <1>2
<1>4. CASE usage = {"usage"}
  <2>1. UsageChunks(usage) = <<Plain("usage")>>
    BY <1>4, <1>1
  <2> QED
    BY <2>1, <1>1, <1>2
<1>5. CASE usage = {"usage", "warn"}
  <2>1. UsageChunks(usage) = <<Plain("usage"), Plain("warn")>>
    BY <1>5, <1>1, ConcatPair
  <2> QED
    BY <2>1, <1>1, <1>2
<1> QED
  BY <1>3, <1>4, <1>5 DEF Usages

(* The part that sends content: chunks of this connection, none terminal   *)
(* and none a warning.                                                     *)
LEMMA DeltaChunksFacts ==
    ASSUME attempt \in Nat, emitted \in BOOLEAN, NEW delta \in Deltas
    PROVE  LET s == DeltaChunks(delta)
           IN  /\ s \in Seq(Chunk)
               /\ \A i \in DOMAIN s : /\ s[i].conn = attempt
                                      /\ ~Terminal(s[i])
                                      /\ s[i].t # "warn"
<1> USE ChunkTypes DEF DeltaChunks, ChunkType, Content, Terminal
<1>1. \A t \in Content : Plain(t) \in Chunk /\ Plain(t).t = t /\ Plain(t).conn = attempt
  BY DEF Plain
<1>2. CASE delta = {}
  BY <1>2, <1>1
<1>3. CASE delta = {"text"}
  <2>1. DeltaChunks(delta) = <<Plain("text")>>
    BY <1>3, <1>1
  <2> QED
    BY <2>1, <1>1
<1>4. CASE delta = {"reason", "text"}
  <2>1. DeltaChunks(delta) = <<Plain("reason"), Plain("text")>>
    BY <1>4, <1>1, ConcatPair
  <2> QED
    BY <2>1, <1>1
<1>5. CASE delta = {"call"}
  <2>1. DeltaChunks(delta) = <<Plain("call")>>
    BY <1>5, <1>1
  <2> QED
    BY <2>1, <1>1
<1> QED
  BY <1>2, <1>3, <1>4, <1>5 DEF Deltas

(* The part a finish reason adds: tool calls, and ChunkDone at the end.    *)
LEMMA FinishChunksFacts ==
    ASSUME attempt \in Nat, emitted \in BOOLEAN, NEW finish \in FinishReasons, NEW n \in Nat
    PROVE  LET s == FinishChunks(finish, n)
           IN  /\ s \in Seq(Chunk)
               /\ \A i \in DOMAIN s : /\ s[i].conn = attempt
                                      /\ Terminal(s[i]) => i = Len(s) /\ AfterDelta(finish) = "success"
                                      /\ s[i].t # "warn"
<1> DEFINE tools == [i \in 1..n |-> Plain("tool")]
           last == <<Plain("done")>>
<1>1. /\ Plain("tool") \in Chunk /\ Plain("done") \in Chunk
      /\ Plain("tool").t = "tool" /\ Plain("done").t = "done"
      /\ Plain("tool").conn = attempt /\ Plain("done").conn = attempt
  <2>1. "tool" \in ChunkType /\ "done" \in ChunkType
    BY DEF ChunkType, Content
  <2> QED
    BY <2>1, ChunkTypes DEF Plain
<1>2. tools \in Seq(Chunk) /\ Len(tools) = n /\ last \in Seq(Chunk) /\ Len(last) = 1
  BY <1>1
<1>3. CASE finish = ""
  <2>1. FinishChunks(finish, n) = <<>>
    BY <1>3 DEF FinishChunks
  <2> QED
    BY <2>1
<1>4. CASE finish # ""
  <2> DEFINE s == tools \o last
  <2>1. FinishChunks(finish, n) = s
    BY <1>4 DEF FinishChunks
  <2>2. /\ s \in Seq(Chunk) /\ Len(s) = n + 1
        /\ \A i \in 1..(n + 1) : s[i] = IF i <= n THEN tools[i] ELSE last[i - n]
    BY <1>2, ConcatProperties
  <2>3. \A i \in 1..(n + 1) : s[i] = IF i <= n THEN Plain("tool") ELSE Plain("done")
    BY <2>2
  <2> HIDE DEF s
  <2>4. AfterDelta(finish) = "success"
    BY <1>4 DEF AfterDelta
  <2> QED
    BY <2>1, <2>2, <2>3, <2>4, <1>1 DEF Terminal
<1> QED
  BY <1>3, <1>4

(* What processSSEData sends for an event as a whole.                      *)
LEMMA EventFacts ==
    ASSUME attempt \in Nat, emitted \in BOOLEAN, NEW usage \in Usages,
           NEW delta \in Deltas, NEW finish \in FinishReasons, NEW n \in Nat
    PROVE  /\ EventChunks(usage, delta, finish, n) \in Seq(Chunk)
           /\ \A i \in DOMAIN EventChunks(usage, delta, finish, n) :
                /\ EventChunks(usage, delta, finish, n)[i].conn = attempt
                /\ Terminal(EventChunks(usage, delta, finish, n)[i])
                        => i = Len(EventChunks(usage, delta, finish, n)) /\ AfterDelta(finish) = "success"
                /\ EventChunks(usage, delta, finish, n)[i].t = "warn" => i > 1
<1> DEFINE u == UsageChunks(usage)
           d == DeltaChunks(delta)
           f == FinishChunks(finish, n)
           s == EventChunks(usage, delta, finish, n)
<1>0. s = u \o d \o f
  BY DEF EventChunks
<1>1. u \in Seq(Chunk) /\ d \in Seq(Chunk) /\ f \in Seq(Chunk)
  BY UsageChunksFacts, DeltaChunksFacts, FinishChunksFacts
<1>2. \A i \in 1..Len(u) : u[i].conn = attempt /\ ~Terminal(u[i]) /\ (u[i].t = "warn" => i > 1)
  BY <1>1, UsageChunksFacts
<1>2a. \A i \in 1..Len(d) : d[i].conn = attempt /\ ~Terminal(d[i]) /\ d[i].t # "warn"
  BY <1>1, DeltaChunksFacts
<1>2b. \A i \in 1..Len(f) : /\ f[i].conn = attempt /\ f[i].t # "warn"
                            /\ Terminal(f[i]) => i = Len(f) /\ AfterDelta(finish) = "success"
  <2>1. \A i \in DOMAIN f : /\ f[i].conn = attempt /\ f[i].t # "warn"
                            /\ Terminal(f[i]) => i = Len(f) /\ AfterDelta(finish) = "success"
    BY FinishChunksFacts
  <2> QED
    BY <1>1, <2>1, LenProperties
<1> HIDE DEF u, d, f
<1>3. /\ (u \o d) \in Seq(Chunk) /\ Len(u \o d) = Len(u) + Len(d)
      /\ \A i \in 1..(Len(u) + Len(d)) : (u \o d)[i] = IF i <= Len(u) THEN u[i] ELSE d[i - Len(u)]
  BY <1>1, ConcatProperties
<1>4. /\ s \in Seq(Chunk) /\ Len(s) = Len(u) + Len(d) + Len(f)
      /\ \A i \in 1..(Len(u) + Len(d) + Len(f)) :
            s[i] = IF i <= Len(u) + Len(d) THEN (u \o d)[i] ELSE f[i - (Len(u) + Len(d))]
  BY <1>0, <1>1, <1>3, ConcatProperties
<1> HIDE DEF s
<1>5. Len(u) \in Nat /\ Len(d) \in Nat /\ Len(f) \in Nat
  BY <1>1, LenProperties
<1>6. ASSUME NEW i \in 1..(Len(u) + Len(d) + Len(f))
      PROVE  /\ s[i].conn = attempt
             /\ Terminal(s[i]) => i = Len(s) /\ AfterDelta(finish) = "success"
             /\ s[i].t = "warn" => i > 1
  <2>1. CASE i <= Len(u)
    <3>1. i \in 1..Len(u) /\ i \in 1..(Len(u) + Len(d))
      BY <2>1, <1>5
    <3>2. s[i] = (u \o d)[i]
      BY <2>1, <1>4, <1>5
    <3>3. (u \o d)[i] = u[i]
      BY <2>1, <3>1, <1>3
    <3> QED
      BY <3>1, <3>2, <3>3, <1>2
  <2>2. CASE i > Len(u) /\ i <= Len(u) + Len(d)
    <3>1. i - Len(u) \in 1..Len(d) /\ i \in 1..(Len(u) + Len(d)) /\ ~(i <= Len(u))
      BY <2>2, <1>5
    <3>2. s[i] = (u \o d)[i]
      BY <2>2, <1>4, <1>5
    <3>3. s[i] = d[i - Len(u)] /\ i - Len(u) \in 1..Len(d)
      BY <3>1, <3>2, <1>3
    <3> QED
      BY <3>3, <1>2a, <1>5
  <2>3. CASE i > Len(u) + Len(d)
    <3>1. PICK k \in 1..Len(f) : s[i] = f[k] /\ (k = Len(f) => i = Len(s))
      <4>1. i - (Len(u) + Len(d)) \in 1..Len(f)
        BY <2>3, <1>5
      <4>2. s[i] = f[i - (Len(u) + Len(d))]
        BY <2>3, <1>4, <1>5
      <4> QED
        BY <4>1, <4>2, <1>4, <1>5
    <3>2. Terminal(f[k]) => k = Len(f) /\ AfterDelta(finish) = "success"
      BY <1>2b
    <3>3. f[k].conn = attempt /\ f[k].t # "warn"
      BY <1>2b
    <3> QED
      BY <3>1, <3>2, <3>3
  <2> QED
    BY <2>1, <2>2, <2>3, <1>5
<1>7. DOMAIN s = 1..(Len(u) + Len(d) + Len(f))
  BY <1>4, <1>5
<1> QED
  BY <1>4, <1>6, <1>7 DEF s

-----------------------------------------------------------------------------
(* sendChunk leaves out longer by the chunk or as it was, and the latter   *)
(* only when it was full or ctx is done.                                   *)
LEMMA SendChunkFacts ==
    ASSUME TypeOK, NEW c \in Chunk, SendChunk(c)
    PROVE  /\ sent' \in Seq(Chunk)
           /\ rd \in 0..Len(sent')
           /\ \/ sent' = sent /\ (cancelled \/ Len(sent) - rd >= OutCap)
              \/ /\ Len(sent') = Len(sent) + 1
                 /\ \A i \in 1..Len(sent) : sent'[i] = sent[i]
                 /\ sent'[Len(sent) + 1] = c
<1>1. CASE sent' = Append(sent, c)
  BY <1>1, AppendProperties, LenProperties DEF TypeOK
<1>2. CASE sent' = sent /\ (~Room \/ cancelled)
  BY <1>2, StreamAssumption, LenProperties DEF TypeOK, Room
<1> QED
  BY <1>1, <1>2 DEF SendChunk

(* Types and shape are inductive together: the bound on attempt needs to    *)
(* know where the loop still goes round, and Head(pend) that pend is not    *)
(* empty.                                                                  *)
LEMMA ShapeStep == TypeOK /\ ShapeInv /\ [Next]_vars => TypeOK' /\ ShapeInv'
<1> SUFFICES ASSUME TypeOK, ShapeInv, [Next]_vars PROVE TypeOK' /\ ShapeInv'
  OBVIOUS
<1> USE StreamAssumption DEF TypeOK, ShapeInv, TotalAttempts
<1> USE DEF ErrorKind
<1>0. /\ attempt \in Nat
      /\ Failure \in Chunk /\ Failure.conn = attempt
      /\ Plain("error") \in Chunk /\ Plain("error").conn = attempt
      /\ Plain("done") \in Chunk /\ Plain("done").conn = attempt
  BY ChunkTypes DEF Failure, Plain, ChunkType
<1>1. CASE RateWait
  <2>1. CASE pc' = "loop" /\ UNCHANGED <<lastErr, hooks, sent>>
    BY <1>1, <2>1 DEF RateWait
  <2>2. CASE SendChunk(Failure) /\ Close("ctx", {})
    <3>1. sent' \in Seq(Chunk) /\ rd \in 0..Len(sent')
      BY <2>2, <1>0, SendChunkFacts
    <3> QED
      BY <1>1, <2>2, <3>1 DEF RateWait, Close
  <2> QED
    BY <1>1, <2>1, <2>2 DEF RateWait
<1>2. CASE LoopHead
  <2>1. CASE attempt = 0 /\ pc' = "send" /\ UNCHANGED <<attempt, lastErr, model, hooks,
                                                        sent>>
    BY <1>2, <2>1 DEF LoopHead
  <2>2. CASE SendChunk(Failure) /\ Close(lastErr, {}) /\ UNCHANGED <<attempt, model>>
    <3>1. sent' \in Seq(Chunk) /\ rd \in 0..Len(sent')
      BY <2>2, <1>0, SendChunkFacts
    <3> QED
      BY <1>2, <2>2, <3>1 DEF LoopHead, Close
  <2>3. CASE /\ ~Exhausted /\ model' = "fallback" /\ attempt' = attempt + 1
             /\ UNCHANGED <<pc, lastErr, hooks, sent>>
    BY <1>2, <2>3 DEF LoopHead, Exhausted
  <2>4. CASE /\ attempt \in 1..MaxReconnect /\ pc' = "backoff"
             /\ UNCHANGED <<attempt, lastErr, model, hooks, sent>>
    BY <1>2, <2>4 DEF LoopHead
  <2> QED
    BY <1>2, <2>1, <2>2, <2>3, <2>4 DEF LoopHead
<1>3. CASE Backoff
  BY <1>3, <1>0 DEF Backoff, Close
<1>4. CASE Connect
  <2>1. lastErr' \in ErrorKind
    BY <1>4 DEF Connect
  <2>2. tried' \subseteq {"primary", "fallback"}
    BY <1>4 DEF Connect
  <2>3. events' \in Nat /\ calls' \in Nat
    BY <1>4 DEF Connect
  <2>3a. emitted' \in BOOLEAN /\ stalled' \in BOOLEAN
    BY <1>4, Zenon DEF Connect
  <2>4. attempt' \in 0..(TotalAttempts + 1) /\ pc' \in {"scan", "loop"}
    BY <1>4 DEF Connect
  <2>5. ShapeInv'
    BY <1>4 DEF Connect
  <2> QED
    BY <1>4, <2>1, <2>2, <2>3, <2>3a, <2>4, <2>5 DEF Connect
<1>5. CASE ScanEvent
  <2> DEFINE Good == /\ pend' \in Seq(Chunk) /\ calls' \in Nat
                     /\ lastErr' \in ErrorKind
                     /\ after' \in {"scan", "success", "ended", "failed"}
                     /\ \A i \in DOMAIN pend' : pend'[i].conn = attempt
                     /\ pend' = <<>> => after' # "emit"
  <2>1. ASSUME NEW usage \in Usages, NEW delta \in Deltas, NEW finish \in FinishReasons,
               calls' = calls + (IF "call" \in delta THEN 1 ELSE 0),
               pend' = EventChunks(usage, delta, finish, calls'),
               after' = AfterDelta(finish), UNCHANGED lastErr
        PROVE  Good
    <3>1. calls' \in Nat
      BY <2>1
    <3>2. /\ pend' \in Seq(Chunk)
          /\ \A i \in DOMAIN pend' : pend'[i].conn = attempt
      <4>1. attempt \in Nat /\ emitted \in BOOLEAN
        BY <1>0
      <4> HIDE DEF TypeOK, ShapeInv
      <4> QED
        BY <2>1, <3>1, <4>1, EventFacts
    <3> QED
      BY <2>1, <3>1, <3>2 DEF AfterDelta
  <2>2. ASSUME pend' = <<Plain("done")>>, after' = "ended", UNCHANGED <<calls, lastErr>>
        PROVE  Good
    BY <2>2, <1>0
  <2>3. ASSUME pend' = <<Failure>>, after' = "failed", lastErr' = "api", UNCHANGED calls
        PROVE  Good
    BY <2>3, <1>0
  <2>4. Good
    BY <1>5, <2>1, <2>2, <2>3 DEF ScanEvent
  <2>5. /\ pc = "scan" /\ pc' = (IF pend' = <<>> THEN after' ELSE "emit") /\ events' \in Nat
        /\ UNCHANGED <<attempt, emitted, stalled, model, tried, hooks, sent, rd, cancelled>>
    BY <1>5 DEF ScanEvent
  <2> QED
    BY <2>4, <2>5
<1>6. CASE ScanEnd
  BY <1>6, <1>0 DEF ScanEnd
<1>7. CASE EmitSent
  BY <1>7, <1>0 DEF EmitSent, Advance
<1>8. CASE EmitSkipped
  BY <1>8, <1>0 DEF EmitSkipped, Advance
<1>9. CASE EmitAborted
  BY <1>9, <1>0 DEF EmitAborted
<1>10. CASE ScanEnded
  BY <1>10, <1>0 DEF ScanEnded, SendChunk
<1>11. CASE ReadFailed
  <2>1. CASE /\ ~emitted /\ attempt' = attempt + 1 /\ pc' = "loop"
             /\ UNCHANGED <<lastErr, hooks, sent>>
    BY <1>11, <2>1 DEF ReadFailed
  <2>2. CASE SendChunk(Failure) /\ Close(lastErr, {}) /\ UNCHANGED attempt
    <3>1. sent' \in Seq(Chunk) /\ rd \in 0..Len(sent')
      BY <2>2, <1>0, SendChunkFacts
    <3> QED
      BY <1>11, <2>2, <3>1 DEF ReadFailed, Close
  <2>3. CASE Close(lastErr, {}) /\ UNCHANGED <<attempt, sent>>
    BY <1>11, <2>3 DEF ReadFailed, Close
  <2> QED
    BY <1>11, <2>1, <2>2, <2>3 DEF ReadFailed
<1>12. CASE Success
  BY <1>12, <1>0 DEF Success, Close
<1>13. CASE StallFires
  BY <1>13, <1>0 DEF StallFires
<1>14. CASE Receive
  BY <1>14, <1>0 DEF Receive, producer
<1>15. CASE CancelCtx
  BY <1>15, <1>0 DEF CancelCtx, producer
<1>16. CASE UNCHANGED vars
  BY <1>16 DEF vars, producer
<1> QED
  BY <1>1, <1>2, <1>3, <1>4, <1>5, <1>6, <1>7, <1>8, <1>9, <1>10, <1>11, <1>12, <1>13,
     <1>14, <1>15, <1>16
  DEF Next, Producer

(* Every step keeps what FailureReported rests on: out is still empty when  *)
(* an attempt has emitted nothing, so sendChunk has room for the error.     *)
LEMMA ReportStep ==
    TypeOK /\ TypeOK' /\ ShapeInv /\ ReportInv /\ [Next]_vars => ReportInv'
<1> SUFFICES ASSUME TypeOK, TypeOK', ShapeInv, ReportInv, [Next]_vars PROVE ReportInv'
  OBVIOUS
<1> USE StreamAssumption DEF ReportInv, FailureReported, Closed
<1>0. /\ Failure \in Chunk /\ Failure.t = "error"
      /\ Plain("error") \in Chunk /\ Plain("error").t = "error"
      /\ Plain("done").t = "done"
      /\ attempt \in Nat /\ emitted \in BOOLEAN
  <2>1. attempt \in Nat /\ emitted \in BOOLEAN
    BY DEF TypeOK, TotalAttempts
  <2> QED
    BY <2>1, ChunkTypes DEF Failure, Plain, ChunkType
<1>00. /\ Len(sent) \in Nat /\ Len(sent') \in Nat /\ rd \in Nat
       /\ Len(sent) = 0 <=> sent = <<>>
       /\ Len(sent') = 0 <=> sent' = <<>>
  BY DEF TypeOK
<1>01. ASSUME NEW c \in Chunk, SendChunk(c)
       PROVE  \/ sent' = sent /\ (cancelled \/ Len(sent) - rd >= OutCap)
              \/ sent'[Len(sent')] = c /\ Len(sent') = Len(sent) + 1
  BY <1>01, SendChunkFacts
<1>02. /\ SendChunk(Failure) => \/ sent' = sent /\ (cancelled \/ Len(sent) - rd >= OutCap)
                                \/ sent'[Len(sent')] = Failure /\ Len(sent') = Len(sent) + 1
       /\ SendChunk(Plain("error")) => \/ sent' = sent /\ (cancelled \/ Len(sent) - rd >= OutCap)
                                       \/ Len(sent') = Len(sent) + 1
  BY <1>0, <1>01
<1>1. CASE RateWait
  BY <1>1, <1>0, <1>00, <1>02 DEF ShapeInv, RateWait, Close
<1>2. CASE LoopHead
  BY <1>2, <1>0, <1>00, <1>02 DEF ShapeInv, LoopHead, Close, Exhausted, GiveUp
<1>3. CASE Backoff
  BY <1>3, <1>0, <1>00, <1>02 DEF ShapeInv, Backoff, Close
<1>4. CASE Connect
  BY <1>4, <1>0, <1>00, <1>02 DEF ShapeInv, Connect
<1>5. CASE ScanEvent
  <2>1. \A i \in DOMAIN pend' : pend'[i].t = "warn" => i > 1
    <3>1. ASSUME NEW usage \in Usages, NEW delta \in Deltas, NEW finish \in FinishReasons,
                 pend' = EventChunks(usage, delta, finish, calls')
          PROVE  \A i \in DOMAIN pend' : pend'[i].t = "warn" => i > 1
      <4>1. calls' \in Nat
        BY DEF TypeOK
      <4> QED
        BY <3>1, <4>1, <1>0, EventFacts
    <3>2. CASE pend' = <<Plain("done")>> \/ pend' = <<Failure>>
      BY <3>2, <1>0
    <3> QED
      BY <1>5, <3>1, <3>2 DEF ScanEvent
  <2>2. pc = "scan" /\ pc' # "closed" /\ UNCHANGED <<emitted, cancelled, sent>>
    BY <1>5 DEF ScanEvent, TypeOK
  <2>3. ~emitted /\ ~cancelled => sent = <<>>
    BY <2>2
  <2> QED
    BY <2>1, <2>2, <2>3, <1>00
<1>6. CASE ScanEnd
  BY <1>6, <1>0, <1>00, <1>02 DEF ShapeInv, ScanEnd
<1>7. CASE EmitSent
  <2>1. pend # <<>> /\ Head(pend) = pend[1] /\ pc' # "closed"
    BY <1>7 DEF ShapeInv, EmitSent, Advance, TypeOK
  <2>2. emitted' \/ cancelled'
    <3>1. 1 \in DOMAIN pend
      BY <2>1 DEF TypeOK
    <3>2. pend[1].t = "warn" => emitted \/ cancelled
      BY <3>1
    <3> QED
      BY <1>7, <2>1, <3>2, Zenon DEF EmitSent, Counts
  <2> QED
    BY <1>7, <2>1, <2>2 DEF EmitSent
<1>8. CASE EmitSkipped
  <2>1. pend # <<>> /\ Head(pend) = pend[1] /\ pc' # "closed" /\ 1 \in DOMAIN pend
    BY <1>8 DEF ShapeInv, EmitSkipped, Advance, TypeOK
  <2>2. emitted \/ cancelled
    BY <1>8, <2>1 DEF EmitSkipped
  <2> QED
    BY <1>8, <2>1, <2>2 DEF EmitSkipped
<1>9. CASE EmitAborted
  BY <1>9, <1>0, <1>00, <1>02 DEF ShapeInv, EmitAborted
<1>10. CASE ScanEnded
  <2>1. CASE stalled /\ SendChunk(Plain("error")) /\ pc' = "failed" /\ lastErr' = "stall"
    <3>1. ~emitted /\ ~cancelled => sent = <<>>
      BY <1>10 DEF ScanEnded
    <3>2. ~emitted /\ ~cancelled => sent' = <<>> \/ Len(sent') = 1
      BY <2>1, <3>1, <1>00, <1>02
    <3> QED
      BY <1>10, <2>1, <3>2 DEF ScanEnded
  <2>2. CASE pc' = "success" /\ UNCHANGED <<sent, lastErr>>
    BY <1>10, <2>2 DEF ScanEnded
  <2> QED
    BY <1>10, <2>1, <2>2 DEF ScanEnded
<1>11. CASE ReadFailed
  BY <1>11, <1>0, <1>00, <1>02 DEF ShapeInv, ReadFailed, Close
<1>12. CASE Success
  BY <1>12, <1>0, <1>00, <1>02 DEF ShapeInv, Success, Close
<1>13. CASE StallFires
  BY <1>13, <1>0, <1>00, <1>02 DEF ShapeInv, StallFires
<1>14. CASE Receive
  BY <1>14, <1>0, <1>00, <1>02 DEF ShapeInv, Receive, producer
<1>15. CASE CancelCtx
  BY <1>15, <1>0, <1>00, <1>02 DEF ShapeInv, CancelCtx, producer
<1>16. CASE UNCHANGED vars
  BY <1>16 DEF vars, producer
<1> QED
  BY <1>1, <1>2, <1>3, <1>4, <1>5, <1>6, <1>7, <1>8, <1>9, <1>10, <1>11, <1>12, <1>13,
     <1>14, <1>15, <1>16
  DEF Next, Producer

(* Every step keeps the order of out: content only from the connection that *)
(* set emitted, and a terminal chunk only once the scan is over.            *)
LEMMA OrderStep ==
    TypeOK /\ TypeOK' /\ ShapeInv /\ OrderInv /\ [Next]_vars => OrderInv'
<1> SUFFICES ASSUME TypeOK, TypeOK', ShapeInv, OrderInv, [Next]_vars PROVE OrderInv'
  OBVIOUS
<1> USE DEF OrderInv, OnlyErrorsAfterTerminal, Terminal
<1>0. /\ Failure \in Chunk /\ Failure.t = "error"
      /\ Plain("error") \in Chunk /\ Plain("error").t = "error"
      /\ attempt \in Nat /\ emitted \in BOOLEAN
  <2>1. attempt \in Nat /\ emitted \in BOOLEAN
    BY DEF TypeOK, TotalAttempts
  <2> QED
    BY <2>1, ChunkTypes DEF Failure, Plain, ChunkType
<1>00. /\ DOMAIN sent = 1..Len(sent) /\ DOMAIN sent' = 1..Len(sent')
       /\ Len(sent) \in Nat /\ Len(sent') \in Nat
  BY DEF TypeOK
<1>01. ASSUME NEW c \in Chunk, c.t = "error", SendChunk(c)
       PROVE  /\ \A i \in DOMAIN sent' : \/ i \in DOMAIN sent /\ sent'[i] = sent[i]
                                         \/ i = Len(sent) + 1 /\ sent'[i].t = "error"
              /\ OnlyErrorsAfterTerminal'
  <2>1. CASE sent' = sent
    BY <2>1
  <2>2. CASE /\ Len(sent') = Len(sent) + 1
             /\ \A i \in 1..Len(sent) : sent'[i] = sent[i]
             /\ sent'[Len(sent) + 1] = c
    <3>1. \A i \in DOMAIN sent' : \/ i \in DOMAIN sent /\ sent'[i] = sent[i]
                                  \/ i = Len(sent) + 1 /\ sent'[i].t = "error"
      BY <1>01, <2>2, <1>00
    <3> QED
      BY <3>1, <1>00
  <2> QED
    BY <1>01, <2>1, <2>2, SendChunkFacts
<1>02. ASSUME SendChunk(Failure) \/ SendChunk(Plain("error"))
       PROVE  /\ \A i \in DOMAIN sent' : \/ i \in DOMAIN sent /\ sent'[i] = sent[i]
                                         \/ i = Len(sent) + 1 /\ sent'[i].t = "error"
              /\ OnlyErrorsAfterTerminal'
  BY <1>0, <1>01, <1>02
<1> USE <1>0, <1>00
<1>1. CASE RateWait
  BY <1>1, <1>02 DEF ShapeInv, RateWait, Close
<1>2. CASE LoopHead
  BY <1>2, <1>02 DEF ShapeInv, LoopHead, Close, Exhausted, GiveUp
<1>3. CASE Backoff
  BY <1>3, <1>02 DEF ShapeInv, Backoff, Close
<1>4. CASE Connect
  BY <1>4, <1>02 DEF ShapeInv, Connect
<1>5. CASE ScanEvent
  <2> DEFINE Ok == \A i \in DOMAIN pend' : Terminal(pend'[i]) =>
                        /\ i = Len(pend')
                        /\ after' # "scan"
                        /\ after' = "failed" => lastErr' = "api"
  <2>1. ASSUME NEW usage \in Usages, NEW delta \in Deltas, NEW finish \in FinishReasons,
               pend' = EventChunks(usage, delta, finish, calls'), after' = AfterDelta(finish)
        PROVE  Ok
    <3>1. calls' \in Nat
      BY DEF TypeOK
    <3> QED
      BY <2>1, <3>1, EventFacts
  <2>2. ASSUME pend' = <<Plain("done")>>, after' = "ended" PROVE Ok
    BY <2>2
  <2>3. ASSUME pend' = <<Failure>>, after' = "failed", lastErr' = "api" PROVE Ok
    BY <2>3
  <2>4. Ok
    BY <1>5, <2>1, <2>2, <2>3 DEF ScanEvent
  <2>5. pc = "scan" /\ UNCHANGED <<attempt, emitted, sent>>
    BY <1>5 DEF ScanEvent
  <2> QED
    BY <2>4, <2>5
<1>6. CASE ScanEnd
  BY <1>6, <1>02 DEF ShapeInv, ScanEnd
<1>7. CASE EmitSent
  <2> DEFINE c == Head(pend)
  <2>1. /\ c = pend[1] /\ 1 \in DOMAIN pend /\ c \in Chunk /\ c.conn = attempt
        /\ Len(pend) \in Nat /\ Len(Tail(pend)) = Len(pend) - 1
        /\ \A i \in DOMAIN Tail(pend) : Tail(pend)[i] = pend[i + 1] /\ i + 1 \in DOMAIN pend
    BY <1>7 DEF EmitSent, ShapeInv, TypeOK
  <2>2. /\ Len(sent') = Len(sent) + 1 /\ sent'[Len(sent) + 1] = c
        /\ \A i \in 1..Len(sent) : sent'[i] = sent[i]
    BY <1>7, <2>1, AppendProperties DEF EmitSent, TypeOK
  <2>3. /\ pc = "emit" /\ emitted' = (emitted \/ c.t # "warn")
        /\ pend' = Tail(pend) /\ pc' = (IF Tail(pend) = <<>> THEN after ELSE "emit")
        /\ UNCHANGED <<attempt, lastErr, after>>
    BY <1>7 DEF EmitSent, Advance, Counts
  <2>4. \A i \in 1..Len(sent) : ~Terminal(sent[i])
    <3>1. \A i \in DOMAIN sent : Terminal(sent[i]) => pc # "emit"
      BY DEF TypeOK
    <3> QED
      BY <2>3, <3>1
  <2> HIDE DEF c
  <2>5. \A i \in DOMAIN sent' : sent'[i].t \notin {"warn", "error"} => emitted' /\ sent'[i].conn = attempt'
    <3>1. (emitted => emitted') /\ (c.t # "warn" => emitted') /\ attempt' = attempt
      BY <2>3
    <3>2. ASSUME NEW i \in 1..Len(sent), sent'[i].t \notin {"warn", "error"}
          PROVE  emitted /\ sent'[i].conn = attempt
      BY <3>2, <2>2
    <3>3. \A i \in DOMAIN sent' : i \in 1..Len(sent) \/ i = Len(sent) + 1
      BY <2>2
    <3> QED
      BY <3>1, <3>2, <3>3, <2>1, <2>2
  <2>6. Terminal(c) => pc' \in {"ended", "success", "failed"} /\ (pc' = "failed" => lastErr' # "reset")
    <3>1. Terminal(c) => Len(pend) = 1 /\ after # "scan" /\ (after = "failed" => lastErr = "api")
      BY <2>1
    <3>2. Len(pend) = 1 => Tail(pend) = <<>>
      BY <2>1 DEF TypeOK
    <3> QED
      BY <3>1, <3>2, <2>3 DEF TypeOK
  <2>7. \A i \in DOMAIN sent' : Terminal(sent'[i]) =>
            /\ pc' \in {"ended", "success", "failed", "closed"}
            /\ pc' = "failed" => lastErr' # "reset"
    BY <2>2, <2>4, <2>6
  <2>8. OnlyErrorsAfterTerminal'
    BY <2>2, <2>4
  <2>9. \A i \in DOMAIN pend' : Terminal(pend'[i]) =>
            /\ i = Len(pend')
            /\ after' # "scan"
            /\ after' = "failed" => lastErr' = "api"
    BY <2>1, <2>3 DEF TypeOK
  <2> QED
    BY <2>5, <2>7, <2>8, <2>9
<1>8. CASE EmitSkipped
  <2>1. /\ Len(pend) \in Nat /\ Len(Tail(pend)) = Len(pend) - 1
        /\ \A i \in DOMAIN Tail(pend) : Tail(pend)[i] = pend[i + 1] /\ i + 1 \in DOMAIN pend
    BY <1>8 DEF EmitSkipped, ShapeInv, TypeOK
  <2>2. /\ pc = "emit" /\ pend' = Tail(pend)
        /\ UNCHANGED <<attempt, emitted, lastErr, after, sent>>
    BY <1>8 DEF EmitSkipped, Advance
  <2>3. \A i \in DOMAIN pend' : Terminal(pend'[i]) =>
            /\ i = Len(pend')
            /\ after' # "scan"
            /\ after' = "failed" => lastErr' = "api"
    BY <2>1, <2>2 DEF TypeOK
  <2> QED
    BY <2>2, <2>3
<1>9. CASE EmitAborted
  BY <1>9, <1>02 DEF ShapeInv, EmitAborted
<1>10. CASE ScanEnded
  BY <1>10, <1>02 DEF ShapeInv, ScanEnded
<1>11. CASE ReadFailed
  BY <1>11, <1>02 DEF ShapeInv, ReadFailed, Close
<1>12. CASE Success
  BY <1>12, <1>02 DEF ShapeInv, Success, Close
<1>13. CASE StallFires
  BY <1>13, <1>02 DEF ShapeInv, StallFires
<1>14. CASE Receive
  BY <1>14, <1>02 DEF ShapeInv, Receive, producer
<1>15. CASE CancelCtx
  BY <1>15, <1>02 DEF ShapeInv, CancelCtx, producer
<1>16. CASE UNCHANGED vars
  BY <1>16 DEF vars, producer
<1> QED
  BY <1>1, <1>2, <1>3, <1>4, <1>5, <1>6, <1>7, <1>8, <1>9, <1>10, <1>11, <1>12, <1>13,
     <1>14, <1>15, <1>16
  DEF Next, Producer

-----------------------------------------------------------------------------
(* The loop starts in shape.                                               *)
LEMMA StreamInit == Init => TypeOK /\ ShapeInv
<1> SUFFICES ASSUME Init PROVE TypeOK /\ ShapeInv
  OBVIOUS
<1>1. model \in {"primary", "fallback"}
  BY DEF Init
<1>2. ShapeInv
  BY StreamAssumption DEF Init, ShapeInv
<1>3. 0 \in 0..(TotalAttempts + 1)
  BY StreamAssumption DEF TotalAttempts
<1>4. TypeOK
  <2>1. sent \in Seq(Chunk) /\ pend \in Seq(Chunk) /\ rd \in 0..Len(sent)
    BY DEF Init
  <2>2. emitted \in BOOLEAN /\ cancelled \in BOOLEAN /\ stalled \in BOOLEAN
    BY DEF Init
  <2> QED
    BY <1>1, <1>3, <2>1, <2>2 DEF Init, TypeOK, ErrorKind
<1> QED
  BY <1>2, <1>4

(* All variables of the stream goroutine keep their types and attempt its  *)
(* bound, whatever the provider, the reader and the stall guard do.        *)
THEOREM StreamTypeOK == Spec => []TypeOK
BY StreamInit, ShapeStep, PTL DEF Spec

(* The loop and its connection keep their shape.                           *)
LEMMA StreamShape == Spec => []ShapeInv
BY StreamInit, ShapeStep, PTL DEF Spec

(* A request that fails before it emitted anything reports its error.      *)
THEOREM StreamFailureReported == Spec => []FailureReported
<1>1. Init => ReportInv
  BY DEF Init, ReportInv, FailureReported, Closed
<1>2. ReportInv => FailureReported
  BY DEF ReportInv
<1> QED
  BY <1>1, <1>2, ReportStep, StreamTypeOK, StreamShape, PTL DEF Spec

(* The order of out, inductively.                                          *)
LEMMA StreamOrder == Spec => []OrderInv
<1>1. Init => OrderInv
  BY DEF Init, OrderInv, OnlyErrorsAfterTerminal
<1> QED
  BY <1>1, OrderStep, StreamTypeOK, StreamShape, PTL DEF Spec

(* What the reader sees of the answer comes from one connection.           *)
THEOREM StreamFromOneConnection == Spec => []FromOneConnection
<1>1. OrderInv => FromOneConnection
  BY DEF OrderInv, FromOneConnection
<1> QED
  BY <1>1, StreamOrder, PTL

(* Only errors follow a terminal chunk.                                    *)
THEOREM StreamOnlyErrorsAfterTerminal == Spec => []OnlyErrorsAfterTerminal
<1>1. OrderInv => OnlyErrorsAfterTerminal
  BY DEF OrderInv
<1> QED
  BY <1>1, StreamOrder, PTL

-----------------------------------------------------------------------------
(* Every step of the stream goroutine, of its reader and of the stall guard *)
(* is a step of the channel ChunkStream describes, or invisible to it.  The *)
(* order invariant tells that a chunk may still be put, TypeOK its type.    *)
LEMMA PromiseStep ==
    TypeOK /\ ShapeInv /\ OrderInv /\ [Next]_vars => [Promise!Next]_(Promise!vars)
<1> SUFFICES ASSUME TypeOK, ShapeInv, OrderInv, [Next]_vars
             PROVE  [Promise!Next]_(Promise!vars)
  OBVIOUS
<1> DEFINE PutChunk == [t : ChunkType, conn : 0..(TotalAttempts + 1), interrupted : BOOLEAN]
           Step == [Promise!Next]_(Promise!vars)
<1>0. /\ Failure \in PutChunk /\ Failure.t = "error"
      /\ Plain("error") \in PutChunk /\ Plain("error").t = "error"
  <2>1. attempt \in 0..(TotalAttempts + 1) /\ emitted \in BOOLEAN
    BY DEF TypeOK
  <2> QED
    BY <2>1 DEF Failure, Plain, ChunkType
<1>1. ASSUME UNCHANGED <<sent, rd>>, Closed' = Closed PROVE Step
  BY <1>1 DEF Promise!vars
<1>2. ASSUME UNCHANGED <<sent, rd>>, ~Closed, Closed' PROVE Step
  BY <1>2 DEF Promise!Next, Promise!Close, Closed
<1>3. ASSUME NEW c \in PutChunk, Room, sent' = Append(sent, c), rd' = rd, ~Closed,
             c.t = "error" \/ Promise!PutAnswer(c)
      PROVE  Step
  <2>1. sent' # sent
    BY <1>3, AppendProperties, LenProperties DEF TypeOK, Chunk
  <2>2. Promise!Put(c)
    BY <1>3 DEF Promise!Put, Promise!PutError, Room, Closed
  <2> QED
    BY <2>1, <2>2 DEF Promise!Next
<1>4. ASSUME NEW c \in PutChunk, c.t = "error", SendChunk(c), rd' = rd, ~Closed PROVE Step
  <2>1. CASE Room /\ sent' = Append(sent, c)
    BY <1>3, <1>4, <2>1
  <2>2. CASE sent' = sent
    BY <1>1, <1>2, <1>4, <2>2 DEF Closed
  <2> QED
    BY <1>4, <2>1, <2>2 DEF SendChunk
<1>5. CASE RateWait
  BY <1>0, <1>1, <1>4, <1>5 DEF RateWait, Closed
<1>6. CASE LoopHead
  BY <1>0, <1>1, <1>4, <1>6 DEF LoopHead, Closed
<1>7. CASE Backoff
  BY <1>1, <1>2, <1>7 DEF Backoff, Close, Closed
<1>8. CASE Connect
  BY <1>1, <1>8 DEF Connect, Closed
<1>9. CASE ScanEvent
  <2>1. pc = "scan" /\ pc' \in {"emit", after'} /\ UNCHANGED <<sent, rd>>
    BY <1>9 DEF ScanEvent
  <2>2. after' # "closed"
    BY <1>9 DEF ScanEvent, AfterDelta
  <2> QED
    BY <1>1, <2>1, <2>2 DEF Closed
<1>10. CASE ScanEnd
  BY <1>1, <1>10 DEF ScanEnd, Closed
<1>11. CASE EmitSent
  <2> DEFINE c == Head(pend)
  <2>1. c = pend[1] /\ 1 \in DOMAIN pend /\ c \in Chunk /\ c.conn = attempt
    BY <1>11 DEF EmitSent, ShapeInv, TypeOK
  <2>2. c \in PutChunk
    BY <2>1 DEF Chunk, TypeOK
  <2>3. /\ pc = "emit" /\ Room /\ sent' = Append(sent, c) /\ rd' = rd
    BY <1>11 DEF EmitSent
  <2>4. c.t = "error" \/ Promise!PutAnswer(c)
    BY <2>1, <2>3 DEF OrderInv, Terminal, Promise!PutAnswer, Promise!Ends, Promise!Answer
  <2> QED
    BY <1>3, <2>2, <2>3, <2>4 DEF Closed
<1>12. CASE EmitSkipped \/ EmitAborted
  <2>1. pc = "emit" /\ pc' \in {"emit", "failed", after} /\ UNCHANGED <<sent, rd>>
    BY <1>12 DEF EmitSkipped, EmitAborted, Advance
  <2> QED
    BY <1>1, <2>1 DEF Closed, TypeOK
<1>13. CASE ScanEnded
  BY <1>0, <1>1, <1>4, <1>13 DEF ScanEnded, Closed
<1>14. CASE ReadFailed
  BY <1>0, <1>1, <1>2, <1>4, <1>14 DEF ReadFailed, Close, Closed
<1>15. CASE Success
  BY <1>2, <1>15 DEF Success, Close, Closed
<1>16. CASE StallFires \/ CancelCtx
  BY <1>1, <1>16 DEF StallFires, CancelCtx, producer, Closed
<1>17. CASE Receive
  BY <1>17 DEF Receive, producer, Promise!Next, Promise!Take, Closed
<1>18. CASE UNCHANGED vars
  BY <1>1, <1>18 DEF vars, producer, Closed
<1> QED
  BY <1>5, <1>6, <1>7, <1>8, <1>9, <1>10, <1>11, <1>12, <1>13, <1>14, <1>15, <1>16,
     <1>17, <1>18 DEF Next, Producer

(* The reader of out gets what ChunkStream promises: OpenAI.Stream           *)
(* implements it, for every capacity, number of attempts and of events.      *)
THEOREM StreamKeepsPromise == Spec => KeepsPromise
<1>1. Init => Promise!Init
  BY DEF Init, Promise!Init, Closed
<1> QED
  BY <1>1, PromiseStep, StreamTypeOK, StreamShape, StreamOrder, PTL
  DEF Spec, KeepsPromise, Promise!Spec

-----------------------------------------------------------------------------
(* The bridge *)

\* The pieces of content among the first n chunks of s.
ContentIn(s, n) == {j \in 1..n : s[j].t \in Content}

StreamInv == TypeOK /\ ShapeInv /\ OrderInv

Entry == [kind : {"message", "notice", "recovered", "error"}, size : Nat]

\* What the bridge has sent the agent, and when.
PipeInv ==
    /\ bridge \in {"recv", "recover", "done"} /\ gathered \in Nat /\ pipe \in Seq(Entry)
    /\ bridge = "recv" => pipe = <<>>
    /\ bridge = "recover" => Len(pipe) = 1 /\ pipe[1].kind = "notice"
    /\ AnsweredOnce

\* While it receives, the bridge has gathered the content of what it received,
\* and no end of the stream was among that; a message is sent at the end of the
\* stream, and is whole.
GatherInv ==
    /\ bridge = "recv" =>
        /\ gathered = Cardinality(ContentIn(sent, rd))
        /\ \A j \in 1..rd : ~Terminal(sent[j])
    /\ (\E i \in DOMAIN pipe : pipe[i].kind = "message") =>
        Closed \/ \E j \in DOMAIN sent : Terminal(sent[j])
    /\ MessageIsWhole

-----------------------------------------------------------------------------
(* Each step of the two goroutines is a step of the stream, or leaves it    *)
(* alone: the bridge is one possible reader of out.                         *)
LEMMA BridgeIsReader == [BridgeNext]_allVars => [Next]_vars
<1> SUFFICES ASSUME [BridgeNext]_allVars PROVE [Next]_vars
  OBVIOUS
<1>1. ASSUME BridgeReceive PROVE Next
  BY <1>1 DEF BridgeReceive, Next
<1>2. ASSUME BridgeClosed \/ BridgeCancelled \/ BridgeRecovers PROVE UNCHANGED vars
  BY <1>2 DEF BridgeClosed, BridgeCancelled, BridgeRecovers
<1>3. ASSUME Producer \/ StallFires \/ CancelCtx PROVE Next
  BY <1>3 DEF Next
<1>4. ASSUME UNCHANGED allVars PROVE UNCHANGED vars
  BY <1>4 DEF allVars
<1> QED
  BY <1>1, <1>2, <1>3, <1>4 DEF BridgeNext, Bridge

(* The stream goroutine under the bridge behaves as OpenAIStream says.      *)
THEOREM BridgeReadsStream == BridgeSpec => Spec
<1>1. BridgeInit => Init
  BY DEF BridgeInit
<1> QED
  BY <1>1, BridgeIsReader, PTL DEF BridgeSpec, Spec

(* So its invariants hold here too.                                         *)
LEMMA BridgeStreamInv == BridgeSpec => []StreamInv
<1>1. TypeOK /\ ShapeInv /\ OrderInv => StreamInv
  BY DEF StreamInv
<1> QED
  BY <1>1, BridgeReadsStream, StreamTypeOK, StreamShape, StreamOrder, PTL

(* And the reader the bridge is gets what the channel promises.             *)
THEOREM BridgeKeepsPromise == BridgeSpec => KeepsPromise
BY BridgeReadsStream, StreamKeepsPromise, PTL

(* Sending to the pipe appends one entry of the given kind.                 *)
LEMMA SendFacts ==
  ASSUME pipe \in Seq(Entry), gathered \in Nat,
         NEW kind \in {"message", "notice", "recovered", "error"}, Send(kind)
  PROVE  /\ pipe' \in Seq(Entry)
         /\ Len(pipe') = Len(pipe) + 1 /\ DOMAIN pipe' = 1..(Len(pipe) + 1)
         /\ \A i \in 1..Len(pipe) : pipe'[i] = pipe[i]
         /\ pipe'[Len(pipe) + 1].kind = kind /\ pipe'[Len(pipe) + 1].size = gathered
<1> DEFINE e == [kind |-> kind, size |-> gathered]
<1>1. e \in Entry /\ e.kind = kind /\ e.size = gathered
  BY DEF Entry
<1>2. pipe' = Append(pipe, e)
  BY DEF Send
<1> HIDE DEF e
<1> QED
  BY <1>1, <1>2

(* The bridge sends one answer, or a notice and then the recovered message. *)
LEMMA PipeStep == PipeInv /\ [BridgeNext]_allVars => PipeInv'
<1> SUFFICES ASSUME PipeInv, [BridgeNext]_allVars PROVE PipeInv'
  OBVIOUS
<1>0. /\ gathered \in Nat /\ pipe \in Seq(Entry)
      /\ bridge = "recv" => pipe = <<>>
      /\ bridge = "recover" => Len(pipe) = 1 /\ pipe[1].kind = "notice"
  BY DEF PipeInv
<1>1. ASSUME bridge = "recv", NEW kind \in {"message", "error"}, Send(kind),
             bridge' = "done", gathered' = gathered
      PROVE  PipeInv'
  BY <1>0, <1>1, SendFacts DEF PipeInv, AnsweredOnce
<1>2. ASSUME bridge = "recv", Send("notice"), bridge' = "recover", gathered' = gathered
      PROVE  PipeInv'
  BY <1>0, <1>2, SendFacts DEF PipeInv, AnsweredOnce
<1>3. ASSUME bridge = "recv", bridge' = "recv", gathered' \in Nat, pipe' = pipe
      PROVE  PipeInv'
  BY <1>0, <1>3 DEF PipeInv, AnsweredOnce
<1>4. ASSUME BridgeReceive PROVE PipeInv'
  <2> DEFINE c == sent[rd + 1]
  <2>0. bridge = "recv" /\ (\/ ReceiveContent(c) \/ ReceiveIgnored(c) \/ ReceiveDone(c)
                            \/ ReceiveInterruption(c) \/ ReceiveError(c))
    BY <1>4 DEF BridgeReceive
  <2> HIDE DEF c
  <2>1. ASSUME ReceiveContent(c) \/ ReceiveIgnored(c) PROVE PipeInv'
    BY <1>0, <1>3, <2>0, <2>1 DEF ReceiveContent, ReceiveIgnored, bridgeVars
  <2>2. ASSUME ReceiveDone(c) \/ ReceiveError(c) PROVE PipeInv'
    BY <1>1, <2>0, <2>2 DEF ReceiveDone, ReceiveError
  <2>3. ASSUME ReceiveInterruption(c) PROVE PipeInv'
    BY <1>2, <2>0, <2>3 DEF ReceiveInterruption
  <2> QED
    BY <2>0, <2>1, <2>2, <2>3
<1>5. ASSUME BridgeClosed PROVE PipeInv'
  BY <1>1, <1>5 DEF BridgeClosed
<1>6. ASSUME BridgeCancelled PROVE PipeInv'
  BY <1>0, <1>6 DEF BridgeCancelled, PipeInv, AnsweredOnce, vars
<1>7. ASSUME BridgeRecovers PROVE PipeInv'
  <2>1. bridge = "recover" /\ bridge' = "done" /\ gathered' = gathered
    BY <1>7 DEF BridgeRecovers
  <2>2. CASE Send("recovered")
    <3>0. /\ pipe' \in Seq(Entry) /\ Len(pipe') = Len(pipe) + 1
          /\ \A i \in 1..Len(pipe) : pipe'[i] = pipe[i]
          /\ pipe'[Len(pipe) + 1].kind = "recovered"
      BY <1>0, <2>2, SendFacts
    <3>1. /\ pipe' \in Seq(Entry) /\ Len(pipe') = 2
          /\ pipe'[1].kind = "notice" /\ pipe'[2].kind = "recovered"
      <4>0. Len(pipe) = 1
        BY <1>0, <2>1, Zenon
      <4>1. Len(pipe) + 1 = 2 /\ 1 \in 1..Len(pipe)
        BY <4>0
      <4> QED
        BY <1>0, <2>1, <3>0, <4>1
    <3> QED
      BY <1>0, <2>1, <3>1 DEF PipeInv, AnsweredOnce
  <2>3. CASE pipe' = pipe
    BY <1>0, <2>1, <2>3 DEF PipeInv, AnsweredOnce
  <2> QED
    BY <1>7, <2>2, <2>3 DEF BridgeRecovers
<1>8. ASSUME UNCHANGED bridgeVars, cancelled => cancelled' PROVE PipeInv'
  BY <1>8 DEF PipeInv, AnsweredOnce, bridgeVars
<1>9. ASSUME Producer \/ StallFires \/ CancelCtx \/ UNCHANGED vars PROVE cancelled => cancelled'
  BY <1>9 DEF Producer, RateWait, LoopHead, Backoff, Connect, ScanEvent, ScanEnd, EmitSent,
     EmitSkipped, EmitAborted, ScanEnded, ReadFailed, Success, StallFires, CancelCtx, vars
<1> QED
  BY <1>4, <1>5, <1>6, <1>7, <1>8, <1>9 DEF BridgeNext, Bridge, allVars

(* What a step of the stream can do to the chunks put on out: append one,   *)
(* unless out is closed, and only an error once a terminal one is there.    *)
LEMMA PutFacts ==
  ASSUME StreamInv, StreamInv', [Next]_vars
  PROVE  /\ Closed => Closed' /\ sent' = sent
         /\ \/ sent' = sent
            \/ \E c \in Chunk : /\ sent' = Append(sent, c)
                               /\ ((\E j \in DOMAIN sent : Terminal(sent[j])) => c.t = "error")
<1> DEFINE PutChunk == [t : ChunkType, conn : 0..(TotalAttempts + 1), interrupted : BOOLEAN]
<1>1. [Promise!Next]_(Promise!vars)
  BY PromiseStep DEF StreamInv
<1>2. ASSUME Promise!Take \/ Promise!Close \/ UNCHANGED Promise!vars
      PROVE  sent' = sent /\ (Closed => Closed')
  BY <1>2 DEF Promise!Take, Promise!Close, Promise!vars
<1>3. ASSUME NEW c \in PutChunk, Promise!Put(c)
      PROVE  /\ ~Closed /\ c \in Chunk /\ sent' = Append(sent, c)
             /\ ((\E j \in DOMAIN sent : Terminal(sent[j])) => c.t = "error")
  <2>1. c \in Chunk
    BY StreamAssumption DEF Chunk, TotalAttempts
  <2> QED
    BY <1>3, <2>1 DEF Promise!Put, Promise!PutAnswer, Promise!PutError, Promise!Ends,
       Terminal
<1> QED
  BY <1>1, <1>2, <1>3 DEF Promise!Next

(* The content among the first n chunks is a finite set, one larger with    *)
(* the next chunk if that is content, and unchanged by what is appended.    *)
LEMMA ContentFacts ==
  ASSUME NEW s \in Seq(Chunk), NEW n \in 0..Len(s)
  PROVE  /\ IsFiniteSet(ContentIn(s, n))
         /\ n < Len(s) => ContentIn(s, n + 1) =
              ContentIn(s, n) \cup (IF s[n + 1].t \in Content THEN {n + 1} ELSE {})
         /\ \A c \in Chunk : ContentIn(Append(s, c), n) = ContentIn(s, n)
<1>1. n \in Nat /\ Len(s) \in Nat
  OBVIOUS
<1>2. IsFiniteSet(ContentIn(s, n))
  <2>1. IsFiniteSet(1..n)
    BY <1>1, FS_Interval
  <2> QED
    BY <2>1, FS_Subset DEF ContentIn
<1>3. 1..(n + 1) = (1..n) \cup {n + 1} /\ n + 1 \notin 1..n
  BY <1>1
<1>4. ASSUME NEW c \in Chunk PROVE ContentIn(Append(s, c), n) = ContentIn(s, n)
  <2>1. \A j \in 1..n : Append(s, c)[j] = s[j]
    BY <1>1
  <2> QED
    BY <2>1 DEF ContentIn
<1> QED
  BY <1>2, <1>3, <1>4 DEF ContentIn

(* After a terminal chunk there is no content.                              *)
LEMMA NoContentAfter ==
  ASSUME TypeOK, OnlyErrorsAfterTerminal, NEW n \in 1..Len(sent), Terminal(sent[n])
  PROVE  ContentIn(sent, Len(sent)) = ContentIn(sent, n - 1)
<1>1. Len(sent) \in Nat /\ DOMAIN sent = 1..Len(sent)
  BY DEF TypeOK
<1>2. ASSUME NEW j \in 1..Len(sent), j \notin 1..(n - 1) PROVE sent[j].t \notin Content
  <2>1. j = n \/ n < j
    BY <1>2
  <2> QED
    BY <1>1, <1>2, <2>1 DEF OnlyErrorsAfterTerminal, Terminal, Content
<1>3. 1..(n - 1) \subseteq 1..Len(sent)
  BY <1>1
<1> QED
  BY <1>2, <1>3 DEF ContentIn

(* The agent gets one answer, and none only if its context is done.         *)
THEOREM BridgeAnsweredOnce == BridgeSpec => []AnsweredOnce
<1>1. BridgeInit => PipeInv
  BY DEF BridgeInit, PipeInv, AnsweredOnce
<1>2. PipeInv => AnsweredOnce
  BY DEF PipeInv
<1> QED
  BY <1>1, <1>2, PipeStep, PTL DEF BridgeSpec

-----------------------------------------------------------------------------
(* MessageIsWhole in terms of ContentIn.                                    *)
LEMMA WholeFacts ==
  ASSUME TypeOK
  PROVE  MessageIsWhole <=> \A i \in DOMAIN pipe : pipe[i].kind = "message" =>
                                pipe[i].size = Cardinality(ContentIn(sent, Len(sent)))
<1>1. {j \in DOMAIN sent : sent[j].t \in Content} = ContentIn(sent, Len(sent))
  BY DEF TypeOK, ContentIn
<1> QED
  BY <1>1 DEF MessageIsWhole

(* A step of the stream that is none of the bridge's leaves what the bridge *)
(* has gathered, and the messages it sent, as they should be.               *)
LEMMA GatherKept ==
  ASSUME StreamInv, StreamInv', GatherInv, [Next]_vars, UNCHANGED <<bridgeVars, rd>>
  PROVE  GatherInv'
<1>1. /\ TypeOK /\ TypeOK' /\ sent \in Seq(Chunk) /\ rd \in 0..Len(sent) /\ rd' = rd
      /\ UNCHANGED <<bridge, gathered, pipe>>
  BY DEF StreamInv, TypeOK, bridgeVars
<1>2. CASE sent' = sent
  BY <1>1, <1>2, PutFacts DEF GatherInv, MessageIsWhole, ContentIn
<1>3. ASSUME NEW c \in Chunk, sent' = Append(sent, c),
             (\E j \in DOMAIN sent : Terminal(sent[j])) => c.t = "error"
      PROVE  GatherInv'
  <2>1. /\ Len(sent) \in Nat /\ Len(sent') = Len(sent) + 1 /\ sent' # sent
        /\ DOMAIN sent = 1..Len(sent) /\ DOMAIN sent' = 1..(Len(sent) + 1)
        /\ \A j \in 1..Len(sent) : sent'[j] = sent[j]
        /\ sent'[Len(sent) + 1] = c /\ sent' \in Seq(Chunk)
    BY <1>1, <1>3
  <2>2. ~Closed
    BY <2>1, PutFacts
  <2>3. ASSUME bridge' = "recv"
        PROVE  /\ gathered' = Cardinality(ContentIn(sent', rd'))
               /\ \A j \in 1..rd' : ~Terminal(sent'[j])
    <3>1. ContentIn(sent', rd) = ContentIn(sent, rd)
      BY <1>1, <1>3, ContentFacts
    <3>2. \A j \in 1..rd : sent'[j] = sent[j]
      BY <1>1, <2>1
    <3> QED
      BY <1>1, <2>3, <3>1, <3>2 DEF GatherInv
  <2>4. ASSUME NEW i \in DOMAIN pipe', pipe'[i].kind = "message"
        PROVE  /\ \E j \in DOMAIN sent' : Terminal(sent'[j])
               /\ pipe'[i].size = Cardinality(ContentIn(sent', Len(sent')))
    <3>1. PICK j \in 1..Len(sent) : Terminal(sent[j])
      BY <1>1, <2>1, <2>2, <2>4 DEF GatherInv
    <3>2. j \in DOMAIN sent' /\ Terminal(sent'[j])
      BY <2>1, <3>1
    <3>3. c.t = "error"
      BY <1>3, <2>1, <3>1
    <3>4. ContentIn(sent', Len(sent) + 1) = ContentIn(sent', Len(sent))
      <4>1. Len(sent) \in 0..Len(sent') /\ Len(sent) < Len(sent') /\ sent'[Len(sent) + 1].t \notin Content
        BY <2>1, <3>3 DEF Content
      <4>2. ContentIn(sent', Len(sent) + 1) = ContentIn(sent', Len(sent))
              \cup (IF sent'[Len(sent) + 1].t \in Content THEN {Len(sent) + 1} ELSE {})
        BY <2>1, <4>1, ContentFacts
      <4> QED
        BY <4>1, <4>2
    <3>5. ContentIn(sent', Len(sent)) = ContentIn(sent, Len(sent))
      <4>1. Len(sent) \in 0..Len(sent)
        BY <2>1
      <4> QED
        BY <1>1, <1>3, <4>1, ContentFacts
    <3>6. pipe[i].size = Cardinality(ContentIn(sent, Len(sent)))
      BY <1>1, <2>4, WholeFacts DEF GatherInv
    <3> QED
      BY <1>1, <2>1, <3>2, <3>4, <3>5, <3>6
  <2>5. MessageIsWhole'
    <3>1. {j \in DOMAIN sent' : sent'[j].t \in Content} = ContentIn(sent', Len(sent'))
      BY <2>1 DEF ContentIn
    <3> QED
      BY <2>4, <3>1 DEF MessageIsWhole
  <2> QED
    BY <2>3, <2>4, <2>5 DEF GatherInv
<1>4. ASSUME sent' # sent PROVE GatherInv'
  <2>1. PICK c \in Chunk : /\ sent' = Append(sent, c)
                           /\ ((\E j \in DOMAIN sent : Terminal(sent[j])) => c.t = "error")
    BY <1>4, PutFacts
  <2> QED
    BY <1>3, <2>1, Zenon
<1> QED
  BY <1>2, <1>4

(* Receiving keeps the count, and the message sent at the end has it.       *)
LEMMA GatherStep ==
  ASSUME StreamInv, StreamInv', PipeInv, GatherInv, [BridgeNext]_allVars
  PROVE  GatherInv'
<1>0. /\ TypeOK /\ sent \in Seq(Chunk) /\ rd \in 0..Len(sent) /\ OnlyErrorsAfterTerminal
      /\ DOMAIN sent = 1..Len(sent) /\ Len(sent) \in Nat
      /\ gathered \in Nat /\ pipe \in Seq(Entry) /\ (bridge = "recv" => pipe = <<>>)
  BY DEF StreamInv, TypeOK, OrderInv, PipeInv
<1>1. ASSUME bridge = "recv", NEW kind \in {"notice", "error"}, Send(kind), bridge' # "recv"
      PROVE  GatherInv'
  <2>1. DOMAIN pipe' = {1} /\ pipe'[1].kind = kind
    BY <1>0, <1>1, SendFacts
  <2> QED
    BY <1>1, <2>1 DEF GatherInv, MessageIsWhole
<1>2. ASSUME bridge = "recv", Send("message"), bridge' # "recv", sent' = sent,
             gathered = Cardinality(ContentIn(sent, Len(sent))),
             Closed' \/ \E j \in DOMAIN sent : Terminal(sent[j])
      PROVE  GatherInv'
  <2>1. DOMAIN pipe' = {1} /\ pipe'[1].size = gathered
    BY <1>0, <1>2, SendFacts
  <2>2. {j \in DOMAIN sent' : sent'[j].t \in Content} = ContentIn(sent, Len(sent))
    BY <1>0, <1>2 DEF ContentIn
  <2> QED
    BY <1>2, <2>1, <2>2 DEF GatherInv, MessageIsWhole
<1>3. ASSUME BridgeReceive PROVE GatherInv'
  <2> DEFINE c == sent[rd + 1]
  <2>1. /\ bridge = "recv" /\ rd < Len(sent) /\ rd' = rd + 1 /\ UNCHANGED <<sent, pc>>
        /\ \/ ReceiveContent(c) \/ ReceiveIgnored(c) \/ ReceiveDone(c)
           \/ ReceiveInterruption(c) \/ ReceiveError(c)
    BY <1>3 DEF BridgeReceive, Receive, producer
  <2>2. /\ gathered = Cardinality(ContentIn(sent, rd)) /\ \A j \in 1..rd : ~Terminal(sent[j])
    BY <2>1 DEF GatherInv
  <2>3. /\ rd \in Nat /\ rd + 1 \in 1..Len(sent)
        /\ \A j \in 1..(rd + 1) : j \in 1..rd \/ j = rd + 1
        /\ rd + 1 \notin ContentIn(sent, rd)
    BY <1>0, <2>1 DEF ContentIn
  <2>4. /\ IsFiniteSet(ContentIn(sent, rd))
        /\ ContentIn(sent, rd + 1) = ContentIn(sent, rd) \cup (IF c.t \in Content THEN {rd + 1} ELSE {})
    BY <1>0, <2>1, ContentFacts
  <2> HIDE DEF c
  <2>5. ASSUME ReceiveContent(c) PROVE GatherInv'
    <3>1. c.t \in Content /\ gathered' = gathered + 1 /\ UNCHANGED <<bridge, pipe>>
      BY <2>5 DEF ReceiveContent
    <3>2. Cardinality(ContentIn(sent, rd + 1)) = gathered + 1
      BY <2>2, <2>3, <2>4, <3>1, FS_AddElement
    <3>3. ~Terminal(c)
      BY <3>1 DEF Terminal, Content
    <3>4. \A j \in 1..(rd + 1) : ~Terminal(sent[j])
      BY <2>2, <2>3, <3>3 DEF c
    <3> QED
      BY <1>0, <2>1, <3>1, <3>2, <3>4 DEF GatherInv, MessageIsWhole
  <2>6. ASSUME ReceiveIgnored(c) PROVE GatherInv'
    <3>1. c.t \notin Content /\ UNCHANGED <<bridge, gathered, pipe>> /\ ~Terminal(c)
      BY <2>6 DEF ReceiveIgnored, Content, Terminal, bridgeVars
    <3>2. Cardinality(ContentIn(sent, rd + 1)) = gathered
      BY <2>2, <2>4, <3>1
    <3>3. \A j \in 1..(rd + 1) : ~Terminal(sent[j])
      BY <2>2, <2>3, <3>1 DEF c
    <3> QED
      BY <1>0, <2>1, <3>1, <3>2, <3>3 DEF GatherInv, MessageIsWhole
  <2>7. ASSUME ReceiveDone(c) PROVE GatherInv'
    <3>1. Terminal(sent[rd + 1]) /\ Send("message") /\ bridge' # "recv"
      BY <2>7 DEF ReceiveDone, Terminal, c
    <3>2. ContentIn(sent, Len(sent)) = ContentIn(sent, (rd + 1) - 1)
      BY <1>0, <2>3, <3>1, NoContentAfter
    <3>3. (rd + 1) - 1 = rd
      BY <2>3
    <3> QED
      BY <1>0, <1>2, <2>1, <2>2, <2>3, <3>1, <3>2, <3>3
  <2>8. ASSUME ReceiveInterruption(c) \/ ReceiveError(c) PROVE GatherInv'
    BY <1>1, <2>1, <2>8 DEF ReceiveInterruption, ReceiveError
  <2> QED
    BY <2>1, <2>5, <2>6, <2>7, <2>8
<1>4. ASSUME BridgeClosed PROVE GatherInv'
  BY <1>2, <1>4 DEF BridgeClosed, GatherInv, Closed, vars, producer
<1>5. ASSUME BridgeCancelled PROVE GatherInv'
  BY <1>0, <1>5 DEF BridgeCancelled, GatherInv, MessageIsWhole, vars
<1>6. ASSUME BridgeRecovers PROVE GatherInv'
  <2>1. /\ bridge = "recover" /\ bridge' = "done" /\ UNCHANGED vars
        /\ Send("recovered") \/ pipe' = pipe
        /\ Len(pipe) = 1 /\ pipe[1].kind = "notice"
    BY <1>6 DEF BridgeRecovers, PipeInv
  <2>2. ASSUME NEW i \in DOMAIN pipe' PROVE pipe'[i].kind # "message"
    <3>1. CASE pipe' = pipe
      BY <1>0, <2>1, <2>2, <3>1
    <3>2. CASE Send("recovered")
      <4>1. /\ DOMAIN pipe' = 1..(Len(pipe) + 1)
            /\ \A k \in 1..Len(pipe) : pipe'[k] = pipe[k]
            /\ pipe'[Len(pipe) + 1].kind = "recovered"
        BY <1>0, <3>2, SendFacts
      <4>2. i = 1 \/ i = 2
        BY <2>1, <2>2, <4>1
      <4> QED
        BY <2>1, <4>1, <4>2
    <3> QED
      BY <2>1, <3>1, <3>2
  <2> QED
    BY <2>1, <2>2 DEF GatherInv, MessageIsWhole
<1>7. ASSUME (Producer \/ StallFires \/ CancelCtx) /\ UNCHANGED bridgeVars PROVE GatherInv'
  <2>1. rd' = rd
    BY <1>7 DEF Producer, RateWait, LoopHead, Backoff, Connect, ScanEvent, ScanEnd,
       EmitSent,
       EmitSkipped, EmitAborted, ScanEnded, ReadFailed, Success, StallFires, CancelCtx
  <2>2. [Next]_vars
    BY <1>7 DEF Next
  <2> QED
    BY <1>7, <2>1, <2>2, GatherKept
<1>8. ASSUME UNCHANGED allVars PROVE GatherInv'
  BY <1>8, GatherKept DEF allVars, vars
<1> QED
  BY <1>3, <1>4, <1>5, <1>6, <1>7, <1>8 DEF BridgeNext, Bridge

(* What the bridge presents as the answer is the whole answer: no content   *)
(* the stream ever puts on out is missing from a message.                   *)
THEOREM BridgeMessageIsWhole == BridgeSpec => []MessageIsWhole
<1>1. BridgeInit => PipeInv /\ GatherInv
  <2> SUFFICES ASSUME BridgeInit PROVE PipeInv /\ GatherInv
    OBVIOUS
  <2>1. /\ pipe = <<>> /\ pipe \in Seq(Entry) /\ DOMAIN pipe = {}
        /\ gathered = 0 /\ rd = 0 /\ bridge = "recv"
    BY DEF BridgeInit, Init
  <2>2. ContentIn(sent, 0) = {}
    BY DEF ContentIn
  <2> QED
    BY <2>1, <2>2, FS_EmptySet DEF PipeInv, AnsweredOnce, GatherInv, MessageIsWhole
<1>2. StreamInv /\ StreamInv' /\ PipeInv /\ GatherInv /\ [BridgeNext]_allVars
        => PipeInv' /\ GatherInv'
  BY PipeStep, GatherStep
<1>3. GatherInv => MessageIsWhole
  BY DEF GatherInv
<1> QED
  BY <1>1, <1>2, <1>3, BridgeStreamInv, PTL DEF BridgeSpec
=============================================================================
