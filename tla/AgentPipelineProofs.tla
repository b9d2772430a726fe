------------------------- MODULE AgentPipelineProofs -------------------------
(***************************************************************************)
(* For any length of the answer and any room in the channels: what the     *)
(* runner collects and what the handler stores are the texts of the        *)
(* answer, in order, however the four goroutines interleave.               *)
(***************************************************************************)
EXTENDS AgentPipeline, SequenceTheorems, TLAPS

\* Messages lo + 1 to hi of the answer a that have a text.
TextMsgs(a, lo, hi) == {m \in (lo + 1)..hi : "text" \in a[m]}

\* The texts in the sequence c of message numbers, in the channel c and in the
\* event v are those of messages lo + 1 to hi, in order.
Collected(a, c, hi) ==
    /\ \A i, j \in DOMAIN c : i < j => c[i] < c[j]
    /\ Range(c) = TextMsgs(a, 0, hi)
TextIn(c) == {c[i].msg : i \in {k \in DOMAIN c : c[k].type = "text"}}
InOrder(c) ==
    \A i, j \in DOMAIN c :
        i < j /\ c[i].type = "text" /\ c[j].type = "text" => c[i].msg < c[j].msg
Carries(a, c, lo, hi) == InOrder(c) /\ TextIn(c) = TextMsgs(a, lo, hi)
Holds(a, v, lo, hi) == TextMsgs(a, lo, hi) = IF v.type = "text" THEN {v.msg} ELSE {}

(* The texts on their way from the agent to the handler, cut into what each *)
(* place has of them: g, p, t, e, h and r are the last messages that have   *)
(* come as far as the handler, the pipe, the adapter, events, the runner    *)
(* and rawEvents.  What a goroutine that has ended leaves behind no longer  *)
(* matters.                                                                 *)
Flow(g, p, t, e, h, r) ==
    /\ g <= p /\ p <= t /\ t <= e /\ e <= h /\ h <= r
    /\ Collected(answer, got, g) /\ Carries(answer, pipe, g, p)
    /\ adapter \in {"none", "loop"} => t = p
    /\ adapter = "send" => Holds(answer, taken, p, t)
    /\ adapter # "done" => Carries(answer, events, t, e)
    /\ runner \in {"none", "loop"} => h = e
    /\ runner = "send" => Holds(answer, held, e, h)
    /\ Collected(answer, content, h)
    /\ runner \in {"none", "loop", "send"} => Carries(answer, raw, h, r)
    /\ agent \in {"none", "loop", "recv"} => r = next
    /\ agent = "send" => Carries(answer, pend, r, next)

\* Nobody has cancelled the request, and the model does not fail.
Sound == ctx = "live" /\ ~fails
RunnerLeaves == runner \in {"end", "done"} \/ (runner = "send" /\ held = ErrorEvent)

(* Who stops in a sound request has passed everything on.                   *)
Whole(g, p, e, h, r) ==
    /\ Sound /\ agent = "done" => r = Len(answer)
    /\ Sound /\ RunnerLeaves => e = Len(answer) /\ h = Len(answer)
    /\ Sound /\ adapter = "done" => p = Len(answer)
    /\ Sound /\ handler = "finish" => g = Len(answer)
    /\ handler = "stored" /\ ctx # "gone" /\ ~fails => g = Len(answer)
    /\ recorded /\ ctx # "gone" => h = Len(answer)

FlowInv ==
    kind # "chat" =>
        \E g, p, t, e, h, r \in 0..next : Flow(g, p, t, e, h, r) /\ Whole(g, p, e, h, r)

(* An error event is the last of its channel, from a goroutine that has     *)
(* nothing more to send, and in a sound request it is from the store.       *)
ErrorInv ==
    /\ \A i \in DOMAIN raw : raw[i] = ErrorEvent =>
        i = Len(raw) /\ agent = "done" /\ ~Sound
    /\ \A i \in DOMAIN events : events[i] = ErrorEvent =>
        i = Len(events) /\ runner \in {"end", "done"} /\ (Sound => store = "fails")
    /\ agent = "send" =>
        \/ \A i \in DOMAIN pend : pend[i] # ErrorEvent
        \/ pend = <<ErrorEvent>> /\ ~Sound
    /\ runner = "send" /\ held = ErrorEvent /\ Sound => store = "fails"
    /\ ctx = "live" /\ fails /\ agent = "done"
            /\ runner \in {"loop", "send"} /\ ~RunnerLeaves =>
        raw # <<>> /\ raw[Len(raw)] = ErrorEvent

(* Who has ended when, and what the runner has done by then.                *)
EndInv ==
    /\ handler = "new" => {agent, runner, adapter} = {"none"} /\ ctx = "live" /\ ~recorded
    /\ handler \in {"stored", "failed"} => ctx # "live"
    /\ ctx = "over" => handler \in {"stored", "failed"}
    /\ kind = "chat" => {agent, runner, adapter} = {"none"}
                        /\ handler \in {"new", "collect", "stored", "failed"}
    /\ kind # "chat" => handler # "collect"
    /\ kind # "chat" /\ handler \in {"finish", "stored"} => adapter = "done"
    /\ kind # "chat" /\ handler \in {"loop", "recv", "finish", "stored"} => runner # "none"
    /\ kind # "chat" /\ recorded => runner \in {"end", "done"}
    /\ kind # "chat" /\ recorded /\ ctx # "gone" => ~fails
    /\ adapter = "done" /\ ctx = "live" => runner \in {"end", "done"}
    /\ adapter = "done" /\ Sound /\ store # "fails" => runner = "done"
    /\ ctx = "over" => runner \in {"none", "end", "done"}
    /\ runner = "done" => "AgentEnd" \in published
    /\ Sound /\ store = "works" /\ runner \in {"end", "done"} => recorded
    /\ kind # "chat" /\ handler = "stored" /\ ctx # "gone" /\ ~fails =>
        /\ store = "works" => recorded
        /\ store # "fails" => runner = "done"

(* The same request without streaming.                                      *)
ChatInv ==
    kind = "chat" =>
        /\ Collected(answer, content, next)
        /\ handler \in {"new", "collect"} => ~recorded
        /\ recorded /\ ctx # "gone" => ~fails /\ next = Len(answer)
        /\ handler = "stored" /\ ctx # "gone" =>
            /\ ~fails /\ got = Texts(Len(answer))
            /\ store = "works" => recorded
            /\ "AgentEnd" \in published

-----------------------------------------------------------------------------
(* What is sent into a channel and what is received from it, in terms of    *)
(* its indices.                                                             *)
LEMMA AppendFacts ==
  ASSUME NEW S, NEW c \in Seq(S), NEW v \in S
  PROVE  LET d == Append(c, v) IN
         /\ d \in Seq(S) /\ Len(d) = Len(c) + 1 /\ Len(c) \in Nat
         /\ DOMAIN c = 1..Len(c) /\ DOMAIN d = 1..(Len(c) + 1)
         /\ \A i \in 1..Len(c) : d[i] = c[i] /\ i \in 1..(Len(c) + 1)
         /\ Len(c) + 1 \in 1..(Len(c) + 1) /\ d[Len(c) + 1] = v
         /\ \A i \in 1..(Len(c) + 1) : i \in 1..Len(c) \/ i = Len(c) + 1
OBVIOUS

LEMMA TailFacts ==
  ASSUME NEW S, NEW c \in Seq(S), c # <<>>
  PROVE  /\ Head(c) \in S /\ Head(c) = c[1] /\ Tail(c) \in Seq(S)
         /\ Len(c) \in Nat \ {0} /\ Len(Tail(c)) = Len(c) - 1
         /\ DOMAIN c = 1..Len(c) /\ DOMAIN Tail(c) = 1..(Len(c) - 1)
         /\ \A i \in 1..(Len(c) - 1) : Tail(c)[i] = c[i + 1] /\ i + 1 \in 2..Len(c)
         /\ \A i \in 2..Len(c) : i - 1 \in 1..(Len(c) - 1) /\ Tail(c)[i - 1] = c[i]
OBVIOUS

(* Texts of two ranges of messages that follow each other.                  *)
LEMMA TextMsgsSplit ==
  ASSUME NEW a, NEW lo \in Nat, NEW mid \in Nat, NEW hi \in Nat, lo <= mid, mid <= hi
  PROVE  /\ TextMsgs(a, lo, hi) = TextMsgs(a, lo, mid) \cup TextMsgs(a, mid, hi)
         /\ \A m \in TextMsgs(a, lo, mid), n \in TextMsgs(a, mid, hi) :
                m \in Nat /\ n \in Nat /\ m < n
         /\ TextMsgs(a, lo, lo) = {}
BY DEF TextMsgs

(* A send at the end of a channel.                                          *)
LEMMA PutFacts ==
  ASSUME NEW a, NEW c \in Seq(EventType), NEW v \in EventType,
         NEW lo \in Nat, NEW mid \in Nat, NEW hi \in Nat, lo <= mid, mid <= hi,
         Carries(a, c, lo, mid), Holds(a, v, mid, hi)
  PROVE  Carries(a, Append(c, v), lo, hi)
<1> DEFINE d == Append(c, v)
<1>0. /\ TextMsgs(a, lo, hi) = TextMsgs(a, lo, mid) \cup TextMsgs(a, mid, hi)
      /\ \A m \in TextMsgs(a, lo, mid), n \in TextMsgs(a, mid, hi) : m < n
  BY TextMsgsSplit
<1>1. /\ Len(c) \in Nat /\ DOMAIN c = 1..Len(c) /\ DOMAIN d = 1..(Len(c) + 1)
      /\ \A i \in 1..Len(c) : d[i] = c[i] /\ i \in 1..(Len(c) + 1)
      /\ Len(c) + 1 \in 1..(Len(c) + 1) /\ d[Len(c) + 1] = v
      /\ \A i \in 1..(Len(c) + 1) : i \in 1..Len(c) \/ i = Len(c) + 1
  BY AppendFacts
<1> HIDE DEF d
<1>2. TextIn(d) = TextIn(c) \cup (IF v.type = "text" THEN {v.msg} ELSE {})
  BY <1>1 DEF TextIn
<1>3. TextIn(d) = TextMsgs(a, lo, hi)
  BY <1>0, <1>2 DEF Carries, Holds
<1>4. ASSUME NEW i \in DOMAIN d, NEW j \in DOMAIN d, i < j,
             d[i].type = "text", d[j].type = "text"
      PROVE  d[i].msg < d[j].msg
  <2>1. i \in 1..Len(c)
    BY <1>1, <1>4
  <2>2. CASE j \in 1..Len(c)
    BY <1>1, <1>4, <2>1, <2>2 DEF Carries, InOrder
  <2>3. CASE j = Len(c) + 1
    <3>1. d[i].msg \in TextMsgs(a, lo, mid)
      BY <1>1, <1>4, <2>1 DEF Carries, TextIn
    <3>2. d[j].msg \in TextMsgs(a, mid, hi)
      BY <1>1, <1>4, <2>3 DEF Holds
    <3> QED
      BY <1>0, <3>1, <3>2
  <2> QED
    BY <1>1, <2>2, <2>3
<1> QED
  BY <1>3, <1>4 DEF Carries, InOrder, d

(* A receive at the other end.                                              *)
LEMMA TakeFacts ==
  ASSUME NEW a, NEW c \in Seq(EventType), c # <<>>, NEW lo \in Nat, NEW hi \in Nat, lo <= hi,
         Carries(a, c, lo, hi)
  PROVE  \E mid \in lo..hi : Holds(a, Head(c), lo, mid) /\ Carries(a, Tail(c), mid, hi)
<1> DEFINE d == Tail(c)
           v == Head(c)
<1>1. /\ v = c[1] /\ Len(c) \in Nat \ {0}
      /\ DOMAIN c = 1..Len(c) /\ DOMAIN d = 1..(Len(c) - 1)
      /\ \A i \in 1..(Len(c) - 1) : d[i] = c[i + 1] /\ i + 1 \in 2..Len(c)
      /\ \A i \in 2..Len(c) : i - 1 \in 1..(Len(c) - 1) /\ d[i - 1] = c[i]
  BY TailFacts
<1> HIDE DEF d, v
<1>2. InOrder(d)
  <2> SUFFICES ASSUME NEW i \in DOMAIN d, NEW j \in DOMAIN d, i < j,
                      d[i].type = "text", d[j].type = "text"
               PROVE  d[i].msg < d[j].msg
    BY DEF InOrder
  <2>1. /\ d[i] = c[i + 1] /\ d[j] = c[j + 1] /\ i + 1 < j + 1
        /\ i + 1 \in DOMAIN c /\ j + 1 \in DOMAIN c
    BY <1>1
  <2> QED
    BY <2>1 DEF Carries, InOrder
<1>3. TextIn(c) = TextIn(d) \cup (IF v.type = "text" THEN {v.msg} ELSE {})
  <2>1. \A i \in DOMAIN c : i = 1 \/ i \in 2..Len(c)
    BY <1>1
  <2>2. \A i \in 2..Len(c) : i \in DOMAIN c
    BY <1>1
  <2>3. 1 \in DOMAIN c
    BY <1>1
  <2>4. ASSUME NEW i \in DOMAIN c, c[i].type = "text"
        PROVE  c[i].msg \in TextIn(d) \cup (IF v.type = "text" THEN {v.msg} ELSE {})
    <3>1. CASE i = 1
      BY <1>1, <2>4, <3>1
    <3>2. CASE i \in 2..Len(c)
      <4>1. i - 1 \in DOMAIN d /\ d[i - 1] = c[i]
        BY <1>1, <3>2
      <4> QED
        BY <2>4, <4>1 DEF TextIn
    <3> QED
      BY <2>1, <3>1, <3>2
  <2>5. ASSUME NEW i \in DOMAIN d, d[i].type = "text" PROVE d[i].msg \in TextIn(c)
    BY <1>1, <2>2, <2>5 DEF TextIn
  <2>6. v.type = "text" => v.msg \in TextIn(c)
    BY <1>1, <2>3 DEF TextIn
  <2> QED
    BY <2>4, <2>5, <2>6 DEF TextIn
<1>4. TextIn(c) = TextMsgs(a, lo, hi)
  BY DEF Carries
<1>5. CASE v.type # "text"
  <2>1. Holds(a, v, lo, lo)
    BY <1>5, TextMsgsSplit DEF Holds
  <2>2. Carries(a, d, lo, hi)
    BY <1>2, <1>3, <1>4, <1>5 DEF Carries
  <2> QED
    BY <2>1, <2>2 DEF v, d
<1>6. CASE v.type = "text"
  <2> DEFINE k == v.msg
  <2>1. k \in TextMsgs(a, lo, hi)
    BY <1>3, <1>4, <1>6
  <2>2. ASSUME NEW m \in TextIn(d) PROVE k < m
    <3>1. PICK i \in DOMAIN d : d[i].type = "text" /\ m = d[i].msg
      BY <2>2 DEF TextIn
    <3>2. 1 \in DOMAIN c /\ i + 1 \in DOMAIN c /\ 1 < i + 1 /\ d[i] = c[i + 1]
      BY <1>1, <3>1
    <3> QED
      BY <1>1, <1>6, <3>1, <3>2 DEF Carries, InOrder
  <2>3. k \in lo..hi /\ TextMsgs(a, k, hi) = TextIn(d) /\ TextMsgs(a, lo, k) = {k}
    <3> HIDE DEF k
    <3>1. k \in lo..hi
      BY <2>1 DEF TextMsgs
    <3>2. /\ TextMsgs(a, k, hi) = {m \in TextMsgs(a, lo, hi) : m > k}
          /\ TextMsgs(a, lo, k) = {m \in TextMsgs(a, lo, hi) : ~(m > k)}
      BY <3>1 DEF TextMsgs
    <3>3. TextMsgs(a, lo, hi) = TextIn(d) \cup {k} /\ ~(k > k)
      BY <1>3, <1>4, <1>6, <3>1 DEF k
    <3>4. \A m \in TextIn(d) : m > k
      BY <2>2, <3>1, <3>3 DEF TextMsgs
    <3> QED
      BY <3>1, <3>2, <3>3, <3>4
  <2>4. Holds(a, v, lo, k) /\ Carries(a, d, k, hi)
    BY <1>2, <1>6, <2>3 DEF Holds, Carries
  <2> QED
    BY <2>3, <2>4 DEF v, d
<1> QED
  BY <1>5, <1>6

(* A text, if it is one, added to the collected ones.                       *)
LEMMA CollectFacts ==
  ASSUME NEW a, NEW c \in Seq(1..MaxMsgs), NEW v \in EventType,
         NEW mid \in Nat, NEW hi \in Nat, mid <= hi,
         Collected(a, c, mid), Holds(a, v, mid, hi)
  PROVE  Collected(a, IF v.type = "text" THEN Append(c, v.msg) ELSE c, hi)
<1>0. /\ TextMsgs(a, 0, hi) = TextMsgs(a, 0, mid) \cup TextMsgs(a, mid, hi)
      /\ \A m \in TextMsgs(a, 0, mid), n \in TextMsgs(a, mid, hi) : m < n
  BY DEF TextMsgs
<1>1. CASE v.type # "text"
  BY <1>0, <1>1 DEF Collected, Holds
<1>2. CASE v.type = "text"
  <2> DEFINE k == v.msg
             d == Append(c, k)
  <2>1. k \in 1..MaxMsgs
    BY <1>2 DEF EventType, ErrorEvent, Event
  <2>2. /\ Len(c) \in Nat /\ DOMAIN c = 1..Len(c) /\ DOMAIN d = 1..(Len(c) + 1)
        /\ \A i \in 1..Len(c) : d[i] = c[i] /\ i \in 1..(Len(c) + 1)
        /\ Len(c) + 1 \in 1..(Len(c) + 1) /\ d[Len(c) + 1] = k
        /\ \A i \in 1..(Len(c) + 1) : i \in 1..Len(c) \/ i = Len(c) + 1
    BY <2>1, AppendFacts
  <2>3. k \in TextMsgs(a, mid, hi)
    BY <1>2 DEF Holds
  <2> HIDE DEF k, d
  <2>4. Range(d) = Range(c) \cup {k}
    BY <2>2 DEF Range
  <2>5. Range(d) = TextMsgs(a, 0, hi)
    BY <1>0, <1>2, <2>4 DEF Collected, Holds, k
  <2>6. ASSUME NEW i \in DOMAIN d, NEW j \in DOMAIN d, i < j PROVE d[i] < d[j]
    <3>1. i \in 1..Len(c)
      BY <2>2, <2>6
    <3>2. CASE j \in 1..Len(c)
      BY <2>2, <2>6, <3>1, <3>2 DEF Collected
    <3>3. CASE j = Len(c) + 1
      <4>1. d[i] \in TextMsgs(a, 0, mid)
        BY <2>2, <3>1 DEF Collected, Range
      <4> QED
        BY <1>0, <2>2, <2>3, <3>3, <4>1
    <3> QED
      BY <2>2, <3>2, <3>3
  <2>7. Collected(a, d, hi)
    BY <2>5, <2>6 DEF Collected
  <2> QED
    BY <1>2, <2>7 DEF d, k
<1> QED
  BY <1>1, <1>2

(* A range of messages without a text makes no difference.                  *)
LEMMA NoTextFacts ==
  ASSUME NEW a, NEW lo \in Nat, NEW mid \in Nat, NEW hi \in Nat, lo <= mid, mid <= hi,
         TextMsgs(a, mid, hi) = {}
  PROVE  /\ TextMsgs(a, lo, hi) = TextMsgs(a, lo, mid)
         /\ \A c : Carries(a, c, lo, mid) => Carries(a, c, lo, hi)
         /\ \A c : Collected(a, c, mid) => Collected(a, c, hi)
<1>1. TextMsgs(a, lo, hi) = TextMsgs(a, lo, mid)
  BY DEF TextMsgs
<1>2. TextMsgs(a, 0, hi) = TextMsgs(a, 0, mid)
  BY DEF TextMsgs
<1> QED
  BY <1>1, <1>2 DEF Carries, Collected

(* An empty channel, or one with an error only, carries no text.            *)
LEMMA EmptyFacts ==
  ASSUME NEW a, NEW lo, NEW hi
  PROVE  /\ Carries(a, <<>>, lo, hi) <=> TextMsgs(a, lo, hi) = {}
         /\ Carries(a, <<ErrorEvent>>, lo, hi) <=> TextMsgs(a, lo, hi) = {}
         /\ Collected(a, <<>>, 0)
<1>1. TextIn(<<>>) = {} /\ InOrder(<<>>)
  BY DEF TextIn, InOrder
<1>2. TextIn(<<ErrorEvent>>) = {} /\ InOrder(<<ErrorEvent>>)
  BY DEF TextIn, InOrder, ErrorEvent, Event
<1>3. Collected(a, <<>>, 0)
  BY DEF Collected, TextMsgs, Range
<1> QED
  BY <1>1, <1>2, <1>3 DEF Carries

(* The events ReactAgent.Stream makes of one message, and the text that     *)
(* Runner.Run keeps of it.                                                  *)
LEMMA PiecesFacts ==
  ASSUME TypeOK, next < Len(answer)
  PROVE  /\ next + 1 \in 1..Len(answer)
         /\ Pieces(next + 1) \in Seq(EventType)
         /\ \A i \in DOMAIN Pieces(next + 1) : Pieces(next + 1)[i] # ErrorEvent
         /\ Carries(answer, Pieces(next + 1), next, next + 1)
<1> DEFINE n == next + 1
           T == Event("text", n)
           R == Event("reasoning", n)
<1>1. n \in 1..Len(answer) /\ n \in 1..MaxMsgs /\ answer[n] \in SUBSET {"text", "reasoning"}
  BY PipelineAssumption DEF TypeOK
<1>2. T \in EventType /\ R \in EventType /\ T # ErrorEvent /\ R # ErrorEvent
  BY <1>1, PipelineAssumption DEF Event, EventType, ErrorEvent
<1>3. T.type = "text" /\ T.msg = n /\ R.type # "text"
  BY DEF Event
<1>4. TextMsgs(answer, next, n) = IF "text" \in answer[n] THEN {n} ELSE {}
  BY <1>1 DEF TextMsgs, TypeOK
<1> DEFINE P == Piece("text", n)
<1>5. /\ P = IF "text" \in answer[n] THEN <<T>> ELSE <<>>
      /\ Pieces(n) = P \o (IF "reasoning" \in answer[n] THEN <<R>> ELSE <<>>)
  BY DEF Pieces, Piece
<1> HIDE DEF n, T, R, P
<1>6. P \in Seq(EventType) /\ \A i \in DOMAIN P : P[i] # ErrorEvent
  BY <1>2, <1>5
<1>7. Carries(answer, P, next, n)
  <2>1. CASE "text" \in answer[n]
    <3>1. P = <<T>>
      BY <1>5, <2>1
    <3>2. InOrder(P) /\ TextIn(P) = {n}
      BY <1>3, <3>1 DEF InOrder, TextIn
    <3> QED
      BY <1>4, <2>1, <3>2 DEF Carries
  <2>2. CASE "text" \notin answer[n]
    BY <1>4, <1>5, <2>2, EmptyFacts
  <2> QED
    BY <2>1, <2>2
<1>8. CASE "reasoning" \notin answer[n]
  <2>1. Pieces(n) = P
    BY <1>5, <1>6, <1>8, ConcatEmptySeq
  <2> QED
    BY <1>1, <1>6, <1>7, <2>1 DEF n
<1>9. CASE "reasoning" \in answer[n]
  <2>1. Pieces(n) = Append(P, R)
    BY <1>2, <1>5, <1>6, <1>9, AppendIsConcat
  <2>2. next \in Nat /\ n \in Nat /\ next <= n
    BY DEF TypeOK, n
  <2>3. Holds(answer, R, n, n)
    BY <1>3, <2>2, TextMsgsSplit DEF Holds
  <2>4. Carries(answer, Append(P, R), next, n)
    BY <1>2, <1>6, <1>7, <2>2, <2>3, PutFacts
  <2>5. /\ Append(P, R) \in Seq(EventType)
        /\ \A i \in DOMAIN Append(P, R) : Append(P, R)[i] # ErrorEvent
    BY <1>2, <1>6, AppendFacts
  <2> QED
    BY <1>1, <2>1, <2>4, <2>5 DEF n
<1> QED
  BY <1>8, <1>9

-----------------------------------------------------------------------------
(* Every step of every goroutine keeps the types and the room in the        *)
(* channels.                                                                *)
LEMMA TypeStep == TypeOK /\ [Next]_vars => TypeOK'
<1> SUFFICES ASSUME TypeOK, [Next]_vars PROVE TypeOK'
  OBVIOUS
<1> USE PipelineAssumption DEF config, agentVars, runnerVars, adapterVars
<1>0. ErrorEvent \in EventType /\ ErrorEvent.type # "text"
  BY DEF EventType, ErrorEvent, Event
<1>1. \A v \in EventType : v.type = "text" => v.msg \in 1..MaxMsgs
  BY DEF EventType, ErrorEvent, Event
<1>2. ASSUME NEW c, Channel(c), c # <<>>
      PROVE  Head(c) \in EventType /\ Channel(Tail(c))
  <2>1. c \in Seq(EventType) /\ Len(c) <= Cap
    BY <1>2 DEF Channel
  <2> QED
    BY <1>2, <2>1, TailFacts DEF Channel
<1>3. ASSUME NEW c, Channel(c), Len(c) < Cap, NEW v \in EventType PROVE Channel(Append(c, v))
  <2>1. c \in Seq(EventType)
    BY <1>3 DEF Channel
  <2> QED
    BY <1>3, <2>1, AppendFacts DEF Channel
<1>4. ASSUME NEW n \in 0..Len(answer) PROVE Texts(n) \in Seq(1..MaxMsgs)
  <2>1. n > 0 => n \in 1..MaxMsgs
    BY DEF TypeOK
  <2>2. Texts(n) = <<>> \/ (n > 0 /\ Texts(n) = <<n>>)
    BY DEF Texts
  <2>3. CASE Texts(n) = <<>>
    BY <2>3
  <2>4. CASE n > 0 /\ Texts(n) = <<n>>
    BY <2>1, <2>4
  <2> QED
    BY <2>2, <2>3, <2>4
<1>r. /\ Channel(raw) /\ Channel(events) /\ Channel(pipe)
      /\ held \in EventType /\ taken \in EventType
  BY DEF TypeOK
<1>g. /\ got \in Seq(1..MaxMsgs) /\ \A n \in 1..MaxMsgs : Append(got, n) \in Seq(1..MaxMsgs)
      /\ content \in Seq(1..MaxMsgs)
      /\ \A n \in 1..MaxMsgs : Append(content, n) \in Seq(1..MaxMsgs)
  <2>1. got \in Seq(1..MaxMsgs) /\ content \in Seq(1..MaxMsgs)
    BY DEF TypeOK
  <2> QED
    BY <2>1, AppendFacts
<1>5. CASE Refuse
  BY <1>5 DEF Refuse, Over, TypeOK
<1>6. CASE Begin
  BY <1>6 DEF Begin, TypeOK
<1>7. CASE HandlerLoop
  BY <1>7 DEF HandlerLoop, TypeOK
<1>8. CASE HandlerRecv
  <2>1. CASE pipe # <<>> /\ pipe' = Tail(pipe) /\ handler' = "loop"
             /\ got' = IF Head(pipe).type = "text" THEN Append(got, Head(pipe).msg) ELSE got
    <3>1. Head(pipe) \in EventType /\ Channel(Tail(pipe))
      BY <1>2, <2>1 DEF TypeOK
    <3>2. got' \in Seq(1..MaxMsgs)
      BY <1>1, <1>g, <2>1, <3>1
    <3> QED
      BY <1>8, <2>1, <3>1, <3>2 DEF HandlerRecv, TypeOK
  <2>2. CASE handler' = "finish" /\ UNCHANGED <<got, pipe>>
    BY <1>8, <2>2 DEF HandlerRecv, TypeOK
  <2> QED
    BY <1>8, <2>1, <2>2 DEF HandlerRecv
<1>9. CASE HandlerStore
  BY <1>9 DEF HandlerStore, Over, TypeOK
<1>10. CASE Collect
  <2>1. CASE next < Len(answer) /\ next' = next + 1 /\ content' = content \o Texts(next')
             /\ UNCHANGED <<handler, ctx, got, recorded, published>>
    <3>1. next' \in 0..Len(answer)
      BY <2>1 DEF TypeOK
    <3>2. content' \in Seq(1..MaxMsgs)
      BY <1>4, <2>1, <3>1, ConcatProperties DEF TypeOK
    <3> QED
      BY <1>10, <2>1, <3>1, <3>2 DEF Collect, TypeOK
  <2>2. CASE /\ UNCHANGED <<next, content>> /\ ctx' = Over
             /\ handler' \in {"stored", "failed"} /\ got' \in {got, Texts(next)}
             /\ recorded' \in {recorded, store = "works"}
             /\ \E v \in {"AgentEnd", "Error"} : published' = published \cup {v}
    <3>1. got' \in Seq(1..MaxMsgs)
      BY <1>4, <2>2 DEF TypeOK
    <3>2. recorded' \in BOOLEAN
      BY <2>2, Zenon DEF TypeOK
    <3> QED
      BY <1>10, <2>2, <3>1, <3>2 DEF Collect, Over, TypeOK
  <2> QED
    BY <1>10, <2>1, <2>2 DEF Collect
<1>11. CASE ClientLeaves
  BY <1>11 DEF ClientLeaves, TypeOK
<1>12. CASE AgentCheck
  BY <1>12 DEF AgentCheck, TypeOK
<1>13. CASE AgentRecv
  <2>1. CASE next < Len(answer) /\ next' = next + 1 /\ pend' = Pieces(next')
             /\ agent' = IF pend' = <<>> THEN "loop" ELSE "send"
    <3>1. next' \in 0..Len(answer) /\ pend' \in Seq(EventType)
      BY <2>1, PiecesFacts DEF TypeOK
    <3> QED
      BY <1>13, <2>1, <3>1 DEF AgentRecv, TypeOK
  <2>2. CASE pend' = <<ErrorEvent>> /\ agent' = "send" /\ UNCHANGED next
    BY <1>0, <1>13, <2>2 DEF AgentRecv, TypeOK
  <2>3. CASE agent' = "done" /\ UNCHANGED <<next, pend>>
    BY <1>13, <2>3 DEF AgentRecv, TypeOK
  <2> QED
    BY <1>13, <2>1, <2>2, <2>3 DEF AgentRecv
<1>14. CASE AgentSend
  <2>1. pend \in Seq(EventType) /\ pend # <<>>
    BY <1>14 DEF AgentSend, TypeOK
  <2>2. Head(pend) \in EventType /\ Tail(pend) \in Seq(EventType)
    BY <2>1, TailFacts
  <2>3. Channel(raw')
    BY <1>3, <1>14, <1>r, <2>2 DEF AgentSend
  <2>4. /\ agent' \in {"send", "done", "loop"}
        /\ agent' = "send" => pend' \in Seq(EventType) \ {<<>>}
    BY <1>14, <2>1, <2>2 DEF AgentSend
  <2> QED
    BY <1>14, <2>3, <2>4 DEF AgentSend, TypeOK
<1>15. CASE RunnerSelect
  <2>1. CASE runner' = "end" /\ UNCHANGED <<held, content, raw, recorded, published>>
    BY <1>15, <2>1 DEF RunnerSelect, TypeOK
  <2>2. CASE /\ raw # <<>> /\ held' = Head(raw) /\ raw' = Tail(raw) /\ runner' = "send"
             /\ content' = IF held'.type = "text" THEN Append(content, held'.msg) ELSE content
             /\ UNCHANGED <<recorded, published>>
    <3>1. held' \in EventType /\ Channel(raw')
      BY <1>2, <2>2 DEF TypeOK
    <3>2. content' \in Seq(1..MaxMsgs)
      BY <1>1, <1>g, <2>2, <3>1
    <3> QED
      BY <1>15, <2>2, <3>1, <3>2 DEF RunnerSelect, TypeOK
  <2>3. CASE /\ recorded' = (store = "works") /\ held' = ErrorEvent
             /\ runner' \in {"send", "end"} /\ UNCHANGED <<content, raw>>
             /\ published' \in {published, published \cup {"Error"}}
    <3>1. recorded' \in BOOLEAN
      BY <2>3, Zenon
    <3> QED
      BY <1>0, <1>15, <2>3, <3>1 DEF RunnerSelect, TypeOK
  <2> QED
    BY <1>15, <2>1, <2>2, <2>3 DEF RunnerSelect
<1>16. CASE RunnerSend
  <2>1. Channel(events') /\ runner' \in {"end", "loop"}
    BY <1>3, <1>16, <1>r DEF RunnerSend
  <2> QED
    BY <1>16, <2>1 DEF RunnerSend, TypeOK
<1>17. CASE RunnerEnd
  BY <1>17 DEF RunnerEnd, TypeOK
<1>18. CASE AdapterSelect
  <2>1. Channel(events') /\ taken' \in EventType /\ adapter' \in {"send", "done"}
    BY <1>2, <1>18, <1>r DEF AdapterSelect
  <2> QED
    BY <1>18, <2>1 DEF AdapterSelect, TypeOK
<1>19. CASE AdapterSend
  <2>1. Channel(pipe') /\ adapter' \in {"loop", "done"}
    BY <1>3, <1>19, <1>r DEF AdapterSend
  <2> QED
    BY <1>19, <2>1 DEF AdapterSend, TypeOK
<1>20. CASE UNCHANGED vars
  BY <1>20 DEF vars, TypeOK
<1> QED
  BY <1>5, <1>6, <1>7, <1>8, <1>9, <1>10, <1>11, <1>12, <1>13, <1>14, <1>15, <1>16, <1>17,
     <1>18, <1>19, <1>20 DEF Next, Handler, Agent, Runner, Adapter

-----------------------------------------------------------------------------
(* Every step keeps who has ended when.                                     *)
LEMMA EndStep == TypeOK /\ ErrorInv /\ EndInv /\ [Next]_vars => EndInv'
<1> SUFFICES ASSUME TypeOK, ErrorInv, EndInv, [Next]_vars PROVE EndInv'
  OBVIOUS
<1> USE DEF config, agentVars, runnerVars, adapterVars
<1>1. CASE Refuse
  BY <1>1 DEF Refuse, Over, EndInv, ErrorInv, Sound, RunnerLeaves, Done, TypeOK
<1>2. CASE Begin
  BY <1>2 DEF Begin, EndInv, ErrorInv, Sound, RunnerLeaves, Done, TypeOK
<1>3. CASE HandlerLoop
  BY <1>3 DEF HandlerLoop, EndInv, ErrorInv, Sound, RunnerLeaves, Done, TypeOK
<1>4. CASE HandlerRecv
  BY <1>4 DEF HandlerRecv, EndInv, ErrorInv, Sound, RunnerLeaves, Done, TypeOK
<1>5. CASE HandlerStore
  BY <1>5 DEF HandlerStore, Over, EndInv, ErrorInv, Sound, RunnerLeaves, Done, TypeOK
<1>6. CASE Collect
  BY <1>6 DEF Collect, Over, EndInv, ErrorInv, Sound, RunnerLeaves, Done, TypeOK
<1>7. CASE ClientLeaves
  BY <1>7 DEF ClientLeaves, EndInv, ErrorInv, Sound, RunnerLeaves, Done, TypeOK
<1>8. CASE AgentCheck
  BY <1>8 DEF AgentCheck, EndInv, ErrorInv, Sound, RunnerLeaves, Done, TypeOK
<1>9. CASE AgentRecv
  BY <1>9 DEF AgentRecv, EndInv, ErrorInv, Sound, RunnerLeaves, Done, TypeOK
<1>10. CASE AgentSend
  BY <1>10 DEF AgentSend, EndInv, ErrorInv, Sound, RunnerLeaves, Done, TypeOK
<1>11. CASE RunnerSelect
  <2>1. CASE Done /\ runner' = "end" /\ UNCHANGED <<held, content, raw, recorded,
                                                    published>>
    BY <1>11, <2>1 DEF RunnerSelect, EndInv, Sound, Done, TypeOK
  <2>2. CASE raw # <<>> /\ runner' = "send" /\ UNCHANGED <<recorded, published>>
    BY <1>11, <2>2 DEF RunnerSelect, EndInv, Sound, TypeOK
  <2>3. CASE /\ raw = <<>> /\ agent = "done" /\ recorded' = (store = "works")
             /\ runner' = IF store = "fails" THEN "send" ELSE "end"
    <3>1. ctx = "live" => ~fails
      BY <1>11, <2>3 DEF RunnerSelect, ErrorInv, RunnerLeaves
    <3>2. recorded' <=> store = "works"
      BY <2>3
    <3>3. ctx # "over" /\ kind # "chat"
      BY <1>11 DEF RunnerSelect, EndInv, TypeOK
    <3> QED
      BY <1>11, <2>3, <3>1, <3>2, <3>3 DEF RunnerSelect, EndInv, Sound, TypeOK
  <2> QED
    BY <1>11, <2>1, <2>2, <2>3 DEF RunnerSelect
<1>12. CASE RunnerSend
  BY <1>12 DEF RunnerSend, EndInv, ErrorInv, Sound, RunnerLeaves, Done, TypeOK
<1>13. CASE RunnerEnd
  BY <1>13 DEF RunnerEnd, EndInv, ErrorInv, Sound, RunnerLeaves, Done, TypeOK
<1>14. CASE AdapterSelect
  <2>1. ASSUME adapter' = "done", ctx = "live"
        PROVE  runner \in {"end", "done"} /\ (~fails /\ store # "fails" => runner = "done")
    <3>1. CASE runner = "done"
      BY <3>1
    <3>2. CASE events # <<>> /\ Head(events) = ErrorEvent
      <4>1. 1 \in DOMAIN events /\ events[1] = ErrorEvent
        BY <3>2, TailFacts DEF TypeOK, Channel
      <4> QED
        BY <2>1, <4>1 DEF ErrorInv, Sound
    <3> QED
      BY <1>14, <2>1, <3>1, <3>2 DEF AdapterSelect, Done
  <2> QED
    BY <1>14, <2>1 DEF AdapterSelect, EndInv, Sound, TypeOK
<1>15. CASE AdapterSend
  BY <1>15 DEF AdapterSend, EndInv, ErrorInv, Sound, RunnerLeaves, Done, TypeOK
<1>16. CASE UNCHANGED vars
  BY <1>16 DEF vars, EndInv, ErrorInv, Sound, RunnerLeaves, Done, TypeOK
<1> QED
  BY <1>1, <1>2, <1>3, <1>4, <1>5, <1>6, <1>7, <1>8, <1>9, <1>10, <1>11,
     <1>12, <1>13, <1>14, <1>15, <1>16
     DEF Next, Handler, Agent, Runner, Adapter

(* Every step keeps where error events are.                                 *)
LEMMA ErrorStep == TypeOK /\ EndInv /\ ErrorInv /\ [Next]_vars => ErrorInv'
<1> SUFFICES ASSUME TypeOK, EndInv, ErrorInv, [Next]_vars PROVE ErrorInv'
  OBVIOUS
<1> USE DEF config, agentVars, runnerVars, adapterVars
<1>1. CASE Refuse
  BY <1>1 DEF Refuse, Over, ErrorInv, EndInv, Sound, RunnerLeaves, Done, TypeOK
<1>2. CASE Begin
  BY <1>2 DEF Begin, ErrorInv, EndInv, Sound, RunnerLeaves, Done, TypeOK
<1>3. CASE HandlerLoop
  BY <1>3 DEF HandlerLoop, ErrorInv, EndInv, Sound, RunnerLeaves, Done, TypeOK
<1>4. CASE HandlerRecv
  BY <1>4 DEF HandlerRecv, ErrorInv, EndInv, Sound, RunnerLeaves, Done, TypeOK
<1>5. CASE HandlerStore
  BY <1>5 DEF HandlerStore, Over, ErrorInv, EndInv, Sound, RunnerLeaves, Done, TypeOK
<1>6. CASE Collect
  BY <1>6 DEF Collect, Over, ErrorInv, EndInv, Sound, RunnerLeaves, Done, TypeOK
<1>7. CASE ClientLeaves
  BY <1>7 DEF ClientLeaves, ErrorInv, EndInv, Sound, RunnerLeaves, Done, TypeOK
<1>8. CASE AgentCheck
  BY <1>8 DEF AgentCheck, ErrorInv, EndInv, Sound, RunnerLeaves, Done, TypeOK
<1>9. CASE AgentRecv
  <2>1. UNCHANGED <<raw, events, held, runner, ctx, fails, store>> /\ agent = "recv"
    BY <1>9 DEF AgentRecv
  <2>2. CASE next < Len(answer) /\ pend' = Pieces(next + 1) /\ agent' \in {"loop", "send"}
    <3>1. \A i \in DOMAIN pend' : pend'[i] # ErrorEvent
      BY <2>2, PiecesFacts
    <3> QED
      BY <2>1, <2>2, <3>1 DEF ErrorInv, Sound, RunnerLeaves
  <2>3. CASE (fails \/ Done) /\ pend' = <<ErrorEvent>> /\ agent' = "send"
    BY <2>1, <2>3 DEF ErrorInv, Sound, RunnerLeaves, Done
  <2>4. CASE (~fails \/ Done) /\ agent' = "done"
    BY <2>1, <2>4 DEF ErrorInv, Sound, RunnerLeaves, Done
  <2> QED
    BY <1>9, <2>2, <2>3, <2>4 DEF AgentRecv
<1>10. CASE AgentSend
  <2>1. UNCHANGED <<events, held, runner, ctx, fails, store>> /\ agent = "send"
    BY <1>10 DEF AgentSend
  <2>2. raw \in Seq(EventType) /\ pend \in Seq(EventType) /\ pend # <<>>
    BY <2>1 DEF TypeOK, Channel
  <2>3. CASE Done /\ agent' = "done" /\ UNCHANGED <<raw, pend>>
    BY <2>1, <2>3 DEF ErrorInv, Sound, RunnerLeaves, Done
  <2>4. CASE /\ raw' = Append(raw, Head(pend)) /\ pend' = Tail(pend)
             /\ agent' = IF Head(pend) = ErrorEvent THEN "done"
                         ELSE IF pend' = <<>> THEN "loop" ELSE "send"
    <3> DEFINE n == Len(raw)
    <3>1. /\ Head(pend) \in EventType /\ 1 \in DOMAIN pend /\ Head(pend) = pend[1]
          /\ \A i \in DOMAIN pend' : i + 1 \in DOMAIN pend /\ pend'[i] = pend[i + 1]
      BY <2>2, <2>4, TailFacts
    <3>2. /\ Len(raw') = n + 1 /\ DOMAIN raw' = 1..(n + 1) /\ DOMAIN raw = 1..n /\ raw' # <<>>
          /\ \A i \in 1..n : raw'[i] = raw[i]
          /\ raw'[n + 1] = Head(pend)
          /\ \A i \in 1..(n + 1) : i \in 1..n \/ i = n + 1
      BY <2>2, <2>4, <3>1, AppendFacts
    <3>3. \A i \in 1..n : raw[i] # ErrorEvent
      BY <2>1, <3>2 DEF ErrorInv
    <3> HIDE DEF n
    <3>4. CASE Head(pend) = ErrorEvent
      <4>1. ~Sound /\ agent' = "done"
        BY <2>1, <2>4, <3>1, <3>4 DEF ErrorInv
      <4> QED
        BY <2>1, <3>2, <3>3, <3>4, <4>1 DEF ErrorInv, Sound, RunnerLeaves
    <3>5. CASE Head(pend) # ErrorEvent
      <4>1. \A i \in DOMAIN raw' : raw'[i] # ErrorEvent
        BY <3>2, <3>3, <3>5
      <4>2. \A i \in DOMAIN pend : pend[i] # ErrorEvent
        BY <2>1, <3>1, <3>5 DEF ErrorInv
      <4>3. agent' \in {"loop", "send"} /\ \A i \in DOMAIN pend' : pend'[i] # ErrorEvent
        BY <2>4, <3>1, <3>5, <4>2
      <4> QED
        BY <2>1, <4>1, <4>3 DEF ErrorInv, Sound, RunnerLeaves
    <3> QED
      BY <3>4, <3>5
  <2> QED
    BY <1>10, <2>3, <2>4 DEF AgentSend
<1>11. CASE RunnerSelect
  <2>1. UNCHANGED <<events, agent, pend, ctx, fails, store>> /\ runner = "loop"
    BY <1>11 DEF RunnerSelect
  <2>2. CASE runner' = "end" /\ UNCHANGED raw
    BY <2>1, <2>2 DEF ErrorInv, Sound, RunnerLeaves
  <2>3. CASE raw # <<>> /\ held' = Head(raw) /\ raw' = Tail(raw) /\ runner' = "send"
    <3> DEFINE n == Len(raw)
    <3>1. /\ n \in Nat \ {0} /\ DOMAIN raw = 1..n /\ held' = raw[1]
          /\ Len(raw') = n - 1 /\ DOMAIN raw' = 1..(n - 1)
          /\ \A i \in 1..(n - 1) : raw'[i] = raw[i + 1] /\ i + 1 \in 1..n
      BY <2>3, TailFacts DEF TypeOK, Channel
    <3> HIDE DEF n
    <3>2. (n # 1 => raw' # <<>>) /\ 1 \in DOMAIN raw
      <4>1. Len(<<>>) = 0
        OBVIOUS
      <4> QED
        BY <3>1, <4>1
    <3>3. \A i \in DOMAIN raw' :
            raw'[i] = ErrorEvent => i = Len(raw') /\ agent = "done" /\ ~Sound
      BY <3>1 DEF ErrorInv, n
    <3>4. held' = ErrorEvent => ~Sound
      BY <3>1, <3>2 DEF ErrorInv
    <3>5. ASSUME ctx = "live", fails, agent = "done", held' # ErrorEvent
          PROVE  raw' # <<>> /\ raw'[Len(raw')] = ErrorEvent
      <4>1. raw[n] = ErrorEvent
        BY <2>1, <3>5 DEF ErrorInv, RunnerLeaves, n
      <4>2. n # 1
        BY <3>1, <3>5, <4>1
      <4>3. n - 1 \in 1..(n - 1) /\ (n - 1) + 1 = n
        BY <3>1, <4>2
      <4> QED
        BY <3>1, <3>2, <4>1, <4>2, <4>3
    <3> QED
      BY <2>1, <2>3, <3>3, <3>4, <3>5 DEF ErrorInv, Sound, RunnerLeaves
  <2>4. CASE /\ agent = "done" /\ held' = ErrorEvent /\ UNCHANGED raw
             /\ runner' = IF store = "fails" THEN "send" ELSE "end"
    BY <2>1, <2>4 DEF ErrorInv, Sound, RunnerLeaves
  <2> QED
    BY <1>11, <2>2, <2>3, <2>4 DEF RunnerSelect
<1>12. CASE RunnerSend
  <2>1. UNCHANGED <<raw, agent, pend, held, ctx, fails, store>> /\ runner = "send"
    BY <1>12 DEF RunnerSend
  <2>2. CASE Done /\ runner' = "end" /\ UNCHANGED events
    BY <2>1, <2>2 DEF ErrorInv, Sound, RunnerLeaves, Done
  <2>3. CASE /\ events' = Append(events, held)
             /\ runner' = IF held = ErrorEvent THEN "end" ELSE "loop"
    <3> DEFINE n == Len(events)
    <3>1. /\ Len(events') = n + 1 /\ DOMAIN events' = 1..(n + 1) /\ DOMAIN events = 1..n
          /\ \A i \in 1..n : events'[i] = events[i]
          /\ events'[n + 1] = held
          /\ \A i \in 1..(n + 1) : i \in 1..n \/ i = n + 1
      BY <2>3, AppendFacts DEF TypeOK, Channel
    <3>2. \A i \in 1..n : events[i] # ErrorEvent
      BY <2>1, <3>1 DEF ErrorInv
    <3> HIDE DEF n
    <3>3. \A i \in DOMAIN events' : events'[i] = ErrorEvent =>
            i = Len(events') /\ runner' = "end" /\ (Sound => store = "fails")
      BY <2>1, <2>3, <3>1, <3>2 DEF ErrorInv
    <3> QED
      BY <2>1, <2>3, <3>3 DEF ErrorInv, Sound, RunnerLeaves
  <2> QED
    BY <1>12, <2>2, <2>3 DEF RunnerSend
<1>13. CASE RunnerEnd
  BY <1>13 DEF RunnerEnd, ErrorInv, EndInv, Sound, RunnerLeaves, Done, TypeOK
<1>14. CASE AdapterSelect
  <2>1. UNCHANGED <<raw, agent, pend, runner, held, ctx, fails, store>>
    BY <1>14 DEF AdapterSelect
  <2>2. CASE UNCHANGED events
    BY <2>1, <2>2 DEF ErrorInv, Sound, RunnerLeaves
  <2>3. CASE events # <<>> /\ events' = Tail(events)
    <3> DEFINE n == Len(events)
    <3>1. /\ n \in Nat \ {0} /\ DOMAIN events = 1..n
          /\ Len(events') = n - 1 /\ DOMAIN events' = 1..(n - 1)
          /\ \A i \in 1..(n - 1) : events'[i] = events[i + 1] /\ i + 1 \in 1..n
      BY <2>3, TailFacts DEF TypeOK, Channel
    <3> HIDE DEF n
    <3>2. \A i \in DOMAIN events' : events'[i] = ErrorEvent =>
            i = Len(events') /\ runner \in {"end", "done"} /\ (Sound => store = "fails")
      <4> SUFFICES ASSUME NEW i \in 1..(n - 1), events'[i] = ErrorEvent
                   PROVE  i = n - 1 /\ runner \in {"end", "done"} /\ (Sound => store = "fails")
        BY <3>1
      <4>1. i + 1 \in DOMAIN events /\ events[i + 1] = ErrorEvent
        BY <3>1
      <4>2. i + 1 = n /\ runner \in {"end", "done"} /\ (Sound => store = "fails")
        BY <4>1 DEF ErrorInv, n
      <4> QED
        BY <3>1, <4>2
    <3> QED
      BY <2>1, <3>2 DEF ErrorInv, Sound, RunnerLeaves
  <2> QED
    BY <1>14, <2>2, <2>3 DEF AdapterSelect
<1>15. CASE AdapterSend
  BY <1>15 DEF AdapterSend, ErrorInv, EndInv, Sound, RunnerLeaves, Done, TypeOK
<1>16. CASE UNCHANGED vars
  BY <1>16 DEF vars, ErrorInv, EndInv, Sound, RunnerLeaves, Done, TypeOK
<1> QED
  BY <1>1, <1>2, <1>3, <1>4, <1>5, <1>6, <1>7, <1>8, <1>9, <1>10, <1>11,
     <1>12, <1>13, <1>14, <1>15, <1>16
     DEF Next, Handler, Agent, Runner, Adapter

-----------------------------------------------------------------------------
(* Every step moves the cuts of the flow on, and leaves it whole.           *)
LEMMA FlowStep == TypeOK /\ TypeOK' /\ EndInv /\ ErrorInv /\ FlowInv /\ [Next]_vars => FlowInv'
<1> SUFFICES ASSUME TypeOK, TypeOK', EndInv, ErrorInv, FlowInv, [Next]_vars, kind # "chat"
             PROVE  FlowInv'
  <2>1. [Next]_vars => kind' = kind
    BY DEF Next, Handler, Agent, Runner, Adapter, Refuse, Begin, HandlerLoop, HandlerRecv,
       HandlerStore, Collect, ClientLeaves, AgentCheck, AgentRecv, AgentSend, RunnerSelect,
       RunnerSend, RunnerEnd, AdapterSelect, AdapterSend, config, vars
  <2> QED
    BY <2>1 DEF FlowInv
<1> USE DEF config, agentVars, runnerVars, adapterVars
<1>0. PICK g \in 0..next, p \in 0..next, t \in 0..next, e \in 0..next, h \in 0..next,
           r \in 0..next : Flow(g, p, t, e, h, r) /\ Whole(g, p, e, h, r)
  BY DEF FlowInv
<1>n. /\ next \in Nat /\ Len(answer) \in Nat /\ next <= Len(answer)
      /\ g \in Nat /\ p \in Nat /\ t \in Nat /\ e \in Nat /\ h \in Nat /\ r \in Nat /\ r <= next
      /\ g <= p /\ p <= t /\ t <= e /\ e <= h /\ h <= r
  BY <1>0 DEF Flow, TypeOK
<1>w. ASSUME NEW g2 \in 0..next', NEW p2 \in 0..next', NEW t2 \in 0..next', NEW e2 \in 0..next',
             NEW h2 \in 0..next', NEW r2 \in 0..next',
             Flow(g2, p2, t2, e2, h2, r2)', Whole(g2, p2, e2, h2, r2)'
      PROVE  FlowInv'
  BY <1>w DEF FlowInv
<1>c. /\ raw \in Seq(EventType) /\ events \in Seq(EventType) /\ pipe \in Seq(EventType)
      /\ got \in Seq(1..MaxMsgs) /\ content \in Seq(1..MaxMsgs)
      /\ held \in EventType /\ taken \in EventType
  BY DEF TypeOK, Channel
<1>v. ASSUME NEW lo \in Nat
      PROVE  TextMsgs(answer, lo, lo) = {} /\ Holds(answer, ErrorEvent, lo, lo)
  BY DEF TextMsgs, Holds, ErrorEvent, Event
<1>1. CASE Refuse
  <2>1. Flow(g, p, t, e, h, r)' /\ Whole(g, p, e, h, r)'
    BY <1>0, <1>1 DEF Refuse, Over, Flow, Whole, Sound, RunnerLeaves, EndInv
  <2> QED
    BY <1>1, <1>w, <2>1 DEF Refuse
<1>2. CASE Begin
  <2>1. Flow(g, p, t, e, h, r)' /\ Whole(g, p, e, h, r)'
    BY <1>0, <1>2 DEF Begin, Flow, Whole, Sound, RunnerLeaves, EndInv
  <2> QED
    BY <1>2, <1>w, <2>1 DEF Begin
<1>3. CASE HandlerLoop
  <2>1. Flow(g, p, t, e, h, r)' /\ Whole(g, p, e, h, r)'
    BY <1>0, <1>3 DEF HandlerLoop, Flow, Whole, Sound, RunnerLeaves
  <2> QED
    BY <1>3, <1>w, <2>1 DEF HandlerLoop
<1>4. CASE HandlerRecv
  <2>0. UNCHANGED <<config, ctx, agentVars, runnerVars, adapter, taken>> /\ handler = "recv"
    BY <1>4 DEF HandlerRecv
  <2>1. CASE pipe # <<>> /\ pipe' = Tail(pipe) /\ handler' = "loop"
             /\ got' = IF Head(pipe).type = "text" THEN Append(got, Head(pipe).msg) ELSE got
    <3>1. PICK mid \in g..p :
            Holds(answer, Head(pipe), g, mid) /\ Carries(answer, Tail(pipe), mid, p)
      BY <1>0, <1>c, <1>n, <2>1, TakeFacts DEF Flow
    <3>2. Head(pipe) \in EventType /\ mid \in Nat /\ g <= mid /\ mid <= p
      BY <1>c, <1>n, <2>1, TailFacts
    <3>3. Collected(answer, got', mid)
      BY <1>0, <1>c, <1>n, <2>1, <3>1, <3>2, CollectFacts DEF Flow
    <3>4. Flow(mid, p, t, e, h, r)' /\ Whole(mid, p, e, h, r)'
      BY <1>0, <2>0, <2>1, <3>1, <3>2, <3>3 DEF Flow, Whole, Sound, RunnerLeaves
    <3>5. mid \in 0..next
      BY <1>n, <3>2
    <3> QED
      BY <1>w, <2>0, <3>4, <3>5
  <2>2. CASE pipe = <<>> /\ adapter = "done" /\ handler' = "finish" /\ UNCHANGED <<got,
                                                                                   pipe>>
    <3>1. TextMsgs(answer, g, p) = {}
      BY <1>0, <2>2, EmptyFacts DEF Flow
    <3>2. Collected(answer, got, p)
      BY <1>0, <1>n, <3>1, NoTextFacts DEF Flow
    <3>3. Carries(answer, pipe, p, p)
      BY <1>n, <1>v, <2>2, EmptyFacts
    <3>4. Flow(p, p, t, e, h, r)' /\ Whole(p, p, e, h, r)'
      BY <1>0, <1>n, <2>0, <2>2, <3>2, <3>3 DEF Flow, Whole, Sound, RunnerLeaves
    <3> QED
      BY <1>w, <2>0, <3>4
  <2> QED
    BY <1>4, <2>1, <2>2 DEF HandlerRecv
<1>5. CASE HandlerStore
  <2>1. ctx # "over"
    BY <1>5 DEF HandlerStore, EndInv
  <2>2. Flow(g, p, t, e, h, r)' /\ Whole(g, p, e, h, r)'
    BY <1>0, <1>5, <2>1 DEF HandlerStore, Over, Flow, Whole, Sound, RunnerLeaves, TypeOK
  <2> QED
    BY <1>5, <1>w, <2>2 DEF HandlerStore
<1>6. CASE Collect
  BY <1>6 DEF Collect, EndInv
<1>7. CASE ClientLeaves
  <2>1. Flow(g, p, t, e, h, r)' /\ Whole(g, p, e, h, r)'
    BY <1>0, <1>7 DEF ClientLeaves, Flow, Whole, Sound, RunnerLeaves
  <2> QED
    BY <1>7, <1>w, <2>1 DEF ClientLeaves
<1>8. CASE AgentCheck
  <2>1. Flow(g, p, t, e, h, r)' /\ Whole(g, p, e, h, r)'
    BY <1>0, <1>8 DEF AgentCheck, Flow, Whole, Sound, RunnerLeaves, Done
  <2> QED
    BY <1>8, <1>w, <2>1 DEF AgentCheck
<1>9. CASE AgentRecv
  <2>0. /\ UNCHANGED <<config, ctx, handler, got, raw, runnerVars, adapterVars>>
        /\ agent = "recv" /\ r = next
    BY <1>0, <1>9 DEF AgentRecv, Flow
  <2>1. CASE next < Len(answer) /\ next' = next + 1 /\ pend' = Pieces(next + 1)
             /\ agent' = IF pend' = <<>> THEN "loop" ELSE "send"
    <3>0. PICK m \in Nat : m = next + 1
      BY <1>n
    <3>1. Carries(answer, pend', r, m) /\ next' = m
      BY <2>0, <2>1, <3>0, PiecesFacts
    <3>2. /\ r <= m /\ h <= m
          /\ m \in 0..m /\ g \in 0..m /\ p \in 0..m /\ t \in 0..m
          /\ e \in 0..m /\ h \in 0..m /\ r \in 0..m
      BY <1>n, <3>0
    <3>3. CASE pend' = <<>>
      <4>1. TextMsgs(answer, r, m) = {}
        BY <3>1, <3>3, EmptyFacts
      <4>2. Carries(answer, raw, h, r) => Carries(answer, raw, h, m)
        BY <1>n, <3>2, <4>1, NoTextFacts
      <4>3. Flow(g, p, t, e, h, m)' /\ Whole(g, p, e, h, m)'
        BY <1>0, <2>0, <2>1, <3>1, <3>2, <3>3, <4>2 DEF Flow, Whole, Sound, RunnerLeaves
      <4> QED
        BY <1>w, <3>1, <3>2, <4>3
    <3>4. CASE pend' # <<>>
      <4>1. Flow(g, p, t, e, h, r)' /\ Whole(g, p, e, h, r)'
        BY <1>0, <2>0, <2>1, <3>1, <3>4 DEF Flow, Whole, Sound, RunnerLeaves
      <4> QED
        BY <1>w, <3>1, <3>2, <4>1
    <3> QED
      BY <3>3, <3>4
  <2>2. CASE pend' = <<ErrorEvent>> /\ agent' = "send" /\ UNCHANGED next
    <3>1. Carries(answer, pend', r, next)
      BY <1>n, <1>v, <2>0, <2>2, EmptyFacts
    <3>2. Flow(g, p, t, e, h, r)' /\ Whole(g, p, e, h, r)'
      BY <1>0, <2>0, <2>2, <3>1 DEF Flow, Whole, Sound, RunnerLeaves
    <3> QED
      BY <1>w, <2>2, <3>2
  <2>3. CASE /\ (next = Len(answer) /\ ~fails) \/ Done
             /\ agent' = "done" /\ UNCHANGED <<next, pend>>
    <3>1. Flow(g, p, t, e, h, r)' /\ Whole(g, p, e, h, r)'
      BY <1>0, <2>0, <2>3 DEF Flow, Whole, Sound, RunnerLeaves, Done
    <3> QED
      BY <1>w, <2>3, <3>1
  <2> QED
    BY <1>9, <2>1, <2>2, <2>3 DEF AgentRecv
<1>10. CASE AgentSend
  <2>0. /\ UNCHANGED <<config, ctx, handler, got, next, runnerVars, adapterVars>>
        /\ agent = "send" /\ Carries(answer, pend, r, next)
        /\ pend \in Seq(EventType) /\ pend # <<>>
    BY <1>0, <1>10 DEF AgentSend, Flow, TypeOK
  <2>1. CASE /\ raw' = Append(raw, Head(pend)) /\ pend' = Tail(pend)
             /\ agent' = IF Head(pend) = ErrorEvent THEN "done"
                         ELSE IF pend' = <<>> THEN "loop" ELSE "send"
    <3>1. PICK mid \in r..next :
            Holds(answer, Head(pend), r, mid) /\ Carries(answer, Tail(pend), mid, next)
      BY <1>n, <2>0, TakeFacts
    <3>2. /\ Head(pend) \in EventType /\ Head(pend) = pend[1] /\ 1 \in DOMAIN pend
          /\ mid \in Nat /\ r <= mid /\ mid <= next /\ h <= mid /\ mid \in 0..next
      BY <1>n, <2>0, TailFacts
    <3>3. Carries(answer, raw, h, r) => Carries(answer, raw', h, mid)
      BY <1>c, <1>n, <2>1, <3>1, <3>2, PutFacts
    <3>4. CASE agent' = "loop"
      <4>0. PICK m \in 0..next : m = next
        BY <1>n
      <4>1. TextMsgs(answer, mid, m) = {}
        BY <2>1, <3>1, <3>4, <4>0, EmptyFacts
      <4>2. Carries(answer, raw', h, mid) => Carries(answer, raw', h, m)
        BY <1>n, <3>2, <4>0, <4>1, NoTextFacts
      <4>3. Flow(g, p, t, e, h, m)' /\ Whole(g, p, e, h, m)'
        BY <1>0, <1>n, <2>0, <3>3, <3>4, <4>0, <4>2 DEF Flow, Whole, Sound, RunnerLeaves
      <4> QED
        BY <1>w, <2>0, <4>3
    <3>5. CASE agent' = "send"
      <4>1. Flow(g, p, t, e, h, mid)' /\ Whole(g, p, e, h, mid)'
        BY <1>0, <1>n, <2>0, <2>1, <3>1, <3>2, <3>3, <3>5
           DEF Flow, Whole, Sound, RunnerLeaves
      <4> QED
        BY <1>w, <2>0, <3>2, <4>1
    <3>6. CASE agent' = "done"
      <4>1. ~Sound
        BY <2>0, <2>1, <3>2, <3>6 DEF ErrorInv
      <4>2. Flow(g, p, t, e, h, mid)' /\ Whole(g, p, e, h, mid)'
        BY <1>0, <1>n, <2>0, <3>2, <3>3, <3>6, <4>1 DEF Flow, Whole, Sound, RunnerLeaves
      <4> QED
        BY <1>w, <2>0, <3>2, <4>2
    <3> QED
      BY <2>1, <3>4, <3>5, <3>6
  <2>2. CASE Done /\ agent' = "done" /\ UNCHANGED <<raw, pend>>
    <3>1. Flow(g, p, t, e, h, r)' /\ Whole(g, p, e, h, r)'
      BY <1>0, <2>0, <2>2 DEF Flow, Whole, Sound, RunnerLeaves, Done
    <3> QED
      BY <1>w, <2>0, <3>1
  <2> QED
    BY <1>10, <2>1, <2>2 DEF AgentSend
<1>11. CASE RunnerSelect
  <2>0. /\ UNCHANGED <<config, ctx, handler, got, agent, next, pend, events, adapterVars>>
        /\ runner = "loop" /\ h = e /\ Carries(answer, raw, h, r) /\ ~recorded /\ ctx # "over"
    BY <1>0, <1>11 DEF RunnerSelect, Flow, EndInv
  <2>1. CASE Done /\ runner' = "end" /\ UNCHANGED <<held, content, raw, recorded,
                                                    published>>
    <3>1. Flow(g, p, t, e, h, r)' /\ Whole(g, p, e, h, r)'
      BY <1>0, <2>0, <2>1 DEF Flow, Whole, Sound, RunnerLeaves, Done
    <3> QED
      BY <1>w, <2>0, <3>1
  <2>2. CASE /\ raw # <<>> /\ held' = Head(raw) /\ raw' = Tail(raw) /\ runner' = "send"
             /\ content' = IF held'.type = "text" THEN Append(content, held'.msg) ELSE content
             /\ UNCHANGED <<recorded, published>>
    <3>1. PICK mid \in h..r : Holds(answer, held', h, mid) /\ Carries(answer, raw', mid, r)
      BY <1>c, <1>n, <2>0, <2>2, TakeFacts
    <3>2. /\ held' \in EventType /\ held' = raw[1] /\ 1 \in DOMAIN raw
          /\ mid \in Nat /\ h <= mid /\ mid <= r /\ mid \in 0..next
      BY <1>c, <1>n, <2>2, TailFacts
    <3>3. Collected(answer, content', mid)
      BY <1>0, <1>c, <1>n, <2>2, <3>1, <3>2, CollectFacts DEF Flow
    <3>4. held' = ErrorEvent => ~Sound
      BY <3>2 DEF ErrorInv
    <3>5. Flow(g, p, t, e, mid, r)' /\ Whole(g, p, e, mid, r)'
      BY <1>0, <1>n, <2>0, <2>2, <3>1, <3>2, <3>3, <3>4 DEF Flow, Whole, Sound, RunnerLeaves
    <3> QED
      BY <1>w, <2>0, <3>2, <3>5
  <2>3. CASE /\ raw = <<>> /\ agent = "done" /\ held' = ErrorEvent /\ UNCHANGED <<content, raw>>
             /\ runner' \in {"send", "end"} /\ recorded' = (store = "works")
    <3>1. TextMsgs(answer, h, r) = {}
      BY <2>0, <2>3, EmptyFacts
    <3>2. /\ Collected(answer, content, r)
          /\ Carries(answer, events, t, e) => Carries(answer, events, t, r)
      BY <1>0, <1>n, <2>0, <3>1, NoTextFacts DEF Flow
    <3>3. Carries(answer, raw, r, r) /\ Holds(answer, ErrorEvent, r, r)
      BY <1>n, <1>v, <2>3, EmptyFacts
    <3>4. ctx = "live" => Sound /\ r = Len(answer)
      BY <1>0, <2>0, <2>3 DEF ErrorInv, RunnerLeaves, Whole, Sound
    <3>5. ctx # "live" => ctx = "gone"
      BY <2>0 DEF TypeOK
    <3>6. Flow(g, p, t, r, r, r)' /\ Whole(g, p, r, r, r)'
      BY <1>0, <1>n, <2>0, <2>3, <3>2, <3>3, <3>4, <3>5 DEF Flow, Whole, Sound, RunnerLeaves
    <3> QED
      BY <1>w, <2>0, <3>6
  <2> QED
    BY <1>11, <2>1, <2>2, <2>3 DEF RunnerSelect
<1>12. CASE RunnerSend
  <2>0. /\ UNCHANGED <<config, ctx, handler, got, agentVars, held, content, recorded,
                       published, adapterVars>>
        /\ runner = "send" /\ Holds(answer, held, e, h)
    BY <1>0, <1>12 DEF RunnerSend, Flow
  <2>1. CASE /\ events' = Append(events, held)
             /\ runner' = IF held = ErrorEvent THEN "end" ELSE "loop"
    <3>1. Carries(answer, events, t, e) => Carries(answer, events', t, h)
      BY <1>c, <1>n, <2>0, <2>1, PutFacts
    <3>2. Flow(g, p, t, h, h, r)' /\ Whole(g, p, h, h, r)'
      BY <1>0, <1>n, <2>0, <2>1, <3>1 DEF Flow, Whole, Sound, RunnerLeaves
    <3> QED
      BY <1>w, <2>0, <3>2
  <2>2. CASE Done /\ runner' = "end" /\ UNCHANGED events
    <3>1. Flow(g, p, t, e, h, r)' /\ Whole(g, p, e, h, r)'
      BY <1>0, <2>0, <2>2 DEF Flow, Whole, Sound, RunnerLeaves, Done
    <3> QED
      BY <1>w, <2>0, <3>1
  <2> QED
    BY <1>12, <2>1, <2>2 DEF RunnerSend
<1>13. CASE RunnerEnd
  <2>1. Flow(g, p, t, e, h, r)' /\ Whole(g, p, e, h, r)'
    BY <1>0, <1>13 DEF RunnerEnd, Flow, Whole, Sound, RunnerLeaves
  <2> QED
    BY <1>13, <1>w, <2>1 DEF RunnerEnd
<1>14. CASE AdapterSelect
  <2>0. /\ UNCHANGED <<config, ctx, handler, got, agentVars, runner, held, content,
                       recorded, pipe>>
        /\ adapter = "loop" /\ t = p /\ Carries(answer, events, t, e)
    BY <1>0, <1>14 DEF AdapterSelect, Flow
  <2>1. ASSUME adapter' = "done", TextMsgs(answer, t, e) = {}, RunnerLeaves PROVE FlowInv'
    <3>1. Carries(answer, pipe, g, e)
      BY <1>0, <1>n, <2>0, <2>1, NoTextFacts DEF Flow
    <3>2. Flow(g, e, e, e, h, r)' /\ Whole(g, e, e, h, r)'
      BY <1>0, <1>n, <2>0, <2>1, <3>1 DEF Flow, Whole, Sound, RunnerLeaves
    <3> QED
      BY <1>w, <2>0, <3>2
  <2>2. CASE Done /\ adapter' = "done" /\ UNCHANGED <<taken, events>>
    <3>1. Flow(g, p, t, e, h, r)' /\ Whole(g, p, e, h, r)'
      BY <1>0, <2>0, <2>2 DEF Flow, Whole, Sound, RunnerLeaves, Done
    <3> QED
      BY <1>w, <2>0, <3>1
  <2>3. CASE events = <<>> /\ runner = "done" /\ adapter' = "done"
    <3>1. TextMsgs(answer, t, e) = {}
      BY <2>0, <2>3, EmptyFacts
    <3> QED
      BY <2>1, <2>3, <3>1 DEF RunnerLeaves
  <2>4. CASE events # <<>> /\ Head(events) = ErrorEvent /\ adapter' = "done"
    <3>1. /\ 1 \in DOMAIN events /\ events[1] = ErrorEvent /\ DOMAIN events = 1..Len(events)
      BY <1>c, <2>4, TailFacts
    <3>2. Len(events) = 1 /\ RunnerLeaves
      BY <3>1 DEF ErrorInv, RunnerLeaves
    <3>3. TextIn(events) = {}
      BY <3>1, <3>2 DEF TextIn, ErrorEvent, Event
    <3> QED
      BY <2>0, <2>1, <2>4, <3>2, <3>3 DEF Carries
  <2>5. CASE /\ events # <<>> /\ taken' = Head(events) /\ events' = Tail(events)
             /\ adapter' = "send"
    <3>1. PICK mid \in t..e : Holds(answer, taken', t, mid) /\ Carries(answer, events', mid, e)
      BY <1>c, <1>n, <2>0, <2>5, TakeFacts
    <3>2. mid \in Nat /\ t <= mid /\ mid <= e /\ mid \in 0..next
      BY <1>n
    <3>3. Flow(g, p, mid, e, h, r)' /\ Whole(g, p, e, h, r)'
      BY <1>0, <1>n, <2>0, <2>5, <3>1, <3>2 DEF Flow, Whole, Sound, RunnerLeaves
    <3> QED
      BY <1>w, <2>0, <3>2, <3>3
  <2> QED
    BY <1>14, <2>2, <2>3, <2>4, <2>5 DEF AdapterSelect
<1>15. CASE AdapterSend
  <2>0. /\ UNCHANGED <<config, ctx, handler, got, agentVars, runnerVars, taken>>
        /\ adapter = "send" /\ Holds(answer, taken, p, t)
    BY <1>0, <1>15 DEF AdapterSend, Flow
  <2>1. CASE handler \in {"stored", "failed"} /\ adapter' = "done" /\ UNCHANGED pipe
    <3>1. ~Sound
      BY <2>1 DEF EndInv, Sound
    <3>2. Flow(g, p, t, e, h, r)' /\ Whole(g, p, e, h, r)'
      BY <1>0, <2>0, <2>1, <3>1 DEF Flow, Whole, Sound, RunnerLeaves
    <3> QED
      BY <1>w, <2>0, <3>2
  <2>2. CASE pipe' = Append(pipe, taken) /\ adapter' = "loop"
    <3>1. Carries(answer, pipe', g, t)
      BY <1>0, <1>c, <1>n, <2>0, <2>2, PutFacts DEF Flow
    <3>2. Flow(g, t, t, e, h, r)' /\ Whole(g, t, e, h, r)'
      BY <1>0, <1>n, <2>0, <2>2, <3>1 DEF Flow, Whole, Sound, RunnerLeaves
    <3> QED
      BY <1>w, <2>0, <3>2
  <2> QED
    BY <1>15, <2>1, <2>2 DEF AdapterSend
<1>16. CASE UNCHANGED vars
  <2>1. Flow(g, p, t, e, h, r)' /\ Whole(g, p, e, h, r)'
    BY <1>0, <1>16 DEF vars, Flow, Whole, Sound, RunnerLeaves
  <2> QED
    BY <1>16, <1>w, <2>1 DEF vars
<1> QED
  BY <1>1, <1>2, <1>3, <1>4, <1>5, <1>6, <1>7, <1>8, <1>9, <1>10, <1>11,
     <1>12, <1>13, <1>14, <1>15, <1>16
     DEF Next, Handler, Agent, Runner, Adapter

-----------------------------------------------------------------------------
(* Runner.Run collects the texts one by one and records them only when the  *)
(* model has ended without an error.                                        *)
LEMMA ChatStep == TypeOK /\ EndInv /\ ChatInv /\ [Next]_vars => ChatInv'
<1> SUFFICES ASSUME TypeOK, EndInv, ChatInv, [Next]_vars, kind = "chat" PROVE ChatInv'
  <2>1. [Next]_vars => kind' = kind
    BY DEF Next, Handler, Agent, Runner, Adapter, Refuse, Begin, HandlerLoop, HandlerRecv,
       HandlerStore, Collect, ClientLeaves, AgentCheck, AgentRecv, AgentSend, RunnerSelect,
       RunnerSend, RunnerEnd, AdapterSelect, AdapterSend, config, vars
  <2> QED
    BY <2>1 DEF ChatInv
<1> USE DEF config, agentVars, runnerVars, adapterVars
<1>0. /\ agent = "none" /\ runner = "none" /\ adapter = "none"
      /\ handler \in {"new", "collect", "stored", "failed"}
  BY DEF EndInv
<1>1. CASE Refuse
  BY <1>1 DEF Refuse, ChatInv
<1>2. CASE Begin
  BY <1>2 DEF Begin, ChatInv
<1>3. CASE ClientLeaves
  BY <1>3 DEF ClientLeaves, ChatInv, Texts
<1>4. CASE Collect
  <2>0. handler = "collect" /\ ~recorded /\ ctx # "over" /\ UNCHANGED config
    BY <1>4 DEF Collect, ChatInv, EndInv
  <2>1. CASE /\ next < Len(answer) /\ next' = next + 1 /\ content' = content \o Texts(next + 1)
             /\ UNCHANGED <<handler, ctx, got, recorded, published>>
    <3> DEFINE n == next + 1
               T == Event("text", n)
    <3>1. /\ n \in Nat /\ next \in Nat /\ next <= n /\ n \in 1..MaxMsgs
          /\ T \in EventType /\ T.type = "text" /\ T.msg = n /\ next <= next
      BY <2>1, PipelineAssumption DEF TypeOK, EventType, Event
    <3>2. TextMsgs(answer, next, n) = IF "text" \in answer[n] THEN {n} ELSE {}
      BY <3>1 DEF TextMsgs
    <3>3. Texts(n) = IF "text" \in answer[n] THEN <<n>> ELSE <<>>
      BY <3>1 DEF Texts
    <3>4. content \in Seq(1..MaxMsgs) /\ Collected(answer, content, next)
      BY DEF TypeOK, ChatInv
    <3> HIDE DEF n, T
    <3>5. CASE "text" \in answer[n]
      <4>1. content' = Append(content, T.msg)
        BY <2>1, <3>1, <3>3, <3>4, <3>5, AppendIsConcat DEF n
      <4>2. Holds(answer, T, next, n)
        BY <3>1, <3>2, <3>5 DEF Holds
      <4> QED
        BY <2>0, <2>1, <3>1, <3>4, <4>1, <4>2, CollectFacts DEF ChatInv, n
    <3>6. CASE "text" \notin answer[n]
      <4>1. content' = content
        BY <2>1, <3>3, <3>4, <3>6, ConcatEmptySeq DEF n
      <4>2. Collected(answer, content, n)
        BY <3>1, <3>2, <3>4, <3>6, NoTextFacts
      <4> QED
        BY <2>0, <2>1, <4>1, <4>2 DEF ChatInv, n
    <3> QED
      BY <3>5, <3>6
  <2>2. CASE /\ next = Len(answer) \/ Done
             /\ ctx' = Over /\ UNCHANGED <<next, content>>
             /\ \E err \in (IF Done THEN BOOLEAN ELSE {fails}), refused \in BOOLEAN :
                IF ~err /\ next > 0 /\ ~refused /\ store # "fails"
                THEN /\ handler' = "stored" /\ got' = Texts(next)
                     /\ recorded' = (store = "works")
                     /\ published' = published \cup {"AgentEnd"}
                ELSE /\ handler' = "failed"
                     /\ published' = published \cup {"Error"}
                     /\ UNCHANGED <<got, recorded>>
    <3>1. ctx' # "gone" => ~Done /\ next = Len(answer)
      BY <2>0, <2>2 DEF Over, Done, TypeOK
    <3>2. CASE /\ handler' = "stored" /\ got' = Texts(next) /\ recorded' = (store = "works")
               /\ published' = published \cup {"AgentEnd"} /\ (~Done => ~fails)
      <4>1. Texts(Len(answer))' = Texts(Len(answer))
        BY <2>0 DEF Texts
      <4>2. Collected(answer, content, next)' <=> Collected(answer, content, next)
        BY <2>0, <2>2
      <4> QED
        BY <2>0, <2>2, <3>1, <3>2, <4>1, <4>2 DEF ChatInv
    <3>3. CASE handler' = "failed" /\ UNCHANGED recorded
      BY <2>0, <2>2, <3>3 DEF ChatInv
    <3> QED
      BY <2>2, <3>2, <3>3 DEF TypeOK
  <2> QED
    BY <1>4, <2>1, <2>2 DEF Collect
<1>5. CASE UNCHANGED vars
  BY <1>5 DEF vars, ChatInv, Texts
<1> QED
  BY <1>0, <1>1, <1>2, <1>3, <1>4, <1>5
     DEF Next, Handler, Agent, Runner, Adapter, HandlerLoop,
     HandlerRecv, HandlerStore, AgentCheck, AgentRecv, AgentSend, RunnerSelect, RunnerSend,
     RunnerEnd, AdapterSelect, AdapterSend

-----------------------------------------------------------------------------
(* The inductive invariant.  ErrorInv and EndInv need each other, FlowInv   *)
(* both of them.                                                            *)
PipelineInv == TypeOK /\ ErrorInv /\ EndInv /\ FlowInv /\ ChatInv

(* A request that has not begun has no text anywhere.                       *)
LEMMA PipelineStart == Init => PipelineInv
<1> SUFFICES ASSUME Init PROVE PipelineInv
  OBVIOUS
<1>1. PICK n \in 0..MaxMsgs : answer \in [1..n -> SUBSET {"text", "reasoning"}]
  BY DEF Init
<1>2. n \in Nat /\ n <= MaxMsgs
  BY PipelineAssumption
<1>3. answer \in Seq(SUBSET {"text", "reasoning"}) /\ Len(answer) = n
  BY <1>1, <1>2
<1>4. /\ raw = <<>> /\ events = <<>> /\ pipe = <<>> /\ got = <<>> /\ content = <<>>
      /\ next = 0 /\ handler = "new" /\ agent = "none" /\ runner = "none" /\ adapter = "none"
      /\ ctx = "live" /\ recorded = FALSE /\ published = {}
      /\ held = ErrorEvent /\ taken = ErrorEvent
  BY DEF Init
<1>5. TypeOK
  <2>1. Channel(raw) /\ Channel(events) /\ Channel(pipe)
    BY <1>4, PipelineAssumption DEF Channel
  <2>2. next \in 0..Len(answer)
    BY <1>2, <1>3, <1>4
  <2>3. held \in EventType /\ taken \in EventType
    BY <1>4 DEF EventType
  <2>4. fails \in BOOLEAN /\ recorded \in BOOLEAN
    BY <1>4, Zenon DEF Init
  <2>5. got \in Seq(1..MaxMsgs) /\ content \in Seq(1..MaxMsgs)
    BY <1>4
  <2>6. Len(answer) <= MaxMsgs
    BY <1>2, <1>3
  <2>7. kind \in {"chat", "stream", "vision"} /\ store \in {"none", "works", "fails"}
    BY DEF Init
  <2> QED
    BY <1>3, <1>4, <2>1, <2>2, <2>3, <2>4, <2>5, <2>6, <2>7, Zenon DEF TypeOK
<1>6. ErrorInv /\ EndInv
  BY <1>4 DEF ErrorInv, EndInv
<1>7. TextMsgs(answer, 0, 0) = {}
  BY DEF TextMsgs
<1>8. Flow(0, 0, 0, 0, 0, 0)
  BY <1>4, <1>7, EmptyFacts DEF Flow
<1>9. Whole(0, 0, 0, 0, 0)
  BY <1>4 DEF Whole, RunnerLeaves
<1>10. FlowInv
  BY <1>4, <1>8, <1>9 DEF FlowInv
<1>11. ChatInv
  BY <1>4, EmptyFacts DEF ChatInv
<1> QED
  BY <1>5, <1>6, <1>10, <1>11 DEF PipelineInv

(* The invariant holds of every request.                                    *)
LEMMA PipelineAlways == Spec => []PipelineInv
<1>1. PipelineInv /\ [Next]_vars => PipelineInv'
  BY TypeStep, EndStep, ErrorStep, FlowStep, ChatStep DEF PipelineInv
<1> QED
  BY <1>1, PipelineStart, PTL DEF Spec

(* The collected texts are the ones the properties speak of.                *)
LEMMA CollectedTexts == \A c, n : Collected(answer, c, n) <=> TextsUpTo(c, n)
<1>1. ASSUME NEW n PROVE TextMsgs(answer, 0, n) = {m \in 1..n : "text" \in answer[m]}
  BY DEF TextMsgs
<1> QED
  BY <1>1 DEF Collected, TextsUpTo

(* Every channel keeps within its room and every goroutine within its       *)
(* steps, for any Cap and any length of the answer.                         *)
THEOREM PipelineTypeOK == Spec => []TypeOK
<1>1. PipelineInv => TypeOK
  BY DEF PipelineInv
<1> QED
  BY <1>1, PipelineAlways, PTL

(* HandleChat, HandleChatStream and processVisionStream store texts of the  *)
(* answer without a gap and without a repetition, and the whole answer      *)
(* unless the client left or the model failed.                              *)
THEOREM PipelineStoredTurn == Spec => []StoredTurn
<1>1. PipelineInv => StoredTurn
  <2> SUFFICES ASSUME PipelineInv, handler = "stored" PROVE StoredTurn
    BY DEF StoredTurn
  <2>1. CASE kind = "chat"
    BY <2>1 DEF PipelineInv, ChatInv, StoredTurn
  <2>2. CASE kind # "chat"
    <3>1. PICK g \in 0..next : /\ Collected(answer, got, g)
                               /\ ctx # "gone" /\ ~fails => g = Len(answer)
      BY <2>2 DEF PipelineInv, FlowInv, Flow, Whole
    <3>2. g \in 0..Len(answer)
      BY DEF PipelineInv, TypeOK
    <3>3. TextsUpTo(got, g)
      BY <3>1, CollectedTexts
    <3> QED
      BY <2>2, <3>1, <3>2, <3>3 DEF StoredTurn, WholeAnswer
  <2> QED
    BY <2>1, <2>2
<1> QED
  BY <1>1, PipelineAlways, PTL

(* Runner.appendConversation records only whole answers of models that did  *)
(* not fail, and has done so, and published AgentEnd, before a handler      *)
(* stores its turn, as long as the client does not leave.                   *)
THEOREM PipelineRecordedTurn == Spec => []RecordedTurn
<1>1. PipelineInv => RecordedTurn
  <2> SUFFICES ASSUME PipelineInv, ctx # "gone" PROVE RecordedTurn
    BY DEF RecordedTurn
  <2>1. CASE kind = "chat"
    <3>1. recorded => ~fails /\ WholeAnswer(content)
      BY <2>1, CollectedTexts DEF PipelineInv, ChatInv, WholeAnswer
    <3> QED
      BY <2>1, <3>1 DEF PipelineInv, ChatInv, RecordedTurn
  <2>2. CASE kind # "chat"
    <3>1. PICK h \in 0..next : /\ Collected(answer, content, h)
                               /\ recorded => h = Len(answer)
      BY <2>2 DEF PipelineInv, FlowInv, Flow, Whole
    <3>2. recorded => ~fails /\ WholeAnswer(content)
      BY <2>2, <3>1, CollectedTexts DEF PipelineInv, EndInv, WholeAnswer
    <3> QED
      BY <2>2, <3>2 DEF PipelineInv, EndInv, RecordedTurn
  <2> QED
    BY <2>1, <2>2
<1> QED
  BY <1>1, PipelineAlways, PTL
=============================================================================
