---------------------------- MODULE AgentPipeline ----------------------------
(***************************************************************************)
(* The goroutines between a model's answer and the session that stores it: *)
(* ReactAgent.Stream (internal/adk/react.go), Runner.Stream                *)
(* (internal/adk/runner.go), agentAdapter.Stream (main.go) and the         *)
(* handlers of internal/server/server.go, one request; and the same way    *)
(* without streaming, Runner.Run.  The request's context ends when the     *)
(* client leaves or the handler returns.                                   *)
(*                                                                         *)
(* An answer is a sequence of messages, each with a text, a reasoning,     *)
(* both or neither; pieces of it are named by the message they are from.   *)
(***************************************************************************)
EXTENDS Naturals, Sequences, Functions

CONSTANTS
    Cap,            \* room in each of the three channels (64)
    MaxMsgs         \* messages in an answer; the bridge sends two at most

ASSUME PipelineAssumption == Cap \in Nat \ {0} /\ MaxMsgs \in Nat

VARIABLES
    kind,           \* "chat", "stream" or "vision" (streamed): the handler
    store,          \* Runner.store: "none", "works" or "fails"
    answer, fails,  \* the model's messages, and whether an error follows them
    ctx,            \* "live", "gone" (the client left) or "over"
    handler, got,   \* the handler and the texts it has
    agent, next, pend,          \* ReactAgent.Stream: messages received, events to send
    runner, held, content,      \* Runner.Stream: event to forward, texts so far
    adapter, taken,             \* agentAdapter.Stream: event to send
    raw, events, pipe,          \* the channels from agent to runner to adapter to handler
    recorded,       \* Runner.appendConversation stored content
    published       \* types published on the event bus

config == <<kind, store, answer, fails>>
agentVars == <<agent, next, pend, raw>>
runnerVars == <<runner, held, content, events, recorded, published>>
adapterVars == <<adapter, taken, pipe>>
vars == <<config, ctx, handler, got, agentVars, runnerVars, adapterVars>>

Event(type, n) == [type |-> type, msg |-> n]
ErrorEvent == Event("error", 0)
Piece(type, n) == IF type \in answer[n] THEN <<Event(type, n)>> ELSE <<>>
Pieces(n) == Piece("text", n) \o Piece("reasoning", n)
Texts(n) == IF n > 0 /\ "text" \in answer[n] THEN <<n>> ELSE <<>>
Done == ctx # "live"

\* The client left, or the handler returns and net/http ends the context.
Over == IF ctx = "live" THEN "over" ELSE ctx

Init ==
    /\ kind \in {"chat", "stream", "vision"}
    /\ store \in {"none", "works", "fails"}
    /\ answer \in UNION {[1..n -> SUBSET {"text", "reasoning"}] : n \in 0..MaxMsgs}
    /\ fails \in BOOLEAN
    /\ ctx = "live"
    /\ handler = "new" /\ got = <<>>
    /\ agent = "none" /\ next = 0 /\ pend = <<>>
    /\ runner = "none" /\ held = ErrorEvent /\ content = <<>>
    /\ adapter = "none" /\ taken = ErrorEvent
    /\ raw = <<>> /\ events = <<>> /\ pipe = <<>>
    /\ recorded = FALSE /\ published = {}

-----------------------------------------------------------------------------
(* The handler, and what runs in its goroutine *)

\* prepareRequest refuses (guardrails, the store's Get), or after AgentStart the
\* middleware or the agent does: the handler answers with the error.
Refuse ==
    /\ handler = "new"
    /\ handler' = "failed" /\ ctx' = Over
    /\ \E seen \in {{}, {"AgentStart"}} : published' = seen \cup {"Error"}
    /\ UNCHANGED <<config, got, agentVars, adapterVars, runner, held, content, events, recorded>>

Begin ==
    /\ handler = "new"
    /\ published' = {"AgentStart"}
    /\ IF kind = "chat"
       THEN handler' = "collect" /\ UNCHANGED <<agent, runner, adapter>>
       ELSE handler' = "loop" /\ agent' = "loop" /\ runner' = "loop" /\ adapter' = "loop"
    /\ UNCHANGED <<config, ctx, got, next, pend, held, content, taken, raw, events, pipe, recorded>>

\* HandleChatStream looks at the context before each Recv, processVisionStream
\* does not.
HandlerLoop ==
    /\ handler = "loop"
    /\ handler' = IF kind = "stream" /\ ctx = "gone" THEN "failed" ELSE "recv"
    /\ UNCHANGED <<config, ctx, got, agentVars, runnerVars, adapterVars>>

HandlerRecv ==
    /\ handler = "recv"
    /\ \/ /\ pipe # <<>>
          /\ pipe' = Tail(pipe)
          /\ got' = IF Head(pipe).type = "text" THEN Append(got, Head(pipe).msg) ELSE got
          /\ handler' = "loop"
       \/ /\ pipe = <<>> /\ adapter = "done"
          /\ handler' = "finish"
          /\ UNCHANGED <<got, pipe>>
    /\ UNCHANGED <<config, ctx, agentVars, runnerVars, adapter, taken>>

\* [DONE] and Manager.Append; the handler returns.
HandlerStore ==
    /\ handler = "finish"
    /\ handler' = "stored" /\ ctx' = Over
    /\ UNCHANGED <<config, got, agentVars, runnerVars, adapterVars>>

\* HandleChat: ReactAgent.Run collects the messages, Runner.Run records them and
\* agentAdapter.Generate returns the last.  An error or no message at all is a
\* failure.  A cancelled model ends early, with or without an error; middleware
\* may refuse the answer.
Collect ==
    /\ handler = "collect"
    /\ \/ /\ next < Len(answer)
          /\ next' = next + 1
          /\ content' = content \o Texts(next')
          /\ UNCHANGED <<handler, ctx, got, recorded, published>>
       \/ \E err \in (IF Done THEN BOOLEAN ELSE {fails}), refused \in BOOLEAN :
          /\ next = Len(answer) \/ Done
          /\ ctx' = Over
          /\ IF ~err /\ next > 0 /\ ~refused /\ store # "fails"
             THEN /\ handler' = "stored" /\ got' = Texts(next)
                  /\ recorded' = (store = "works")
                  /\ published' = published \cup {"AgentEnd"}
             ELSE /\ handler' = "failed"
                  /\ published' = published \cup {"Error"}
                  /\ UNCHANGED <<got, recorded>>
          /\ UNCHANGED <<next, content>>
    /\ UNCHANGED <<config, agent, pend, raw, runner, held, events, adapterVars>>

ClientLeaves ==
    /\ ctx = "live" /\ handler # "new"
    /\ ctx' = "gone"
    /\ UNCHANGED <<config, handler, got, agentVars, runnerVars, adapterVars>>

-----------------------------------------------------------------------------
(* ReactAgent.Stream *)

AgentCheck ==
    /\ agent = "loop"
    /\ agent' = IF Done THEN "done" ELSE "recv"
    /\ UNCHANGED <<config, ctx, handler, got, next, pend, raw, runnerVars, adapterVars>>

\* sr.Recv: a message, an error, or the end, which a cancelled model may reach
\* at any message.
AgentRecv ==
    /\ agent = "recv"
    /\ \/ /\ next < Len(answer)
          /\ next' = next + 1
          /\ pend' = Pieces(next')
          /\ agent' = IF pend' = <<>> THEN "loop" ELSE "send"
       \/ /\ (next = Len(answer) /\ fails) \/ Done
          /\ pend' = <<ErrorEvent>> /\ agent' = "send"
          /\ UNCHANGED next
       \/ /\ (next = Len(answer) /\ ~fails) \/ Done
          /\ agent' = "done"
          /\ UNCHANGED <<next, pend>>
    /\ UNCHANGED <<config, ctx, handler, got, raw, runnerVars, adapterVars>>

\* Mutant of AgentSend: a plain send.
AgentSendPlain ==
    /\ agent = "send"
    /\ Len(raw) < Cap
    /\ raw' = Append(raw, Head(pend))
    /\ pend' = Tail(pend)
    /\ agent' = IF Head(pend) = ErrorEvent THEN "done" ELSE IF pend' = <<>> THEN "loop" ELSE "send"
    /\ UNCHANGED <<config, ctx, handler, got, next, runnerVars, adapterVars>>

AgentSend ==
    /\ agent = "send"
    /\ \/ /\ Len(raw) < Cap
          /\ raw' = Append(raw, Head(pend))
          /\ pend' = Tail(pend)
          /\ agent' = IF Head(pend) = ErrorEvent THEN "done"
                      ELSE IF pend' = <<>> THEN "loop" ELSE "send"
       \/ /\ Done
          /\ agent' = "done"
          /\ UNCHANGED <<raw, pend>>
    /\ UNCHANGED <<config, ctx, handler, got, next, runnerVars, adapterVars>>

-----------------------------------------------------------------------------
(* Runner.Stream *)

\* The select: a done context, an event, or the end of rawEvents, which records
\* the turn.  An error of the store is published and sent on.
RunnerSelect ==
    /\ runner = "loop"
    /\ \/ /\ Done
          /\ runner' = "end"
          /\ UNCHANGED <<held, content, raw, recorded, published>>
       \/ /\ raw # <<>>
          /\ held' = Head(raw) /\ raw' = Tail(raw)
          /\ content' = IF held'.type = "text" THEN Append(content, held'.msg) ELSE content
          /\ runner' = "send"
          /\ UNCHANGED <<recorded, published>>
       \/ /\ raw = <<>> /\ agent = "done"
          /\ recorded' = (store = "works")
          /\ held' = ErrorEvent
          /\ runner' = IF store = "fails" THEN "send" ELSE "end"
          /\ published' = IF store = "fails" THEN published \cup {"Error"} ELSE published
          /\ UNCHANGED <<content, raw>>
    /\ UNCHANGED <<config, ctx, handler, got, agent, next, pend, events, adapterVars>>

\* Mutant of RunnerSend: it goes on after an error event.
RunnerSendOn ==
    /\ runner = "send"
    /\ \/ /\ Len(events) < Cap
          /\ events' = Append(events, held)
          /\ runner' = "loop"
       \/ /\ Done
          /\ runner' = "end"
          /\ UNCHANGED events
    /\ UNCHANGED <<config, ctx, handler, got, agentVars, held, content, recorded, published, adapterVars>>

RunnerSend ==
    /\ runner = "send"
    /\ \/ /\ Len(events) < Cap
          /\ events' = Append(events, held)
          /\ runner' = IF held = ErrorEvent THEN "end" ELSE "loop"
       \/ /\ Done
          /\ runner' = "end"
          /\ UNCHANGED events
    /\ UNCHANGED <<config, ctx, handler, got, agentVars, held, content, recorded, published, adapterVars>>

\* The defers: AgentEnd, then close(events).
RunnerEnd ==
    /\ runner = "end"
    /\ runner' = "done"
    /\ published' = published \cup {"AgentEnd"}
    /\ UNCHANGED <<config, ctx, handler, got, agentVars, held, content, events, recorded, adapterVars>>

-----------------------------------------------------------------------------
(* agentAdapter.Stream *)

\* Mutant of AdapterSelect: it stops as soon as the runner has.
AdapterSelectEager ==
    /\ adapter = "loop"
    /\ \/ /\ Done \/ runner = "done"
          /\ adapter' = "done"
          /\ UNCHANGED <<taken, events>>
       \/ /\ events # <<>>
          /\ taken' = Head(events) /\ events' = Tail(events)
          /\ adapter' = IF taken' = ErrorEvent THEN "done" ELSE "send"
    /\ UNCHANGED <<config, ctx, handler, got, agentVars, runner, held, content, recorded,
                   published, pipe>>

\* A done context, the end of events, or an event; an error event is the end.
AdapterSelect ==
    /\ adapter = "loop"
    /\ \/ /\ Done \/ (events = <<>> /\ runner = "done")
          /\ adapter' = "done"
          /\ UNCHANGED <<taken, events>>
       \/ /\ events # <<>>
          /\ taken' = Head(events) /\ events' = Tail(events)
          /\ adapter' = IF taken' = ErrorEvent THEN "done" ELSE "send"
    /\ UNCHANGED <<config, ctx, handler, got, agentVars, runner, held, content, recorded,
                   published, pipe>>

\* Mutant of AdapterSend: the pipe has no limit.
AdapterSendUnlimited ==
    /\ adapter = "send"
    /\ IF handler \in {"stored", "failed"}
       THEN adapter' = "done" /\ UNCHANGED pipe
       ELSE adapter' = "loop" /\ pipe' = Append(pipe, taken)
    /\ UNCHANGED <<config, ctx, handler, got, agentVars, runnerVars, taken>>

\* sw.Send tells that the handler has closed its end, and does not look at the
\* context.
AdapterSend ==
    /\ adapter = "send"
    /\ \/ /\ handler \in {"stored", "failed"}
          /\ adapter' = "done"
          /\ UNCHANGED pipe
       \/ /\ handler \notin {"stored", "failed"} /\ Len(pipe) < Cap
          /\ pipe' = Append(pipe, taken)
          /\ adapter' = "loop"
    /\ UNCHANGED <<config, ctx, handler, got, agentVars, runnerVars, taken>>

-----------------------------------------------------------------------------
Handler == HandlerLoop \/ HandlerRecv \/ HandlerStore \/ Collect
Agent == AgentCheck \/ AgentRecv \/ AgentSend
Runner == RunnerSelect \/ RunnerSend \/ RunnerEnd
Adapter == AdapterSelect \/ AdapterSend

Next == Refuse \/ Begin \/ ClientLeaves \/ Handler \/ Agent \/ Runner \/ Adapter

(* Goroutines that can go on do; the model's stream ends (BothEnd of        *)
(* BridgeStream).  The client need not leave.                               *)
Spec ==
    /\ Init /\ [][Next]_vars
    /\ WF_vars(Refuse \/ Begin)
    /\ WF_vars(Handler) /\ WF_vars(Agent) /\ WF_vars(Runner) /\ WF_vars(Adapter)

-----------------------------------------------------------------------------
EventType == [type : {"text", "reasoning"}, msg : 1..MaxMsgs] \cup {ErrorEvent}
Channel(c) == c \in Seq(EventType) /\ Len(c) <= Cap

TypeOK ==
    /\ kind \in {"chat", "stream", "vision"} /\ store \in {"none", "works", "fails"}
    /\ answer \in Seq(SUBSET {"text", "reasoning"}) /\ Len(answer) <= MaxMsgs /\ fails \in BOOLEAN
    /\ ctx \in {"live", "gone", "over"}
    /\ handler \in {"new", "collect", "loop", "recv", "finish", "stored", "failed"}
    /\ agent \in {"none", "loop", "recv", "send", "done"} /\ next \in 0..Len(answer)
    /\ (agent = "send") => pend \in Seq(EventType) \ {<<>>}
    /\ runner \in {"none", "loop", "send", "end", "done"} /\ held \in EventType
    /\ adapter \in {"none", "loop", "send", "done"} /\ taken \in EventType
    /\ Channel(raw) /\ Channel(events) /\ Channel(pipe)
    /\ got \in Seq(1..MaxMsgs) /\ content \in Seq(1..MaxMsgs)
    /\ recorded \in BOOLEAN /\ published \subseteq {"AgentStart", "AgentEnd", "Error"}

\* c names the messages up to the n-th that have a text, each once and in order.
TextsUpTo(c, n) ==
    /\ \A i, j \in DOMAIN c : i < j => c[i] < c[j]
    /\ Range(c) = {m \in 1..n : "text" \in answer[m]}

WholeAnswer(c) == TextsUpTo(c, Len(answer))

(* What a handler stores are texts of the answer, none missing in between,  *)
(* none twice.  Unless the client left, a streamed answer is stored whole   *)
(* if the model did not fail (also when the runner's own record failed),    *)
(* and a failed one only by the streaming handlers, to which the adapter    *)
(* shows an error as the end of the stream.                                 *)
StoredTurn ==
    handler = "stored" =>
        /\ kind # "chat" => \E n \in 0..Len(answer) : TextsUpTo(got, n)
        /\ ctx # "gone" =>
            IF kind = "chat" THEN ~fails /\ got = Texts(Len(answer))
            ELSE fails \/ WholeAnswer(got)

(* runner.go:243: appendConversation "records a completed turn".  As long   *)
(* as the client does not leave, only whole answers are recorded, and when  *)
(* a handler has stored its turn the record is there, in full, and AgentEnd *)
(* is out.                                                                  *)
RecordedTurn ==
    ctx # "gone" =>
        /\ recorded => ~fails /\ WholeAnswer(content)
        /\ handler = "stored" /\ ~fails =>
            /\ store = "works" => recorded
            /\ store # "fails" => "AgentEnd" \in published

(* However a request goes, the client leaving included, all its goroutines  *)
(* end, and a run that was announced is reported ended or failed.           *)
EveryoneEnds ==
    <>[](/\ handler \in {"stored", "failed"}
         /\ {agent, runner, adapter} \subseteq {"none", "done"}
         /\ published \cap {"AgentEnd", "Error"} # {})
=============================================================================
