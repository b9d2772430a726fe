---------------------------- MODULE BridgeStream ----------------------------
(***************************************************************************)
(* internal/adk/llm/bridge.go, Bridge.stream: the goroutine between a      *)
(* stream of the protocol layer (OpenAIStream) and the agent.  It gathers  *)
(* the chunks of out into one message and sends that to an eino pipe; an   *)
(* interruption is answered with a notice and a second, non-streamed       *)
(* request.  The pipe holds 64 messages and the bridge sends at most two,  *)
(* so a send to it never waits.                                            *)
(***************************************************************************)
EXTENDS OpenAIStream, FiniteSets

VARIABLES
    bridge,     \* "recv", "recover" or "done"
    gathered,   \* content chunks accumulated so far
    pipe        \* what was sent to the pipe

bridgeVars == <<bridge, gathered, pipe>>
allVars == <<vars, bridgeVars>>

\* A message, notice, recovered message or error, with the number of content
\* chunks gathered by then.
Send(kind) == pipe' = Append(pipe, [kind |-> kind, size |-> gathered])

BridgeInit ==
    /\ Init
    /\ bridge = "recv"
    /\ gathered = 0
    /\ pipe = <<>>

-----------------------------------------------------------------------------
\* Mutant of ReceiveDone: the bridge goes on after ChunkDone.
ReceiveDoneGoesOn(c) ==
    /\ c.t = "done"
    /\ Send("message")
    /\ UNCHANGED <<bridge, gathered>>

\* The switch on the chunk's type.
\* Every piece of content counts as gathered, the arguments too that the bridge
\* drops for want of a call with their id: that case is in AgentLoop.
ReceiveContent(c) ==
    /\ c.t \in Content
    /\ gathered' = gathered + 1
    /\ UNCHANGED <<bridge, pipe>>

ReceiveIgnored(c) ==
    /\ c.t \in {"usage", "warn"}
    /\ UNCHANGED bridgeVars

ReceiveDone(c) ==
    /\ c.t = "done"
    /\ Send("message")
    /\ bridge' = "done"
    /\ UNCHANGED gathered

ReceiveInterruption(c) ==
    /\ c.t = "error" /\ c.interrupted
    /\ Send("notice")
    /\ bridge' = "recover"
    /\ UNCHANGED gathered

ReceiveError(c) ==
    /\ c.t = "error" /\ ~c.interrupted
    /\ Send("error")
    /\ bridge' = "done"
    /\ UNCHANGED gathered

BridgeReceive ==
    /\ bridge = "recv"
    /\ Receive
    /\ LET c == sent[rd + 1]
       IN  \/ ReceiveContent(c) \/ ReceiveIgnored(c) \/ ReceiveDone(c)
           \/ ReceiveInterruption(c) \/ ReceiveError(c)

\* Mutant of BridgeClosed: a closed stream ends the loop before out is drained.
BridgeClosedUndrained ==
    /\ bridge = "recv"
    /\ Closed
    /\ Send("message")
    /\ bridge' = "done"
    /\ UNCHANGED <<vars, gathered>>

\* out is closed and drained: what was gathered is sent as the message.
BridgeClosed ==
    /\ bridge = "recv"
    /\ Closed /\ rd = Len(sent)
    /\ Send("message")
    /\ bridge' = "done"
    /\ UNCHANGED <<vars, gathered>>

\* ctx.Done() is one of the two cases of the select.
BridgeCancelled ==
    /\ bridge = "recv"
    /\ cancelled
    /\ bridge' = "done"
    /\ UNCHANGED <<vars, gathered, pipe>>

\* The answer of the recovery call; its error is dropped.
BridgeRecovers ==
    /\ bridge = "recover"
    /\ bridge' = "done"
    /\ \/ Send("recovered")
       \/ UNCHANGED pipe
    /\ UNCHANGED <<vars, gathered>>

Bridge == BridgeReceive \/ BridgeClosed \/ BridgeCancelled \/ BridgeRecovers

BridgeNext ==
    \/ Bridge
    \/ (Producer \/ StallFires \/ CancelCtx) /\ UNCHANGED bridgeVars

-----------------------------------------------------------------------------
(* Runnable goroutines run.  The provider is not assumed to answer: a       *)
(* silent connection ends because the idle timer fires and closes the body, *)
(* after which the scanner returns.  Nobody is assumed to cancel.           *)
BridgeFairness ==
    /\ WF_allVars(Bridge)
    /\ WF_allVars((RateWait \/ LoopHead \/ Backoff \/ Connect \/ EmitSent
                   \/ EmitSkipped \/ EmitAborted \/ ScanEnded \/ ReadFailed
                   \/ Success) /\ UNCHANGED bridgeVars)
    /\ WF_allVars(StallFires /\ UNCHANGED bridgeVars)
    /\ WF_allVars((stalled \/ cancelled) /\ ScanEnd /\ UNCHANGED bridgeVars)

BridgeSpec == BridgeInit /\ [][BridgeNext]_allVars /\ BridgeFairness

-----------------------------------------------------------------------------
(* A message the bridge presents as the answer holds every piece of content *)
(* the stream put on out, whatever the order in which Done, close and late  *)
(* errors arrive.                                                           *)
MessageIsWhole ==
    \A i \in DOMAIN pipe :
        pipe[i].kind = "message" =>
            pipe[i].size = Cardinality({j \in DOMAIN sent : sent[j].t \in Content})

(* The agent gets one answer, a message or an error, or a notice that the   *)
(* recovered message follows unless the recovery call failed too; and       *)
(* nothing at all only if its context is done.                              *)
AnsweredOnce ==
    bridge = "done" =>
        \/ Len(pipe) = 1 /\ pipe[1].kind \in {"message", "error", "notice"}
        \/ Len(pipe) = 2 /\ pipe[1].kind = "notice" /\ pipe[2].kind = "recovered"
        \/ pipe = <<>> /\ cancelled

(* Neither goroutine outlives its request: whatever the provider does, and  *)
(* whenever the bridge leaves, the stream is closed and the bridge done.    *)
BothEnd == <>(Closed /\ bridge = "done")

(* README.md: "Stream interruption auto-recovery: transparent fallback on   *)
(* mid-stream disconnect".  A connection lost after content was emitted     *)
(* reaches the bridge as an interruption.                                   *)
DisconnectRecovered ==
    (/\ bridge = "done" /\ Closed /\ ~cancelled
     /\ gathered > 0 /\ "after" \notin hooks /\ lastErr \in {"reset", "broken"})
    => \E i \in DOMAIN pipe : pipe[i].kind # "message"
=============================================================================
