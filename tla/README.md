# MiniGoAgent in TLA+

MiniGoAgent is a Go server that talks to OpenAI-compatible providers on behalf
of a ReAct agent and keeps chat sessions.  This directory models the parts of
it in which goroutines, failures and time decide whether it is right: the
streaming client with its reconnections, the bridge that reads it, what the
requests of a client share, the agent's loop over messages and tools, the
goroutines from the agent to the handler, retries and the circuit breaker, the
rate limiter, the protocol event bus, and the sessions behind the HTTP handlers
with shutdown and restart.  The modules are checked with TLC on small
instances; every invariant and action property the passing runs check, and that the
streaming client implements the channel it promises its reader, are proved with
TLAPS for every value of the constants.

All source paths are relative to the root of the repository.

## 1. Inventory

| component | state | operations | talks to |
|---|---|---|---|
| rate limiter, `protocol/ratelimit.go` | window, request and token counts, a mutex | `Wait` | called first by `Chat` and `Stream` |
| streaming client, `protocol/openai.go`, `failover.go` | per request: attempt, `emitted`, `lastErr`, the channel `out`; per client: model, base URL, keys, `lastUsage` | `Stream`, `streamWithFailover`, `readStream`, `processSSEData`, the stall guard | `SendWithRetry`, limiter, event bus, hooks; its reader is the bridge |
| LLM bridge, `internal/adk/llm/bridge.go` | text, reasoning and tool calls gathered so far | `stream`, with a recovery by `Chat`; `generate` | reads `out`, writes an eino pipe |
| retry, breaker, health, `protocol/retry.go`, `types.go`, `health_*.go` | breaker state, countdown and time of the last failure; health status | `SendWithRetry`, `Check`, `Success`, probes | shared by all requests of a vendor |
| shared client state, `protocol/openai.go`, `usage_tracker.go` | `keyIndex`, `model`, `baseURL`, `lastUsage`; the tracker's statement | `rotateKey`, `applyFailover`, `recordStreamCall`, `Record`, `Close` | shared by all requests of a client |
| protocol event bus, `protocol/stream.go` | a bounded channel, subscribers' channels, an RWMutex, `stopped` | `Publish`, `TryPublish`, `Subscribe`, `run`, `dispatch`, `Stop` | fed by the client; telemetry, log and raw log subscribe |
| sessions, `internal/session/manager.go`, `internal/server/server.go`, `main.go` | histories, access times, `history.json` | the handlers, `SnapshotWith`, `Append`, `Cleanup`, `Save`, `Load`, shutdown | handlers run the agent between snapshot and append |
| agent runner and ReAct agent, `internal/adk`, `main.go` | event channels, the messages of a run | `Run`, `Stream`, `MessageRewriter`, the adapter | between handlers and bridge |
| message normalisation, `protocol/normalize.go` | none | `NormalizeMessages` | applied to every request |
| tool registry, executor, guardrails, `internal/adk/tool` | availability cache, call counters | `Check`, `Dispatch`, `Execute` | called by the agent |
| ADK event bus, middleware, session store | handlers, chain | `Publish`, before/after hooks | around the runner |
| hooks, telemetry, raw log, MCP server | counters, SQLite | `Record`, queries | client, event bus, HTTP |
| thinking splitter, content compression, schemas, vendor tables, URL checks, redaction | none, or a small automaton | pure functions | request and response building |
| tools, filters, logs, configuration, frontend | command cache, files | `terminal`, `fileops`, `vision`, `websearch` | the agent |

`reference/` is third-party code and not part of the program.

What is hard in it, and what makes each part right:

* **Streaming.**  Three goroutines (producer, stall guard, reader) and a
  context that may be cancelled at any moment.  Right if an answer is never
  mixed from two connections, nothing follows its end, a failure is reported
  although reporting never blocks, and nobody is left behind.
* **Breaker.**  Requests are let through in one state and report in another.
  Right if an outage costs a bounded number of failures, late reports do not
  shorten the cooldown, and the breaker closes again.
* **Limiter.**  It sleeps with its mutex held and resets counts when it wakes.
  Right if the overrun of a window is bounded and every caller returns.
* **Shared client state.**  The key index moves at another time than the key was
  used; `applyFailover` writes without a lock; `lastUsage` is one field for all
  streams.  Right if a stream tries all keys before it gives up, a request goes
  to the provider whose model it names, and a call is charged its own usage.
* **Messages.**  Tool calls arrive in pieces, streams break, and a window cuts
  the conversation anywhere.  Right if every request pairs calls with their own
  results and what a tool is called with is what the provider sent.
* **Pipeline.**  Agent, runner, adapter and handler pass events over bounded
  channels while the client may leave.  Right if the session gets the answer
  the client saw, and nobody is left behind.
* **Event bus.**  Publishers, `run`, dispatchers and several `Stop`s.  Right if
  nobody sends on a closed channel, `Stop` returns and what was accepted is
  processed.
* **Sessions.**  Handlers of one session run concurrently, across evictions,
  saves, kills and restarts.  Right if histories consist of whole turns and
  answered turns are kept.

The individual places are listed under `hazards` in `PROJECT.json`.

## 2. Modules

| module | models | checked by |
|---|---|---|
| `ChunkStream` | what `Stream` promises the reader of its channel (abstract) | implemented by `OpenAIStream`: run `bridge`, `BridgeStreamProofs` |
| `OpenAIStream` | `streamWithFailover`, `readStream`, `processSSEData`, `sendChunk`, stall guard | runs `bridge`, `stream_failover`; `BridgeStreamProofs` |
| `BridgeStream` | extends `OpenAIStream` by `Bridge.stream`, its reader | runs `bridge`, `bridge_disconnect`; `BridgeStreamProofs` |
| `CircuitBreaker` | `CircuitBreaker` of `types.go` | through `SendWithRetry` |
| `SendWithRetry` | extends `CircuitBreaker`: senders, health probe, provider | run `retry`; `SendWithRetryProofs` |
| `RateLimiter` | `RateLimiter.Wait` | runs `rate_limiter`, `rate_quota`; `RateLimiterProofs` |
| `OpenAIClient` | keys, failover targets and usage under concurrent streams and chats; the usage tracker | run `client`; `OpenAIClientProofs` |
| `AgentLoop` | tool calls from deltas, `MessageRewriter`, `NormalizeMessages`, tool rounds over several turns | run `agent_loop`; `AgentLoopProofs` |
| `AgentPipeline` | `ReactAgent`, `Runner`, `agentAdapter` and the handlers as goroutines | run `pipeline`; `AgentPipelineProofs` |
| `EventBus` | `EventBus` of `stream.go` | run `event_bus`; `EventBusProofs` |
| `SessionServer` | `Manager`, the handlers, shutdown and restart | runs `sessions`, `sessions_vision`; `SessionServerProofs` |

Each `MC...` module extends its specification; the `.cfg` files hold the
constants.  Operators whose comment says "Mutant of X" are deliberately wrong
variants of X, kept to show that the properties notice them; no specification
uses them.

### OpenAIStream

One request.  `pc` is the place in `streamWithFailover` (`limit`, `loop`,
`backoff`, `send`) or, while a connection is read, in `readStream` (`scan`,
`emit`, `ended`, `failed`, `success`).  `sent` is the history of `out` and `rd`
how much of it was received, so that `Room` is the free capacity.  An SSE event
is chosen by its effect: usage (with or without a context warning), a delta, a
finish reason, `[DONE]`, an API error; `pend` holds the chunks it still has to
send, since each send may block or be cancelled.  A chunk carries its type, the
connection it came from and whether it is an interruption.

Abstractions: texts and tool call identities are left out; a few combinations
of delta fields stand for all (`Deltas`); reasoning that the thinking splitter
still holds at a finish reason counts as part of the last delta; an event that
does not parse is the event without effect.  The error of a body closed under
the scanner may or may not pass `IsConnReset`, depending on where the close
caught it: both are possible.  BeforeProcess hooks run before the goroutine
starts and are outside.

`ChunkStream` leaves out connections, attempts, hooks and time: it has the
chunks put, how many were taken, and whether the channel is closed.
`OpenAIStream!Promise` maps `sent` and `rd` to themselves and `closed` to
`Closed`; `KeepsPromise` is the refinement.

### BridgeStream

The select of `Bridge.stream` takes a chunk, the close of `out`, or
`ctx.Done()`; if several are ready, any.  The pipe has room for 64 messages and
gets two at most, so sends to it do not block.  `gathered` counts content
chunks; arguments the bridge drops because no call has their id count too, and
are the subject of `AgentLoop`.

### CircuitBreaker and SendWithRetry

`Check` and `Success` hold a mutex and are steps.  Between the gate
(`Gate`), the answer (`Respond`) and its report (`RecordSuccess`,
`RecordFailure`) anything may happen.  The provider is up or down (`Flip`); a
status that is not retried and a cancelled request end a call without a report.
The health probe (`ProbeSend`) asks another URL, with a timeout of its own, and
takes every status but 200 and 401 for a failure, so its result is free: it may
fail while the provider answers requests.  `Installed` tells whether a breaker
was stored for the vendor; no code stores one, which is the finding on run
`retry`, and the run checks what the breaker does once one is.  `age` counts ticks
since the last failure up to `Timeout`.

### RateLimiter

`age` is the time since the window began, cut off at a minute.  `Enter` is the
part of `Wait` up to its return or its sleep, `Wake` and `Abandon` the two cases
of its select.

### OpenAIClient

Requests are streams or chats, chosen at the start; the client may have served
others before (any key index, already failed over, a leftover in `lastUsage`).
`url` and `model` say whose value the field holds, or `"writing"` while an
assignment of `applyFailover` is under way: an unlocked read then gives the old
string, the new one, or one of them torn.  `vendor` and `policy` are written
and read in the same places.  `good` is the set of keys each provider accepts,
arbitrary and fixed.  A retry inside `SendWithRetry` builds the request anew
(`Resend`).  `took` is what a call is charged; `crossed` remembers what other
requests did since it began, which is how the properties say "unless another
...", and the request's own errors.  The tracker's statement fails once the
tracker is closed, and may fail otherwise (`TrackExec`); the error is dropped.

### AgentLoop

One session, turn after turn.  A call has an id, a name, how much of its
arguments it has (none, cut short, whole, or closed by `closeTruncatedJSON`)
and `of`, its turn, round and index, which the code does not have: it lets the
properties say which result belongs to which call.  `Delta` is the part of
`processSSEData` about tool calls together with the bridge's case for
`ChunkToolCallStart`; `Finish` is a finish reason, `Stop` a `[DONE]` or an end
of the body without one, `Recover` the bridge's second request.  `Request` is
what `buildBody` sends: prompt, window, normalisation.  `ResultAt` is where a
call's result is found, by id or by position, and `Piece` what one round of
`NormalizeMessages`' loop appends to its output.  eino is external:
`RunTools` answers every call of the reply, in order, without a name, and a
reply counts as a tool call if its first message has calls.  Since the first
message of a recovered reply is the notice, its calls end the turn unrun.

### AgentPipeline

One request of one of three handlers.  An answer is any sequence of messages
with a text, a reasoning, both or neither, followed by an error or not.  A
channel is a sequence of events with room for `Cap`; a closed one is a producer
that is `"done"`.  The runner may have a store that works, one that fails, or
none, which is how `main` builds it.  `ctx` is `"gone"` when the client left and
`"over"` when the handler returned.  A cancelled model may end its stream at any
message, with an error or not.  Texts are named by their message, so that
`TextsUpTo(c, n)` can say what it means for `c` to be the first part of the
answer: the messages with a text, up to the n-th, each once and in order.

### EventBus

`mu` appears as who may be inside: readers are publishers in `sending` and
`run` in `fan`; writers are single steps that need `Unlocked`; `CanRead` is Go's
rule that a waiting writer holds up new readers.  Only the writer lock of
`Stop` is seen waiting; `Subscribe` waits without holding up readers, which
allows more behaviours, not fewer.  Chunks are numbered in the order in which
the bus accepts them.

### SessionServer

A request is a turn; a message is a role and a turn.  `Accept` is
`SnapshotWith`; the agent runs; `Store` and `StreamStore` are `Append`,
`Reply` and `StreamReply` the end of the answer, in the order each handler has
them.  `Save` holds the manager's mutex throughout, so handlers do not touch
the manager while `proc = "saving"`; they may still send.  A nil message among
the last `Window` messages ends the agent's run with an error, and in any session
makes the save at Ctrl+C panic (`Unsavable`).  The write of `history.json` may
fail, before the file is opened or half-way; the code logs this and exits.
`due` is what the save owes: the turns in memory when the signal came, or
nothing once the write has failed.  `lost` collects the turns whose loss the
program does not promise to avoid: evicted, or neither due nor on disk when the
process ended.  A turn lost to the panic is due and not in `lost`, so
`HistoryPersistence` misses it; `AnsweredTurnsKept` is the same statement for
programs in which every turn has a user message (`UserMessagesOnly`).

## 3. Runs

| run | distinct states | shows |
|---|---|---|
| `stream_failover` | violation | a stream never asks the fallback model |
| `bridge` | 937 000 | `FromOneConnection`, `OnlyErrorsAfterTerminal`, `FailureReported`; `MessageIsWhole`, `AnsweredOnce`; both goroutines end (`BothEnd`); `OpenAIStream` implements `ChunkStream` (`KeepsPromise`) |
| `bridge_disconnect` | violation | a mid-stream disconnect is presented as a complete answer |
| `retry` | 88 000 | `FailureIsolation`, `CooldownRespected`, `AutoRecovery` |
| `rate_limiter` | 190 000 | the exact overrun of a window, one request and its tokens (`RequestQuotaPlusOne`, `TokenQuotaPlusOne`); `WaitReturns` |
| `rate_quota` | violation | one window exceeds both documented maxima (`SomeQuotaKept`) |
| `sessions` | 308 000 | `TurnsWhole`, `AnsweredTurnsKept`, `IdleSessionsEvicted` |
| `sessions_vision` | violation | a vision turn stores a nil user message, the save panics on it, and the restarted server does not have the turn (`HistoryPersistence`) |
| `client` | 5 800 000 | `LoneStreamFindsKey`, `TargetsAgree`, `ChatAsksFallback`, `UsageOwner`, `UsageCountedOnce` |
| `pipeline` | 717 000 | `StoredTurn`, `RecordedTurn`, `EveryoneEnds` |
| `agent_loop` | 1 375 000 | `RequestPaired`, `ResultsTruthful`, `LastRoundReported`, `NormalizeStable`, `ArgumentsKept` |
| `event_bus` | 74 000 | `NoSendOnClosed`, `StopDrains`, `StopReturns` |

The four violations are disagreements between the documentation and the code;
`findings` in `PROJECT.json` quotes the lines.  `SomeQuotaKept` is the
disjunction of the two documented quotas, so that its counterexample exceeds
both in one window: a sleeper opens the window uncounted and two more requests
follow.  A fifth disagreement needs no behaviour to show it, only the absence of
a call: `vendorCircuitBreaker` is never stored to, so the isolation and recovery
that run `retry` checks are not active in the program.

Bounds:

* `bridge`: one reconnection and one failover round, so that every
  branch of the loop head is taken; two events per connection, so that content,
  an end and an error can follow one another; `out` with room for two chunks,
  which one event fills; a fallback is configured.
* `retry`: two senders and one retry each, threshold 2, so that the breaker
  trips with another request in flight; two ticks of cooldown.  A breaker is
  installed; `MaxStreak` would bound the failures without one, and has no effect.
* `rate_limiter`: quotas of two requests and three tokens with requests of up to
  two tokens: either quota can be the one that is exceeded.  `MaxRequests` cuts
  off a series of cancelled sleepers in one window.  `rate_quota` has the same
  bounds.
* `client`: two requests, which are interchangeable (symmetry), two keys and two
  attempts, so that a rotation comes back to the key it left; one failover; two
  usage reports per stream, so that one can replace the other.
* `pipeline`: channels of room one, so that each of the three sends can block;
  two messages, all the bridge sends at most, hence up to four events.
* `agent_loop`: two calls per reply, three deltas per turn, so that an id comes
  before, with or after its name; ids `a` and `call_0`, which the code also makes
  up itself; windows of two and three messages, which with two calls cut at
  every place of a tool turn; two rounds; a second turn, which meets what the
  first one left in the session.
* `event_bus`: three chunks over channels of capacity 2 and 1, so that both drop;
  two Stops.
* `sessions`: two requests on two sessions, hence on the same or on different
  ones; two restarts, so that a history is saved, loaded, and saved again.
  `MaxAge = 0` makes a session idle after one tick.  `sessions_vision` needs one
  restart.

Deadlock is checked in `rate_limiter` and `retry`.  In the others the
system may stop: a request ends, a bus is stopped, a server is down for good.

Fairness, and why the code justifies it:

* Runnable goroutines run, timers and tickers fire (weak fairness), everywhere.
* `RateLimiter.Enter` is strongly fair: Go's mutex hands itself over to its
  longest waiter once that has starved for a millisecond.
* The provider is not assumed to answer.  In `bridge` a silent connection ends
  because the idle timer closes its body, after which the scanner returns.
* In `pipeline` each goroutine is weakly fair and the model's stream is assumed
  to end, which is `BothEnd` of `bridge`; the client need not leave.
* `AutoRecovery` assumes in its statement that the provider stays up, that its
  health endpoint does too, and that calls keep coming: only a call moves an open
  breaker on.  The health endpoint is a real assumption, not a simplification: a
  provider that answers requests and refuses the probe's `HEAD` has its breaker
  opened again and again, and without the assumption TLC finds that behaviour.
* `StopReturns` assumes that processors return.
* `IdleSessionsEvicted` assumes that handlers end; nobody is assumed to send
  requests or to signal.

## 4. Proofs

Each `...Proofs` module extends the specification it is about
(`BridgeStreamProofs` holds what is proved of `OpenAIStream` too).  For every
value of the constants allowed by the named assumptions:

| theorem | states |
|---|---|
| `RateLimiterTypeOK`, `RequestQuotaOverrun`, `TokenQuotaOverrun` | type; a window's overrun |
| `StreamTypeOK`, `StreamFromOneConnection`, `StreamOnlyErrorsAfterTerminal`, `StreamFailureReported` | type; the three invariants of `out` |
| `StreamKeepsPromise` | `OpenAIStream` implements `ChunkStream` |
| `BridgeReadsStream`, `BridgeKeepsPromise` | under the bridge the stream is still an `OpenAIStream`, and keeps the promise |
| `BridgeAnsweredOnce`, `BridgeMessageIsWhole` | the agent gets one answer; a message has all the content of the stream |
| `RetryTypeOK`, `RetryCooldown`, `RetryFailureIsolation` | type; the cooldown (an action property); isolation, assuming `Installed` |
| `ClientTypeOK`, `ClientTargetsAgree`, `ClientChatAsksFallback`, `ClientLoneStreamFindsKey`, `ClientUsageOwner`, `ClientUsageCountedOnce` | type; model and address; fallback; keys; usage |
| `PipelineTypeOK`, `PipelineStoredTurn`, `PipelineRecordedTurn` | type and room in the channels; what handler and runner keep of an answer |
| `NormalizePairs`, `SlowPathKeepsPaired`, `NormalizeTwice` | for every sequence of messages: `NormalizeMessages` pairs; the slow path leaves what is paired alone; normalising twice is normalising once |
| `LoopTypeOK`, `LoopRequestPaired`, `LoopResultsTruthful`, `LoopLastRoundReported`, `LoopNormalizeStable` | type; every request of the agent's loop |
| `LoopArgumentsKept` | a finish reason keeps every call's arguments (an action property) |
| `BusTypeOK`, `BusNoSendOnClosed`, `BusStopDrains` | type; no send on a closed channel; a `Stop` that returns leaves nothing behind |
| `SessionTypeOK`, `SessionTurnsWhole`, `SessionAnsweredTurnsKept` | type; whole turns, and no answered turn lost, if every turn has a user message |

The assumptions say what the code guarantees of its settings: capacities, keys,
attempts and windows are numbers, positive where the code replaces a zero by a
default or would not start; `OutCap >= 2` (it is 256); `Senders` is finite.
Requests, sessions, subscribers and publishers are any sets, of any size, and
the bounds of the runs (events, chunks, reports, restarts, calls, deltas) any
numbers.  A provider's tool call ids are any strings but the empty one, which
the code takes for none.

The inductive invariants:

* `QuotaInv`: what a window let through is ahead of its counters by at most the
  sleeper that opened it; the sleeper holds the mutex, so nobody moves the
  counters while it sleeps.
* `ShapeInv`, `ReportInv`, `OrderInv`: a reconnection can follow only while
  nothing was emitted, hence content on `out` is that of the current attempt; as
  long as nothing was emitted `out` is empty but for the stall error, so there
  is room for the error that must be reported (this is where `OutCap >= 2` is
  used); a terminal chunk is the last of its event and moves control to a place
  from which only errors are sent.  The refinement rests on the same three: a
  step that sends is a `Put` because the chunk is an error, or the invariants
  give what `PutAnswer` asks of the chunks before it (`PromiseStep`).
* `PipeInv`, `GatherInv`: every step of the composition is a step of the stream
  or leaves it alone (`BridgeIsReader`), so the stream's invariants need no
  second proof.  While it receives, the bridge has counted the content of the
  prefix it took, and no end was in that prefix.  It sends a message only after
  an end or the close, and what follows those has no content by `OrderInv`.
* `BudgetInv`, `CountdownInv`, `IsolationInv`: while the breaker is closed the
  countdown accounts for the failures; while it is open the failures still to
  come are among the requests in flight.  The proof counts the set `InFlight`,
  hence the assumption that `Senders` is finite.
* `PlaceInv`, `WriteInv`, `TargetInv`, `FallbackInv`, `KeyInv`, `UsageInv` of
  the client.  `url` and `model` go through four pairs of values only, always
  with a request at the place that writes them; a request that no failover has
  crossed runs while nobody else is at such a place, so what it read still
  holds.  An undisturbed stream has been refused with one more key per attempt
  (`Before`), and after `NKeys` of them with all.  A usage report is either in
  `lastUsage` or with the call that took it, never with two.
* `FlowInv`, `ErrorInv`, `EndInv`, `ChatInv` of the pipeline.  Six cuts divide
  the messages received into what the handler, the pipe, the adapter, `events`,
  the runner and `rawEvents` have of them; a step moves one cut (`Flow`), and a
  goroutine that ends in a request nobody cancelled has its cut at the end of
  the answer (`Whole`).  This needs to know that an error event is the last of
  its channel (`ErrorInv`) and who has ended before whom (`EndInv`).
* `LockInv`: after `stopped` no publisher is inside its critical section, and a
  channel is closed in the step that forgets its subscriber.  `DrainInv`: since
  a subscriber joined, what was fanned out to it was processed, dropped or is
  still in its channel, in this order, and a `Stop` that waits has closed what
  it waits for.
* `OwnedInv`, `WholeInv`, `KeptInv` of the sessions: a turn is appended in one
  step, once, to its own session, and a handler appends only what is in no
  history yet; an answered turn is in memory while the process lives, in what
  is being saved once it is saving, and on disk when it has ended, unless it is
  in `lost`.  `WholeInv` and `KeptInv` assume `UserMessagesOnly`: then a whole
  history has no nil message (`WholeSavable`), and `Save` does not panic.
* `HistoryInv`, `BlockInv`, `RanInv`, `StreamInv` of the agent's loop.  The
  session holds no tool messages.  In eino's messages a reply with calls is
  followed by nothing of its own, or by one result per call, in order, with its
  id: appending a round keeps this, and so does the window, since it only drops
  messages at the front (`SuffixBlocks`).  A cut may leave results without their
  reply, never a reply without some of its results, so whether
  `NormalizeMessages` pairs by id or by position it finds the right one
  (`AnswerOwn`).  While a request is out, the window ends with the last round
  if it can hold it.  Every started call has an index of the reply being read,
  and no two have the same, so that `order` reaches each of them once.

What `NormalizeMessages` and `Finish` do is stated for messages of any length
and rests on inductions, which are done by a least counterexample: the library's
`WFMin`, on the numbers with `<`, takes a set and no operator (`Least`,
`Induction`).  `Recursion` shows in this way that a function defined by recursion
over `0..n` exists and is the one `Finish` chooses, and `Flatten` that
`FlattenSeq` appends its pieces one after the other.  `SlowPathBuilt` then builds the output
message by message, and `ConcatPaired` and `ConcatTruthful` say that putting a
piece after messages that are paired and truthful keeps them so, because no
piece begins with a tool message.  `SlowPathKeepsPaired` is the same walk over
messages that are paired already.

All of these were model-checked with the runs' bounds before they were proved.

Only model-checked: liveness (`WaitReturns`, `AutoRecovery`, `BothEnd`,
`StopReturns`, `IdleSessionsEvicted`, `EveryoneEnds`), which needs fairness and
is out of the prover's reach.

## 5. Plan

The modules and the proofs are complete as planned.  What could be added:

1. The parts `main` does not install yet (the tool registry with its
   availability cache, the executor, the middleware chain), once they are in
   use; see below.
2. The order of the error hooks after a reconnection, should the code come to
   promise one.

## 6. Not modelled

`reference/DeepSeek-Reasonix`, by far most of the repository's lines, is a copy
of another program kept for comparison: nothing in MiniGoAgent builds or calls
it, and it is left out as a whole.

Of the program itself: what is only text or I/O (formatting, redaction, the
thinking splitter, content compression, vendor tables, URL checks, SQL, the MCP
server, logs, filters, the frontend, the tools).  What `main` does not install:
the guardrails with the registry's availability cache, the executor, the
middleware chain; `AgentPipeline` has a runner that may meet a middleware or a
store, and the rest of these packages is not modelled.  Of the modelled parts:
the length of delays (order only), `Retry-After`, `HealthManager.Stop`, the text
of messages, `closeTruncatedJSON` beyond its result.  The eino framework and the
Go runtime are modelled as the code uses them: a panic inside an agent's node
ends the run with an error.

Disagreements with the documentation that no run of its own shows: no breaker is
ever installed (README.md:20; a finding on run `retry`); README.detail.md:57 says
"Stream recovery errors propagated via `sw.Send(nil, err)`", but the bridge
returns without sending the error of its recovery call (bridge.go:143), so the
agent has the notice as its only answer, which `AnsweredOnce` allows.

Behaviours met while modelling that no run states as a violation, because no
document promises otherwise: a health probe that is answered with 403, 404, 405
or 429 counts as a failure of a provider that answers requests, and can keep its
breaker from closing; a stale success closes a half-open breaker; a failed write
of `history.json` is logged and the process exits without the turns; the OnError hooks run after a reconnection that
succeeded; overlapping streams take each other's usage, and a stream that fails
after its usage report leaves it to the next one; a request built while another
fails over may carry one provider's model to the other's URL; an error event
reaches the streaming handlers as the end of the answer, and a client that
leaves during `Recv` has the part received stored as its turn; tool calls of a
recovered reply are not run; a stream that ends without a finish reason has its
tool calls run without arguments; calls whose id comes after their name lose
their arguments; six or more tool results push their own reply, and the user's
question, out of the window; two streams refused on the same key skip one; a
turn answered after the save at Ctrl+C is lost; restored sessions are not
evicted until used; `Save` writes nothing when there is no session, so an old
file brings evicted sessions back; `[DONE]` is sent before the turn is stored; a
`Subscribe` after `Stop` has drained keeps that `Stop` waiting.
