---------------------------- MODULE OpenAIClient ----------------------------
(***************************************************************************)
(* protocol/openai.go: what all requests of one OpenAI client share.  The  *)
(* API keys (keyMu), the usage report last seen on a stream (usageMu), and *)
(* model and baseURL, which applyFailover writes and request building      *)
(* reads without a lock; vendor and policy are written and read with them. *)
(* Requests are streams (the loop of streamWithFailover, seen from the     *)
(* shared state: OpenAIStream has the rest) and chats (chatWithFailover).  *)
(* What a call used is written by the usage tracker, which the shutdown    *)
(* closes.  The client may have served requests before.                    *)
(***************************************************************************)
EXTENDS Naturals, FiniteSets

CONSTANTS
    Requests,       \* calls of OpenAI.Stream and OpenAI.Chat
    NKeys,          \* len(o.apiKeys)
    MaxReconnect,   \* o.maxReconnect
    FailoverMax,    \* o.failover.maxRetries()
    HasFallback,    \* a fallback model and base URL are configured
    MaxReports,     \* bound: usage reports a stream meets
    Earlier, None   \* a call made before, and no usage

ASSUME ClientAssumption ==
    /\ NKeys \in Nat \ {0}
    /\ MaxReconnect \in Nat \ {0} /\ FailoverMax \in Nat \ {0}
    /\ HasFallback \in BOOLEAN /\ MaxReports \in Nat
    /\ Earlier \notin Requests

VARIABLES
    keyIndex,       \* o.keyIndex
    url, model,     \* o.baseURL and o.model: whose they are, or "writing"
    lastUsage,      \* o.lastUsage: the call it reports on and its number
    closed,         \* UsageTracker.Close was called
    good,           \* per provider: the keys it accepts
    kind,           \* per request: "stream" or "chat"
    pc, attempt,    \* per request: its place, its loop counter
    req,            \* per request: model, url and key it was last sent with
    seen,           \* per request: the usage reports it has met
    took,           \* per request: the usage it is charged
    rows,           \* history, per request: rows the tracker wrote for it
    crossed         \* history, per request: what others did while it ran, and
                    \* its errors

shared == <<keyIndex, url, model, lastUsage, closed>>
config == <<good, kind>>
hist == <<rows, crossed>>
vars == <<shared, config, pc, attempt, req, seen, took, hist>>

NoUsage == <<None, 0>>
Providers == {"primary", "fallback"}
Keys == 0..(NKeys - 1)
Applying == {"applyURL", "applyModel"}
Active(r) == pc[r] \notin {"idle", "ok", "failed"}
Streaming(r) == Active(r) /\ kind[r] = "stream"

Goto(r, place) == pc' = [pc EXCEPT ![r] = place]

\* The requests of S other than r learn that something crossed them.
Cross(r, S, what) ==
    crossed' = [s \in Requests |-> crossed[s] \cup (IF s \in S \ {r} THEN {what} ELSE {})]

ActiveSet == {s \in Requests : Active(s)}

Init ==
    /\ keyIndex \in Keys
    /\ url \in IF HasFallback THEN Providers ELSE {"primary"}
    /\ model = url
    /\ lastUsage \in {<<Earlier, 1>>, NoUsage}
    /\ closed = FALSE
    /\ good \in [Providers -> SUBSET Keys]
    /\ kind \in [Requests -> {"stream", "chat"}]
    /\ pc = [r \in Requests |-> "idle"]
    /\ attempt = [r \in Requests |-> 0]
    /\ req = [r \in Requests |-> [model |-> "primary", url |-> "primary", key |-> 0]]
    /\ seen = [r \in Requests |-> 0]
    /\ took = [r \in Requests |-> NoUsage]
    /\ rows = [r \in Requests |-> 0]
    /\ crossed = [r \in Requests |-> {}]

-----------------------------------------------------------------------------
(* Building and sending a request *)

Start(r) ==
    /\ pc[r] = "idle"
    /\ Goto(r, "body")
    /\ crossed' = [s \in Requests |->
          IF s = r
          THEN {what \in {"stream", "failover"} :
                    \/ what = "stream" /\ \E x \in Requests : Streaming(x)
                    \/ what = "failover" /\ \E x \in Requests : pc[x] \in Applying}
          ELSE crossed[s] \cup (IF Streaming(s) /\ kind[r] = "stream" THEN {"stream"} ELSE {})]
    /\ UNCHANGED <<shared, config, attempt, req, seen, took, rows>>

\* What an unlocked read gives: in the middle of a write the old string, the new
\* one, or the pointer of one with the length of the other.
Read(v) == IF v = "writing" THEN Providers \cup {"torn"} ELSE {v}

\* Mutant of BuildBody: it takes o.name, the configured model.
BuildBodyName(r) ==
    /\ pc[r] = "body"
    /\ req' = [req EXCEPT ![r].model = "primary"]
    /\ Goto(r, "url")
    /\ UNCHANGED <<shared, config, attempt, seen, took, hist>>

\* buildBody reads o.model.
BuildBody(r) ==
    /\ pc[r] = "body"
    /\ \E m \in Read(model) : req' = [req EXCEPT ![r].model = m]
    /\ Goto(r, "url")
    /\ UNCHANGED <<shared, config, attempt, seen, took, hist>>

\* The URL and, under keyMu, the current key.
BuildRequest(r) ==
    /\ pc[r] = "url"
    /\ \E u \in Read(url) : req' = [req EXCEPT ![r] = [@ EXCEPT !.url = u, !.key = keyIndex]]
    /\ Goto(r, "flight")
    /\ UNCHANGED <<shared, config, attempt, seen, took, hist>>

KeyAccepted(r) == req[r].url \in Providers /\ req[r].key \in good[req[r].url]

\* SendWithRetry builds the request again for a retry of its own.
Resend(r) ==
    /\ pc[r] = "flight" /\ kind[r] = "stream"
    /\ Goto(r, "body")
    /\ crossed' = [crossed EXCEPT ![r] = @ \cup {"error"}]
    /\ UNCHANGED <<shared, config, attempt, req, seen, took, rows>>

-----------------------------------------------------------------------------
(* The next attempt, and failover *)

TotalAttempts == MaxReconnect + FailoverMax + 1

\* Mutant of NextPlace: a chat asks the same provider again.
NextPlaceNoFailover(r, n) ==
    IF kind[r] = "stream" THEN IF n <= MaxReconnect THEN "body" ELSE "failed"
    ELSE IF n <= FailoverMax /\ HasFallback THEN "body" ELSE "failed"

\* Where attempt n begins.  A stream reconnects MaxReconnect times, then applies
\* the fallback until the attempts are used up, without sending anything more;
\* a chat applies it before each further attempt.
NextPlace(r, n) ==
    CASE kind[r] = "stream" /\ n <= MaxReconnect -> "body"
      [] kind[r] = "stream" /\ n > TotalAttempts -> "exhausted"
      [] kind[r] = "chat" /\ n > FailoverMax -> "failed"
      [] OTHER -> IF HasFallback THEN "failover" ELSE "failed"

Again(r) ==
    /\ attempt' = [attempt EXCEPT ![r] = @ + 1]
    /\ Goto(r, NextPlace(r, attempt[r] + 1))

Written(v) == IF v = "primary" THEN "writing" ELSE v

\* applyFailover: baseURL first, then model.  Between the steps the assignment
\* that has begun is under way.
ApplyURL(r) ==
    /\ pc[r] = "failover"
    /\ url' = Written(url)
    /\ Goto(r, "applyURL")
    /\ Cross(r, ActiveSet, "failover")
    /\ UNCHANGED <<keyIndex, model, lastUsage, closed, config, attempt, req, seen, took, rows>>

ApplyModel(r) ==
    /\ pc[r] = "applyURL"
    /\ url' = "fallback" /\ model' = Written(model)
    /\ Goto(r, "applyModel")
    /\ UNCHANGED <<keyIndex, lastUsage, closed, config, attempt, req, seen, took, hist>>

\* Then a chat sends; a stream continues its loop.
Applied(r) ==
    /\ pc[r] = "applyModel"
    /\ model' = "fallback"
    /\ \/ kind[r] = "chat" /\ Goto(r, "body") /\ UNCHANGED attempt
       \/ kind[r] = "stream" /\ Again(r)
    /\ UNCHANGED <<keyIndex, url, lastUsage, closed, config, req, seen, took, hist>>

\* Mutants of Rotate: it stops at the last key; no wrap-around.
RotateToLast == keyIndex' = IF keyIndex + 1 < NKeys THEN keyIndex + 1 ELSE keyIndex
RotateNoWrap == keyIndex' = keyIndex + 1

\* rotateKey; with one key it leaves the index, which is 0, alone.
Rotate == keyIndex' = (keyIndex + 1) % NKeys

\* 401 or 403: a stream moves the index on from where it is by now, which need
\* not be the key that was refused; a chat leaves it.
Refused(r) ==
    /\ pc[r] = "flight" /\ ~KeyAccepted(r)
    /\ Again(r)
    /\ \/ kind[r] = "stream" /\ Rotate /\ Cross(r, ActiveSet, "rotation")
       \/ kind[r] = "chat" /\ UNCHANGED <<keyIndex, crossed>>
    /\ UNCHANGED <<url, model, lastUsage, closed, config, req, seen, took, rows>>

\* Any other error before the answer.
SendFailed(r) ==
    /\ pc[r] = "flight"
    /\ Again(r)
    /\ crossed' = [crossed EXCEPT ![r] = @ \cup {"error"}]
    /\ UNCHANGED <<shared, config, req, seen, took, rows>>

-----------------------------------------------------------------------------
(* The answer *)

StreamAccepted(r) ==
    /\ pc[r] = "flight" /\ kind[r] = "stream" /\ KeyAccepted(r)
    /\ Goto(r, "read")
    /\ UNCHANGED <<shared, config, attempt, req, seen, took, hist>>

\* Mutant of StreamUsage: the first report is kept.
StreamUsageFirst(r) ==
    /\ pc[r] = "read" /\ seen[r] < MaxReports
    /\ lastUsage' = IF lastUsage = NoUsage THEN <<r, seen[r] + 1>> ELSE lastUsage
    /\ seen' = [seen EXCEPT ![r] = @ + 1]
    /\ UNCHANGED <<keyIndex, url, model, closed, config, pc, attempt, req, took, hist>>

\* processSSEData meets a usage report; a provider may send several.
StreamUsage(r) ==
    /\ pc[r] = "read" /\ seen[r] < MaxReports
    /\ lastUsage' = <<r, seen[r] + 1>>
    /\ seen' = [seen EXCEPT ![r] = @ + 1]
    /\ UNCHANGED <<keyIndex, url, model, closed, config, pc, attempt, req, took, hist>>

\* readStream fails: a reset before anything was emitted is another attempt,
\* anything else the end, without a call of recordStreamCall.
StreamBroken(r) ==
    /\ pc[r] = "read"
    /\ \/ seen[r] = 0 /\ Again(r)
       \/ Goto(r, "failed") /\ UNCHANGED attempt
    /\ crossed' = [crossed EXCEPT ![r] = @ \cup {"error"}]
    /\ UNCHANGED <<shared, config, req, seen, took, rows>>

\* Mutant of TakeUsage: lastUsage is not reset.
TakeUsageKeeps(r) == UNCHANGED lastUsage

\* recordStreamCall: whatever lastUsage holds by now is taken.
TakeUsage(r) == lastUsage' = NoUsage

StreamEnded(r) ==
    /\ pc[r] = "read"
    /\ took' = [took EXCEPT ![r] = lastUsage]
    /\ TakeUsage(r)
    /\ Goto(r, "record")
    /\ UNCHANGED <<keyIndex, url, model, closed, config, attempt, req, seen, hist>>

\* The attempts are used up: recordStreamCall drops what it takes.
StreamExhausted(r) ==
    /\ pc[r] = "exhausted"
    /\ TakeUsage(r)
    /\ Goto(r, "failed")
    /\ UNCHANGED <<keyIndex, url, model, closed, config, attempt, req, seen, took, hist>>

\* chatDirect: the usage is in the answer, if at all.
ChatAnswered(r) ==
    /\ pc[r] = "flight" /\ kind[r] = "chat" /\ KeyAccepted(r)
    /\ \/ seen' = [seen EXCEPT ![r] = 1] /\ took' = [took EXCEPT ![r] = <<r, 1>>]
       \/ UNCHANGED <<seen, took>>
    /\ Goto(r, "record")
    /\ UNCHANGED <<shared, config, attempt, req, hist>>

\* UsageTracker.Record takes the statement under mu ...
TrackTake(r) ==
    /\ pc[r] = "record"
    /\ Goto(r, IF closed THEN "ok" ELSE "exec")
    /\ UNCHANGED <<shared, config, attempt, req, seen, took, hist>>

\* ... and executes it, which fails on a closed one, and may fail otherwise (a
\* locked or full database); Telemetry drops the error.
TrackExec(r) ==
    /\ pc[r] = "exec"
    /\ Goto(r, "ok")
    /\ \/ ~closed /\ rows' = [rows EXCEPT ![r] = @ + 1] /\ UNCHANGED crossed
       \/ crossed' = [crossed EXCEPT ![r] = @ \cup {"exec"}] /\ UNCHANGED rows
    /\ UNCHANGED <<shared, config, attempt, req, seen, took>>

CloseTracker ==
    /\ ~closed
    /\ closed' = TRUE
    /\ UNCHANGED <<keyIndex, url, model, lastUsage, config, pc, attempt, req, seen, took, hist>>

Request(r) ==
    \/ Start(r) \/ BuildBody(r) \/ BuildRequest(r) \/ Resend(r)
    \/ ApplyURL(r) \/ ApplyModel(r) \/ Applied(r) \/ Refused(r) \/ SendFailed(r)
    \/ StreamAccepted(r) \/ StreamUsage(r) \/ StreamBroken(r) \/ StreamEnded(r)
    \/ StreamExhausted(r) \/ ChatAnswered(r) \/ TrackTake(r) \/ TrackExec(r)

Next == (\E r \in Requests : Request(r)) \/ CloseTracker

Spec == Init /\ [][Next]_vars

-----------------------------------------------------------------------------
Usage == ((Requests \cup {Earlier}) \X (1..(MaxReports + 1))) \cup {NoUsage}

TypeOK ==
    /\ keyIndex \in Keys
    /\ url \in Providers \cup {"writing"} /\ model \in Providers \cup {"writing"}
    /\ lastUsage \in Usage /\ closed \in BOOLEAN
    /\ good \in [Providers -> SUBSET Keys] /\ kind \in [Requests -> {"stream", "chat"}]
    /\ pc \in [Requests -> {"idle", "body", "url", "flight", "failover", "applyURL",
                            "applyModel", "read", "exhausted", "record", "exec", "ok", "failed"}]
    /\ attempt \in [Requests -> 0..(TotalAttempts + 1)]
    /\ req \in [Requests -> [model : Providers \cup {"torn"},
                             url : Providers \cup {"torn"}, key : Keys]]
    /\ seen \in [Requests -> 0..(MaxReports + 1)] /\ took \in [Requests -> Usage]
    /\ rows \in [Requests -> 0..1]
    /\ crossed \in [Requests -> SUBSET {"rotation", "error", "stream", "failover", "exec"}]

(* README.detail.md:36: "Auto-rotate API keys on 401/403".  A stream that   *)
(* no other's rotation or failover crosses fails on 401/403 only if its     *)
(* provider accepts no key, whichever key the requests before it left the   *)
(* index at, as long as it has an attempt for each.                         *)
LoneStreamFindsKey ==
    NKeys <= MaxReconnect + 1 =>
        \A r \in Requests :
            pc[r] = "failed" /\ kind[r] = "stream" /\ crossed[r] \cap {"rotation", "failover", "error"} = {}
                => good[req[r].url] = {}

(* A request goes to the provider whose model it names, in one piece,       *)
(* unless another request was failing over at some time since it began: the *)
(* writes of applyFailover never mix up the request that makes them, or one *)
(* that begins after them.                                                  *)
TargetsAgree ==
    \A r \in Requests :
        pc[r] = "flight" /\ "failover" \notin crossed[r]
            => req[r].url \in Providers /\ req[r].model = req[r].url

(* README.detail.md:53, for Chat: "switches to OPENAI_FALLBACK_MODEL after  *)
(* retry exhaustion".  A chat that fails has asked the fallback model at    *)
(* the fallback's address, whoever else failed over meanwhile.              *)
ChatAsksFallback ==
    HasFallback =>
        \A r \in Requests : pc[r] = "failed" /\ kind[r] = "chat"
            => req[r].url = "fallback" /\ req[r].model = "fallback"

(* A call is charged the last usage its provider reported: a chat always, a *)
(* stream if no other stream overlaps it.  Without a report a lone stream   *)
(* is charged nothing, or what an earlier stream that failed after its      *)
(* report left in lastUsage.                                                *)
UsageOwner ==
    \A r \in Requests :
        pc[r] \in {"record", "exec", "ok"} /\ (kind[r] = "chat" \/ "stream" \notin crossed[r]) =>
            \/ seen[r] > 0 /\ took[r] = <<r, seen[r]>>
            \/ seen[r] = 0 /\ took[r] = NoUsage
            \/ /\ seen[r] = 0 /\ kind[r] = "stream"
               /\ took[r][1] \in {Earlier} \cup {s \in Requests : pc[s] = "failed"}

(* No usage report is charged to two calls, and a call that succeeded has   *)
(* its row in the tracker, once, unless the shutdown closed that or the     *)
(* statement failed.                                                        *)
UsageCountedOnce ==
    /\ \A r, s \in Requests : r # s /\ took[r] = took[s] => took[r] = NoUsage
    /\ \A r \in Requests : pc[r] = "ok" => rows[r] = 1 \/ closed \/ "exec" \in crossed[r]
=============================================================================
