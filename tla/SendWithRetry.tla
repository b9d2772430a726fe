---------------------------- MODULE SendWithRetry ----------------------------
(***************************************************************************)
(* protocol/retry.go, with the health checker of health_check.go and       *)
(* health_manager.go: the senders of one vendor, the vendor's breaker that *)
(* they and the periodic health probe share, and the provider itself,      *)
(* which goes down and comes back.                                         *)
(*                                                                         *)
(* Installed says whether vendorCircuitBreaker holds a breaker for the     *)
(* vendor, which NewOpenAI then registers with the health manager too.     *)
(***************************************************************************)
EXTENDS CircuitBreaker, FiniteSets

CONSTANTS
    Senders,        \* concurrent SendWithRetry calls
    MaxRetries,     \* MaxRetries (10)
    Installed,
    MaxStreak       \* bound, needed without a breaker only: failures in a row

ASSUME RetryAssumption ==
    /\ IsFiniteSet(Senders)
    /\ MaxRetries \in Nat /\ MaxStreak \in Nat
    /\ Installed \in BOOLEAN

VARIABLES
    pc,         \* per sender
    attempt,    \* per sender: the loop counter
    status,     \* HealthChecker.status
    probe,      \* the health checker: "idle", or what its HEAD request gave
    up,         \* whether the provider answers
    streak      \* history: failures recorded since the vendor was last heard
                \* of, or since the breaker let trial requests through

vars == <<breaker, pc, attempt, status, probe, up, streak>>

Init ==
    /\ BreakerInit
    /\ pc = [s \in Senders |-> "idle"]
    /\ attempt = [s \in Senders |-> 0]
    /\ status = "unknown"
    /\ probe = "idle"
    /\ up = TRUE
    /\ streak = 0

Goto(s, l) == pc' = [pc EXCEPT ![s] = l]

\* The history variable follows what the step does to the breaker.
Track(failures) ==
    streak' = IF state # "HalfOpen" /\ state' = "HalfOpen" THEN 0 ELSE streak + failures

\* Calls on the breaker, skipped when there is none.
CheckVendor(failed, failures) ==
    /\ IF Installed THEN Check(failed) ELSE UNCHANGED breaker
    /\ Track(failures)

SuccessVendor ==
    /\ IF Installed THEN Success ELSE UNCHANGED breaker
    /\ streak' = IF state = "Open" THEN streak ELSE 0

-----------------------------------------------------------------------------
Start(s) ==
    /\ pc[s] = "idle"
    /\ attempt' = [attempt EXCEPT ![s] = 0]
    /\ Goto(s, "status")
    /\ UNCHANGED <<breaker, status, probe, up, streak>>

\* The select between ctx.Done() and the backoff timer.
Backoff(s) ==
    /\ pc[s] = "backoff"
    /\ Goto(s, "status") \/ Goto(s, "error")
    /\ UNCHANGED <<breaker, attempt, status, probe, up, streak>>

\* HealthManager.GetStatus: an unhealthy status is followed by a look at the
\* breaker, if there is one, which may itself become half-open by it.
ReadStatus(s) ==
    /\ pc[s] = "status"
    /\ Goto(s, IF status = "unhealthy" /\ Installed THEN "health" ELSE "gate")
    /\ UNCHANGED <<breaker, attempt, status, probe, up, streak>>

HealthGate(s) ==
    /\ pc[s] = "health"
    /\ Goto(s, IF Allows(FALSE) THEN "gate" ELSE "error")
    /\ CheckVendor(FALSE, 0)
    /\ UNCHANGED <<attempt, status, probe, up>>

\* The breaker's own gate, before every request.  The mutant forgets it.
NoGate(s) ==
    /\ pc[s] = "gate"
    /\ Goto(s, "flight")
    /\ UNCHANGED <<breaker, attempt, status, probe, up, streak>>
Gate(s) ==
    /\ pc[s] = "gate"
    /\ Goto(s, IF Installed /\ ~Allows(FALSE) THEN "error" ELSE "flight")
    /\ CheckVendor(FALSE, 0)
    /\ UNCHANGED <<attempt, status, probe, up>>

\* client.Do returns.  Alive: status 200, or 401/403.  Failed: a transport error
\* or a retryable status.  Another status, or the error of a done ctx, ends the
\* call and records nothing.
Respond(s) ==
    /\ pc[s] = "flight"
    /\ \/ up /\ Goto(s, "alive")
       \/ ~up /\ Goto(s, "failed")
       \/ Goto(s, "error")
    /\ UNCHANGED <<breaker, attempt, status, probe, up, streak>>

\* By the time the outcome is recorded the breaker, and the provider, may be in
\* another state than when the request was let through.
RecordSuccess(s) ==
    /\ pc[s] = "alive"
    /\ SuccessVendor
    /\ Goto(s, "ok") \/ Goto(s, "error")
    /\ UNCHANGED <<attempt, status, probe, up>>

RecordFailure(s) ==
    /\ pc[s] = "failed"
    /\ Installed \/ streak < MaxStreak
    /\ CheckVendor(TRUE, 1)
    /\ attempt' = [attempt EXCEPT ![s] = @ + 1]
    /\ Goto(s, IF attempt[s] < MaxRetries THEN "backoff" ELSE "error")
    /\ UNCHANGED <<status, probe, up>>

Return(s) ==
    /\ pc[s] \in {"ok", "error"}
    /\ Goto(s, "idle")
    /\ UNCHANGED <<breaker, attempt, status, probe, up, streak>>

\* streamWithFailover has read a stream to its end and reports a success again,
\* long after the one of its response.
StreamEnd(s) ==
    /\ pc[s] = "ok"
    /\ SuccessVendor
    /\ Goto(s, "idle")
    /\ UNCHANGED <<attempt, status, probe, up>>

\* HealthChecker.check: the HEAD request, then recordSuccess or recordFailure.  It
\* goes to the vendor's health endpoint, not to the one the senders use, has five
\* seconds, and anything but 200 or 401 (403, 404, 405, 429 too) is a failure: what
\* it gives does not follow from whether the provider answers requests.
ProbeSend ==
    /\ probe = "idle"
    /\ probe' \in {"healthy", "unhealthy"}
    /\ UNCHANGED <<breaker, pc, attempt, status, up, streak>>

ProbeRecord ==
    /\ probe # "idle"
    /\ probe' = "idle"
    /\ status' = probe
    /\ IF probe = "healthy" THEN SuccessVendor ELSE CheckVendor(TRUE, 0)
    /\ UNCHANGED <<pc, attempt, up>>

Flip ==
    /\ up' = ~up
    /\ UNCHANGED <<breaker, pc, attempt, status, probe, streak>>

Tick ==
    /\ Elapse
    /\ UNCHANGED <<pc, attempt, status, probe, up, streak>>

\* The steps of a call once it has begun.
Sender(s) ==
    \/ Backoff(s) \/ ReadStatus(s) \/ HealthGate(s) \/ Gate(s)
    \/ Respond(s) \/ RecordSuccess(s) \/ RecordFailure(s) \/ Return(s)
    \/ StreamEnd(s)

Probe == ProbeSend \/ ProbeRecord

Next == (\E s \in Senders : Start(s) \/ Sender(s)) \/ Probe \/ Flip \/ Tick

(* Goroutines run, requests time out, and the health ticker keeps firing.   *)
(* Nobody is assumed to start a call, and the provider need not come back.  *)
Fairness ==
    /\ \A s \in Senders : WF_vars(Sender(s))
    /\ WF_vars(Probe)
    /\ WF_vars(Tick)

Spec == Init /\ [][Next]_vars /\ Fairness

-----------------------------------------------------------------------------
TypeOK ==
    /\ BreakerTypeOK
    /\ pc \in [Senders -> {"idle", "backoff", "status", "health", "gate", "flight",
                         "alive", "failed", "ok", "error"}]
    /\ attempt \in [Senders -> 0..(MaxRetries + 1)]
    /\ status \in {"unknown", "healthy", "unhealthy"}
    /\ probe \in {"idle", "healthy", "unhealthy"}
    /\ up \in BOOLEAN
    /\ streak \in Nat

(* README.md:20, "Circuit breaker: per-vendor failure isolation": once the   *)
(* threshold is reached only the requests already past the gate can still   *)
(* fail, until the breaker lets a trial request through.                    *)
FailureIsolation ==
    streak <= FailureThreshold + Cardinality(Senders) - 1

(* An open breaker opens up only by turning half-open after Timeout: no     *)
(* late answer of an earlier request, and no health probe, closes it early. *)
CooldownRespected ==
    [][state = "Open" /\ state' # "Open" => state' = "HalfOpen" /\ age = Timeout]_vars

(* README.md:20, "and auto-recovery": if the provider stays up, its health  *)
(* endpoint too, and requests keep coming (only a call moves an open        *)
(* breaker on), the breaker closes for good, whatever trials and stale      *)
(* failures came before.  The health endpoint is needed: recordFailure of   *)
(* health_check.go opens a half-open breaker however many requests succeed. *)
AutoRecovery ==
    <>[](up /\ probe # "unhealthy") /\ []<>(\E s \in Senders : pc[s] = "status")
        => <>[](state = "Closed")

(* What TypeOK needs to be inductive: a call under way has not used up its   *)
(* retries.                                                                 *)
BudgetInv ==
    \A s \in Senders : pc[s] \notin {"idle", "ok", "error"} => attempt[s] <= MaxRetries

(* The inductive strengthening of FailureIsolation: the countdown accounts  *)
(* for the failures while the breaker is closed, and while it is open those *)
(* still to come are among the requests let through before it tripped.      *)
InFlight == {s \in Senders : pc[s] \in {"flight", "alive", "failed"}}

IsolationInv ==
    /\ CountdownInv
    /\ state = "Closed" => streak + failureThreshold <= FailureThreshold
    /\ state = "HalfOpen" => streak = 0
    /\ state = "Open" => streak + Cardinality(InFlight) <= FailureThreshold + Cardinality(Senders) - 1
=============================================================================
