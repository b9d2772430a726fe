------------------------- MODULE SendWithRetryProofs -------------------------
(***************************************************************************)
(* For every number of senders, threshold, timeout and retry limit, the    *)
(* breaker shared by the senders of a vendor and its health probe keeps    *)
(* its types, is not closed early, and bounds the failures in a row.       *)
(***************************************************************************)
EXTENDS SendWithRetry, FiniteSetTheorems, TLAPS

USE DEF breaker

(* Check takes a failure off the countdown only while the breaker is       *)
(* closed, and leaves a state in which the countdown is accounted for.     *)
LEMMA CheckKeepsBreaker ==
    ASSUME BreakerTypeOK, CountdownInv, NEW failed \in BOOLEAN, Check(failed)
    PROVE  BreakerTypeOK' /\ CountdownInv'
  BY BreakerAssumption DEF BreakerTypeOK, CountdownInv, Check

(* Success resets the countdown, in no state but an open one.              *)
LEMMA SuccessKeepsBreaker ==
    ASSUME BreakerTypeOK, CountdownInv, Success
    PROVE  BreakerTypeOK' /\ CountdownInv'
  BY BreakerAssumption DEF BreakerTypeOK, CountdownInv, Success

(* The same for the calls made through vendorCircuitBreaker.               *)
LEMMA VendorCalls ==
    ASSUME TypeOK, CountdownInv,
           \/ \E failed \in BOOLEAN, n \in {0, 1} : CheckVendor(failed, n)
           \/ SuccessVendor
    PROVE  BreakerTypeOK' /\ CountdownInv' /\ streak' \in Nat
<1>1. ASSUME NEW failed \in BOOLEAN, NEW n \in {0, 1}, CheckVendor(failed, n)
      PROVE  BreakerTypeOK' /\ CountdownInv' /\ streak' \in Nat
  <2>1. streak' \in Nat
    BY <1>1 DEF CheckVendor, Track, TypeOK
  <2>2. CASE Installed
    BY <1>1, <2>1, <2>2, CheckKeepsBreaker DEF CheckVendor, TypeOK
  <2>3. CASE ~Installed
    BY <1>1, <2>1, <2>3 DEF CheckVendor, TypeOK, BreakerTypeOK, CountdownInv
  <2> QED
    BY <2>2, <2>3
<1>2. CASE SuccessVendor
  <2>1. streak' \in Nat
    BY <1>2 DEF SuccessVendor, TypeOK
  <2>2. CASE Installed
    BY <1>2, <2>1, <2>2, SuccessKeepsBreaker DEF SuccessVendor, TypeOK
  <2>3. CASE ~Installed
    BY <1>2, <2>1, <2>3 DEF SuccessVendor, TypeOK, BreakerTypeOK, CountdownInv
  <2> QED
    BY <2>2, <2>3
<1> QED
  BY <1>1, <1>2

(* The steps that leave the breaker alone, and those of the attempt count. *)
LEMMA TypeStep ==
    TypeOK /\ CountdownInv /\ BudgetInv /\ [Next]_vars => TypeOK' /\ CountdownInv' /\ BudgetInv'
<1> SUFFICES ASSUME TypeOK, CountdownInv, BudgetInv, [Next]_vars
             PROVE  TypeOK' /\ CountdownInv' /\ BudgetInv'
  OBVIOUS
<1> USE BreakerAssumption, RetryAssumption
<1> DEFINE Quiet == UNCHANGED <<breaker, streak>>
           Kept == TypeOK' /\ CountdownInv' /\ BudgetInv'
<1>0. Quiet => BreakerTypeOK' /\ CountdownInv' /\ streak' \in Nat
  BY DEF TypeOK, BreakerTypeOK, CountdownInv
<1>1. ASSUME NEW s \in Senders, Start(s) PROVE Kept
  BY <1>0, <1>1 DEF Start, Goto, TypeOK, BudgetInv
<1>2. ASSUME NEW s \in Senders, Backoff(s) PROVE Kept
  BY <1>0, <1>2 DEF Backoff, Goto, TypeOK, BudgetInv
<1>3. ASSUME NEW s \in Senders, ReadStatus(s) PROVE Kept
  BY <1>0, <1>3 DEF ReadStatus, Goto, TypeOK, BudgetInv
<1>4. ASSUME NEW s \in Senders, HealthGate(s) PROVE Kept
  BY <1>4, VendorCalls DEF HealthGate, Goto, TypeOK, BudgetInv
<1>5. ASSUME NEW s \in Senders, Gate(s) PROVE Kept
  BY <1>5, VendorCalls DEF Gate, Goto, TypeOK, BudgetInv
<1>6. ASSUME NEW s \in Senders, Respond(s) PROVE Kept
  BY <1>0, <1>6 DEF Respond, Goto, TypeOK, BudgetInv
<1>7. ASSUME NEW s \in Senders, RecordSuccess(s) PROVE Kept
  BY <1>7, VendorCalls DEF RecordSuccess, Goto, TypeOK, BudgetInv
<1>8. ASSUME NEW s \in Senders, RecordFailure(s) PROVE Kept
  <2>1. BreakerTypeOK' /\ CountdownInv' /\ streak' \in Nat
    BY <1>8, VendorCalls DEF RecordFailure
  <2>2. attempt[s] \in 0..MaxRetries
    BY <1>8 DEF RecordFailure, TypeOK, BudgetInv
  <2>3. /\ attempt' = [attempt EXCEPT ![s] = attempt[s] + 1]
        /\ pc' = [pc EXCEPT ![s] = IF attempt[s] < MaxRetries THEN "backoff" ELSE "error"]
        /\ UNCHANGED <<status, probe, up>>
    BY <1>8 DEF RecordFailure, Goto
  <2>4. BudgetInv'
    BY <2>2, <2>3 DEF TypeOK, BudgetInv
  <2>5. attempt' \in [Senders -> 0..(MaxRetries + 1)]
    BY <2>2, <2>3 DEF TypeOK
  <2> QED
    BY <2>1, <2>3, <2>4, <2>5 DEF TypeOK
<1>9. ASSUME NEW s \in Senders, Return(s) PROVE Kept
  BY <1>0, <1>9 DEF Return, Goto, TypeOK, BudgetInv
<1>10. CASE ProbeSend
  BY <1>0, <1>10 DEF ProbeSend, TypeOK, BudgetInv
<1>11. CASE ProbeRecord
  BY <1>11, VendorCalls DEF ProbeRecord, TypeOK, BudgetInv
<1>12. CASE Flip
  BY <1>0, <1>12 DEF Flip, TypeOK, BudgetInv
<1>13. CASE Tick
  BY <1>13 DEF Tick, Elapse, TypeOK, BreakerTypeOK, CountdownInv, BudgetInv
<1>14. ASSUME NEW s \in Senders, StreamEnd(s) PROVE Kept
  BY <1>14, VendorCalls DEF StreamEnd, Goto, TypeOK, BudgetInv
<1>15. CASE UNCHANGED vars
  BY <1>0, <1>15 DEF vars, TypeOK, BudgetInv
<1> QED
  BY <1>1, <1>2, <1>3, <1>4, <1>5, <1>6, <1>7, <1>8, <1>9, <1>10, <1>11, <1>12,
     <1>13, <1>14, <1>15 DEF Next, Sender, Probe

(* The types, the countdown and the retry budget hold throughout.          *)
LEMMA BreakerHolds == Spec => [](TypeOK /\ CountdownInv /\ BudgetInv)
<1>1. Init => TypeOK /\ CountdownInv /\ BudgetInv
  BY BreakerAssumption, RetryAssumption
     DEF Init, BreakerInit, TypeOK, BreakerTypeOK, CountdownInv, BudgetInv
<1> QED
  BY <1>1, TypeStep, PTL DEF Spec

(* The breaker's countdown never leaves its range, whichever senders and   *)
(* probes report to it, and no sender goes beyond its retries.             *)
THEOREM RetryTypeOK == Spec => []TypeOK
  BY BreakerHolds, PTL

(* An open breaker is left for half-open alone, and after its timeout: a   *)
(* late success of a request or of the probe does not close it.            *)
THEOREM RetryCooldown == Spec => CooldownRespected
<1> DEFINE Kept == state = "Open" /\ state' # "Open" => state' = "HalfOpen" /\ age = Timeout
<1>1. TypeOK /\ [Next]_vars => [Kept]_vars
  <2> SUFFICES ASSUME TypeOK, Next PROVE Kept
    OBVIOUS
  <2>1. \/ UNCHANGED state
        \/ SuccessVendor
        \/ \E failed \in BOOLEAN, n \in {0, 1} : CheckVendor(failed, n)
    BY DEF Next, Sender, Probe, Start, Backoff, ReadStatus, HealthGate, Gate,
           Respond, RecordSuccess, RecordFailure, Return, StreamEnd, ProbeSend,
           ProbeRecord, Flip, Tick, Elapse
  <2> QED
    BY <2>1 DEF SuccessVendor, CheckVendor, Success, Check, TypeOK, BreakerTypeOK
<1> QED
  BY <1>1, RetryTypeOK, PTL DEF Spec, CooldownRespected

-----------------------------------------------------------------------------
(* The requests let through are finitely many, and those left when one of  *)
(* them has ended are fewer.                                               *)
LEMMA InFlightFacts ==
    /\ Cardinality(Senders) \in Nat
    /\ Cardinality(InFlight) \in Nat
    /\ \A T \in SUBSET InFlight :
         Cardinality(T) \in Nat /\ Cardinality(T) <= Cardinality(InFlight)
    /\ \A T \in SUBSET Senders :
         Cardinality(T) \in Nat /\ (T # Senders => Cardinality(T) <= Cardinality(Senders) - 1)
    /\ \A T \in SUBSET InFlight :
         T # InFlight => Cardinality(T) <= Cardinality(InFlight) - 1
<1>1. IsFiniteSet(Senders) /\ IsFiniteSet(InFlight)
  BY RetryAssumption, FS_Subset DEF InFlight
<1>2. ASSUME NEW S, IsFiniteSet(S), NEW T \in SUBSET S
      PROVE  /\ Cardinality(S) \in Nat /\ Cardinality(T) \in Nat
             /\ Cardinality(T) <= Cardinality(S)
             /\ T # S => Cardinality(T) <= Cardinality(S) - 1
  <2>1. IsFiniteSet(T) /\ Cardinality(T) <= Cardinality(S)
    BY <1>2, FS_Subset
  <2>2. Cardinality(S) = Cardinality(T) => S = T
    BY <1>2, FS_Subset
  <2>3. Cardinality(S) \in Nat /\ Cardinality(T) \in Nat
    BY <1>2, <2>1, FS_CardinalityType
  <2> QED
    BY <2>1, <2>2, <2>3
<1> QED
  BY <1>1, <1>2

(* How the steps change the set of requests in flight: a sender leaves it, *)
(* it stays as it is, or the gate let one in, which it never does while    *)
(* the breaker stays open.                                                 *)
LEMMA InFlightStep ==
    ASSUME TypeOK, TypeOK', Next, Installed, state' = "Open"
    PROVE  InFlight' \subseteq InFlight
<1> USE DEF InFlight, TypeOK
<1>1. ASSUME NEW s \in Senders, Gate(s) PROVE pc'[s] = "error"
  <2>1. CASE state = "Open" /\ age < Timeout
    BY <1>1, <2>1, BreakerAssumption DEF Gate, Goto, Allows, BreakerTypeOK
  <2>2. CASE ~(state = "Open" /\ age < Timeout)
    BY <1>1, <2>2 DEF Gate, CheckVendor, Check, BreakerTypeOK
  <2> QED
    BY <2>1, <2>2
<1>2. ASSUME NEW s \in Senders, Gate(s) PROVE InFlight' \subseteq InFlight
  BY <1>1, <1>2 DEF Gate, Goto
<1>3. ASSUME NEW s \in Senders, Start(s) \/ Backoff(s) \/ ReadStatus(s) \/ Return(s)
                                  \/ StreamEnd(s)
      PROVE  InFlight' \subseteq InFlight
  BY <1>3 DEF Start, Backoff, ReadStatus, Return, StreamEnd, Goto
<1>4. ASSUME NEW s \in Senders, HealthGate(s) PROVE InFlight' \subseteq InFlight
  BY <1>4 DEF HealthGate, Goto
<1>5. ASSUME NEW s \in Senders, Respond(s) PROVE InFlight' \subseteq InFlight
  BY <1>5 DEF Respond, Goto
<1>6. ASSUME NEW s \in Senders, RecordSuccess(s) \/ RecordFailure(s)
      PROVE  InFlight' \subseteq InFlight
  BY <1>6 DEF RecordSuccess, RecordFailure, Goto
<1>7. CASE ProbeSend \/ ProbeRecord \/ Flip \/ Tick
  BY <1>7 DEF ProbeSend, ProbeRecord, Flip, Tick
<1> QED
  BY <1>2, <1>3, <1>4, <1>5, <1>6, <1>7 DEF Next, Sender, Probe

(* A recorded failure ends a request that was in flight.                   *)
LEMMA RecordFailureLeaves ==
    ASSUME TypeOK, NEW s \in Senders, RecordFailure(s)
    PROVE  InFlight' \subseteq InFlight /\ InFlight' # InFlight /\ InFlight' # Senders
<1>1. pc[s] = "failed" /\ pc'[s] \in {"backoff", "error"}
      /\ \A r \in Senders : r # s => pc'[r] = pc[r]
  BY DEF RecordFailure, Goto, TypeOK
<1> QED
  BY <1>1 DEF InFlight

(* What a call of Check may do to the breaker, whatever its argument.      *)
LEMMA CheckCases ==
    ASSUME TypeOK, Check(TRUE) \/ Check(FALSE)
    PROVE  \/ state = "Closed" /\ state' = "Closed" /\ failureThreshold' <= failureThreshold
           \/ state = "Closed" /\ state' = "Open" /\ failureThreshold <= 1
           \/ state = "Open" /\ state' = "HalfOpen"
           \/ state = "HalfOpen" /\ state' = "Open"
           \/ UNCHANGED <<state, failureThreshold>>
<1>1. CASE Check(TRUE)
  BY <1>1, BreakerAssumption DEF Check, TypeOK, BreakerTypeOK
<1>2. CASE Check(FALSE)
  BY <1>2, BreakerAssumption DEF Check, TypeOK, BreakerTypeOK
<1> QED
  BY <1>1, <1>2

(* IsolationInv through one step with a breaker installed.                 *)
LEMMA IsolationStep ==
    ASSUME Installed, TypeOK, TypeOK', CountdownInv', IsolationInv, [Next]_vars
    PROVE  IsolationInv'
<1> USE BreakerAssumption, RetryAssumption
<1> DEFINE Bound == FailureThreshold + Cardinality(Senders) - 1
           Isolated == /\ state' = "Closed" => streak' + failureThreshold' <= FailureThreshold
                       /\ state' = "HalfOpen" => streak' = 0
<1>0. InFlight \subseteq Senders /\ InFlight' \subseteq Senders
  BY DEF InFlight
<1>1. Cardinality(InFlight') \in Nat /\ Cardinality(InFlight) \in Nat /\ Cardinality(Senders) \in Nat
  BY <1>0, InFlightFacts
<1>2. CASE UNCHANGED vars
  BY <1>2 DEF vars, IsolationInv, CountdownInv, InFlight
<1>3. ASSUME NEW s \in Senders, RecordFailure(s) PROVE IsolationInv'
  <2>1. Check(TRUE) /\ Track(1)
    BY <1>3 DEF RecordFailure, CheckVendor
  <2>2. Isolated
    <3>1. CASE state = "Closed"
      BY <2>1, <3>1 DEF Check, Track, IsolationInv, TypeOK, BreakerTypeOK
    <3>2. CASE state = "Open"
      BY <2>1, <3>2 DEF Check, Track, IsolationInv, TypeOK, BreakerTypeOK
    <3>3. CASE state = "HalfOpen"
      BY <2>1, <3>3 DEF Check, Track, IsolationInv, TypeOK, BreakerTypeOK
    <3> QED
      BY <3>1, <3>2, <3>3 DEF TypeOK, BreakerTypeOK
  <2>3. /\ Cardinality(InFlight') <= Cardinality(Senders) - 1
        /\ Cardinality(InFlight') <= Cardinality(InFlight) - 1
    BY <1>0, <1>3, RecordFailureLeaves, InFlightFacts
  <2>4. state' = "Open" => streak' + Cardinality(InFlight') <= Bound
    BY <1>1, <2>1, <2>3 DEF Check, Track, IsolationInv, CountdownInv, TypeOK, BreakerTypeOK
  <2> QED
    BY <2>2, <2>4 DEF IsolationInv
<1>4. ASSUME Next, UNCHANGED <<state, failureThreshold, streak>> PROVE IsolationInv'
  <2>1. state' = "Open" => Cardinality(InFlight') <= Cardinality(InFlight)
    BY <1>4, InFlightStep, InFlightFacts
  <2> QED
    BY <1>1, <1>4, <2>1 DEF IsolationInv, TypeOK, BreakerTypeOK
<1>5. ASSUME Next, Check(TRUE) \/ Check(FALSE), Track(0) PROVE IsolationInv'
  <2>1. /\ \/ state = "Closed" /\ state' = "Closed" /\ failureThreshold' <= failureThreshold
           \/ state = "Closed" /\ state' = "Open" /\ failureThreshold <= 1
           \/ state = "Open" /\ state' = "HalfOpen"
           \/ state = "HalfOpen" /\ state' = "Open"
           \/ UNCHANGED <<state, failureThreshold>>
        /\ streak' = IF state # "HalfOpen" /\ state' = "HalfOpen" THEN 0 ELSE streak + 0
    BY <1>5, CheckCases, Zenon DEF Track
  <2>2. Isolated
    <3>1. CASE state' = "Closed"
      <4>1. failureThreshold \in Nat /\ failureThreshold' \in Nat /\ streak \in Nat
        BY DEF TypeOK, BreakerTypeOK
      <4>2. state = "Closed" /\ streak' = streak
        BY <2>1, <3>1, <4>1
      <4>3. failureThreshold' <= failureThreshold
        BY <2>1, <3>1, <4>1
      <4>4. streak + failureThreshold <= FailureThreshold
        BY <4>2 DEF IsolationInv
      <4>5. streak + failureThreshold' <= FailureThreshold
        <5>1. \A a, b, c, d \in Nat : a + b <= c /\ d <= b => a + d <= c
          OBVIOUS
        <5>2. FailureThreshold \in Nat
          OBVIOUS
        <5> QED
          BY <4>1, <4>3, <4>4, <5>1, <5>2
      <4> QED
        BY <3>1, <4>2, <4>5
    <3>2. CASE state' = "HalfOpen"
      BY <2>1, <3>2 DEF IsolationInv, TypeOK, BreakerTypeOK
    <3> QED
      BY <3>1, <3>2
  <2>3. state' = "Open" => Cardinality(InFlight') <= Cardinality(InFlight)
    <3>1. Next
      BY <1>5
    <3> QED
      BY <3>1, InFlightStep, InFlightFacts
  <2>4. Cardinality(InFlight) <= Cardinality(Senders)
    BY <1>0, <1>1, InFlightFacts
  <2>5. state' = "Open" => streak' + Cardinality(InFlight') <= Bound
    BY <1>1, <2>1, <2>3, <2>4 DEF IsolationInv, CountdownInv, TypeOK, BreakerTypeOK
  <2> QED
    BY <2>2, <2>5 DEF IsolationInv
<1>6. ASSUME Next, SuccessVendor PROVE IsolationInv'
  <2>1. CASE state = "Open"
    <3>1. UNCHANGED <<state, failureThreshold, streak>>
      BY <1>6, <2>1 DEF SuccessVendor, Success
    <3> QED
      BY <1>4, <1>6, <3>1
  <2>2. CASE state # "Open"
    BY <1>6, <2>2 DEF SuccessVendor, Success, IsolationInv, TypeOK, BreakerTypeOK
  <2> QED
    BY <2>1, <2>2
<1>7. ASSUME Next
      PROVE  \/ \E s \in Senders : RecordFailure(s)
             \/ UNCHANGED <<state, failureThreshold, streak>>
             \/ CheckVendor(FALSE, 0) \/ CheckVendor(TRUE, 0)
             \/ SuccessVendor
  <2>1. ASSUME NEW s \in Senders, Start(s) \/ Sender(s), ~RecordFailure(s)
        PROVE  \/ UNCHANGED <<state, failureThreshold, streak>>
               \/ CheckVendor(FALSE, 0) \/ SuccessVendor
    BY <2>1, Zenon DEF Sender, Start, Backoff, ReadStatus, HealthGate, Gate, Respond,
                RecordSuccess, Return, StreamEnd
  <2>2. CASE Probe
    BY <2>2, Zenon DEF Probe, ProbeSend, ProbeRecord
  <2>3. CASE Flip \/ Tick
    BY <2>3 DEF Flip, Tick, Elapse
  <2> QED
    BY <1>7, <2>1, <2>2, <2>3 DEF Next
<1>8. ASSUME Next, CheckVendor(FALSE, 0) \/ CheckVendor(TRUE, 0) PROVE IsolationInv'
  <2>1. CASE CheckVendor(FALSE, 0)
    <3>1. Check(FALSE) /\ Track(0)
      BY <2>1 DEF CheckVendor
    <3> QED
      BY <1>5, <1>8, <3>1
  <2>2. CASE CheckVendor(TRUE, 0)
    <3>1. Check(TRUE) /\ Track(0)
      BY <2>2 DEF CheckVendor
    <3> QED
      BY <1>5, <1>8, <3>1
  <2> QED
    BY <1>8, <2>1, <2>2
<1> QED
  BY <1>2, <1>3, <1>4, <1>6, <1>7, <1>8

(* Once the breaker is installed, no interleaving of senders and probes    *)
(* makes the failures recorded in a row exceed the threshold by more than  *)
(* the requests that were let through before it tripped.                   *)
THEOREM RetryFailureIsolation ==
    ASSUME Installed
    PROVE  Spec => []FailureIsolation
<1>1. Init => IsolationInv
  BY BreakerAssumption DEF Init, BreakerInit, IsolationInv, CountdownInv
<1>2. TypeOK /\ TypeOK' /\ CountdownInv' /\ IsolationInv /\ [Next]_vars => IsolationInv'
  BY IsolationStep
<1>3. TypeOK /\ IsolationInv => FailureIsolation
  <2> SUFFICES ASSUME TypeOK, IsolationInv PROVE FailureIsolation
    OBVIOUS
  <2>1. CASE state = "Open"
    BY <2>1, InFlightFacts, BreakerAssumption DEF FailureIsolation, IsolationInv, TypeOK
  <2>2. CASE state # "Open"
    BY <2>2, InFlightFacts, BreakerAssumption
       DEF FailureIsolation, IsolationInv, CountdownInv, TypeOK, BreakerTypeOK
  <2> QED
    BY <2>1, <2>2
<1> QED
  BY <1>1, <1>2, <1>3, BreakerHolds, PTL DEF Spec
=============================================================================
