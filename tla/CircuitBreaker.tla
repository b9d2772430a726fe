--------------------------- MODULE CircuitBreaker ---------------------------
(***************************************************************************)
(* protocol/types.go: the per-vendor CircuitBreaker.  Check and Success    *)
(* run under its mutex, so each is one step.  failureThreshold counts down *)
(* from options.FailureThreshold; age is time.Since(lastFailure) in ticks, *)
(* saturating at Timeout, beyond which the code does not tell it apart.    *)
(***************************************************************************)
EXTENDS Integers

CONSTANTS
    FailureThreshold,   \* options.FailureThreshold, 5 by default
    Timeout             \* options.Timeout in ticks

ASSUME BreakerAssumption ==
    /\ FailureThreshold \in Nat \ {0}
    /\ Timeout \in Nat

VARIABLES state, failureThreshold, age

breaker == <<state, failureThreshold, age>>

BreakerInit ==
    /\ state = "Closed"
    /\ failureThreshold = FailureThreshold
    /\ age = Timeout

\* The result of Check(err); failed says that err is not nil, which isFailure
\* takes for a failure whatever the error.
Allows(failed) ==
    \/ state = "Closed" /\ ~(failed /\ failureThreshold <= 1)
    \/ state = "Open" /\ age = Timeout
    \/ state = "HalfOpen" /\ ~failed

\* Mutant of Check: the countdown runs out and nothing happens.
CheckNeverTrips(failed) ==
    \/ state = "Closed" /\ failed /\ failureThreshold' = failureThreshold - 1 /\ UNCHANGED <<state, age>>
    \/ ~(state = "Closed" /\ failed) /\ UNCHANGED breaker

\* CircuitBreaker.Check(err).
Check(failed) ==
    \/ /\ state = "Closed" /\ failed
       /\ failureThreshold' = failureThreshold - 1
       /\ IF failureThreshold <= 1
          THEN state' = "Open" /\ age' = 0
          ELSE UNCHANGED <<state, age>>
    \/ /\ state = "Open" /\ age = Timeout
       /\ state' = "HalfOpen"
       /\ UNCHANGED <<failureThreshold, age>>
    \/ /\ state = "HalfOpen" /\ failed
       /\ state' = "Open" /\ age' = 0
       /\ UNCHANGED failureThreshold
    \/ /\ \/ state \in {"Closed", "HalfOpen"} /\ ~failed
          \/ state = "Open" /\ age < Timeout
       /\ UNCHANGED breaker

\* Mutants of Success: it closes the breaker from any state, or never.
SuccessNeverCloses ==
    /\ failureThreshold' = IF state = "Closed" THEN FailureThreshold ELSE failureThreshold
    /\ UNCHANGED <<state, age>>
SuccessFromOpen ==
    /\ state' = "Closed"
    /\ failureThreshold' = FailureThreshold
    /\ UNCHANGED age

\* CircuitBreaker.Success(): ignored while open.
Success ==
    /\ state' = IF state = "HalfOpen" THEN "Closed" ELSE state
    /\ failureThreshold' = IF state = "Open" THEN failureThreshold ELSE FailureThreshold
    /\ UNCHANGED age

\* Time passes; lastFailure only matters while the breaker is open.
Elapse ==
    /\ state = "Open" /\ age < Timeout
    /\ age' = age + 1
    /\ UNCHANGED <<state, failureThreshold>>

BreakerTypeOK ==
    /\ state \in {"Closed", "Open", "HalfOpen"}
    /\ failureThreshold \in 0..FailureThreshold
    /\ age \in 0..Timeout

(* The countdown belongs to the state: a closed breaker still tolerates a   *)
(* failure, and one that tripped has used its tolerance up until it closes. *)
CountdownInv ==
    /\ state = "Closed" => failureThreshold >= 1
    /\ state # "Closed" => failureThreshold = 0
=============================================================================
