----------------------------- MODULE RateLimiter -----------------------------
(***************************************************************************)
(* protocol/ratelimit.go: the fixed-window limiter every Chat and Stream   *)
(* call passes first.  Wait holds the mutex for its whole body, the sleep  *)
(* until the window ends included, so one caller at a time is inside it.   *)
(*                                                                         *)
(* Time is kept relative to rl.window: age is time.Now() - rl.window in    *)
(* ticks, with every value of a minute or more merged into Minute, since   *)
(* the code only ever compares the difference with a minute.               *)
(***************************************************************************)
EXTENDS Naturals, FiniteSets

CONSTANTS
    Callers,        \* goroutines that call Wait
    rpm, tpm,       \* the two quotas; 0 switches a quota off
    Minute,         \* ticks in a window
    MaxTokens,      \* bound: the largest estimateTokens(req) of a caller
    MaxRequests     \* bound: no further call once rCount has reached it

Nobody == "nobody"

ASSUME RateLimiterAssumption ==
    /\ Nobody \notin Callers
    /\ rpm \in Nat /\ tpm \in Nat
    /\ Minute \in Nat \ {0}
    /\ MaxTokens \in Nat
    /\ MaxRequests \in Nat

VARIABLES
    mu,             \* holder of rl.mu, or Nobody
    age,            \* now.Sub(rl.window), saturating at Minute
    rCount, tCount, \* the counters of the current window
    pc,             \* per caller: where in Wait it is
    tokens,         \* per caller: the argument of its call
    done,           \* per caller: whether its ctx is done
    admitted,       \* history: requests let through since rl.window was set
    spent           \* history: their tokens

vars == <<mu, age, rCount, tCount, pc, tokens, done, admitted, spent>>

\* NewRateLimiter: the zero window is far in the past.
Init ==
    /\ mu = Nobody
    /\ age = Minute
    /\ rCount = 0 /\ tCount = 0
    /\ pc = [c \in Callers |-> "idle"]
    /\ tokens = [c \in Callers |-> 0]
    /\ done = [c \in Callers |-> FALSE]
    /\ admitted = 0 /\ spent = 0

Unlimited == rpm = 0 /\ tpm = 0

\* Mutants of OverQuota: an off-by-one, and the token quota forgotten.
OverQuotaOffByOne(r, t) == rpm > 0 /\ r > rpm + 1
OverQuotaNoTokens(r, t) == rpm > 0 /\ r > rpm

\* Must the caller sleep, given the counters that already include it?
OverQuota(r, t) ==
    \/ rpm > 0 /\ r > rpm
    \/ tpm > 0 /\ t > tpm

-----------------------------------------------------------------------------
\* A caller enters Wait; with both quotas off it returns before the mutex.
Call(c, n) ==
    /\ pc[c] = "idle"
    /\ tokens' = [tokens EXCEPT ![c] = n]
    /\ done' = [done EXCEPT ![c] = FALSE]
    /\ pc' = [pc EXCEPT ![c] = IF Unlimited THEN "admitted" ELSE "locking"]
    /\ UNCHANGED <<mu, age, rCount, tCount, admitted, spent>>

\* Lock, renew an expired window, count the request, and either return
\* (unlocking) or start to sleep with the mutex held.
Enter(c) ==
    LET fresh == age = Minute
        r == (IF fresh THEN 0 ELSE rCount) + 1
        t == (IF fresh THEN 0 ELSE tCount) + tokens[c]
    IN  /\ pc[c] = "locking"
        /\ mu = Nobody
        /\ r <= MaxRequests
        /\ age' = IF fresh THEN 0 ELSE age
        /\ rCount' = r
        /\ tCount' = t
        /\ \/ /\ OverQuota(r, t)
              /\ mu' = c
              /\ pc' = [pc EXCEPT ![c] = "sleeping"]
              /\ admitted' = IF fresh THEN 0 ELSE admitted
              /\ spent' = IF fresh THEN 0 ELSE spent
           \/ /\ ~OverQuota(r, t)
              /\ mu' = Nobody
              /\ pc' = [pc EXCEPT ![c] = "admitted"]
              /\ admitted' = (IF fresh THEN 0 ELSE admitted) + 1
              /\ spent' = (IF fresh THEN 0 ELSE spent) + tokens[c]
        /\ UNCHANGED <<tokens, done>>

\* Mutants of Wake: the old counters reduced by the quota instead of reset, and
\* the mutex kept.
WakeRefunds(c) ==
    /\ pc[c] = "sleeping" /\ age = Minute
    /\ age' = 0 /\ mu' = Nobody
    /\ rCount' = rCount - rpm /\ tCount' = tCount - tpm
    /\ pc' = [pc EXCEPT ![c] = "admitted"]
    /\ admitted' = 1 /\ spent' = tokens[c]
    /\ UNCHANGED <<tokens, done>>
WakeKeepsLock(c) ==
    /\ pc[c] = "sleeping" /\ age = Minute
    /\ age' = 0 /\ rCount' = 0 /\ tCount' = 0
    /\ pc' = [pc EXCEPT ![c] = "admitted"]
    /\ admitted' = 1 /\ spent' = tokens[c]
    /\ UNCHANGED <<mu, tokens, done>>

\* time.After(wait) fires at the end of the window: a new window begins, with
\* zero counts, and the sleeper goes through without being counted in it.
Wake(c) ==
    /\ pc[c] = "sleeping"
    /\ age = Minute
    /\ age' = 0
    /\ rCount' = 0 /\ tCount' = 0
    /\ mu' = Nobody
    /\ pc' = [pc EXCEPT ![c] = "admitted"]
    /\ admitted' = 1
    /\ spent' = tokens[c]
    /\ UNCHANGED <<tokens, done>>

\* ctx.Done() is only looked at by the sleeper; what it counted stays counted.
Abandon(c) ==
    /\ pc[c] = "sleeping"
    /\ done[c]
    /\ mu' = Nobody
    /\ pc' = [pc EXCEPT ![c] = "refused"]
    /\ UNCHANGED <<age, rCount, tCount, tokens, done, admitted, spent>>

\* The caller's request ends one way or the other; it may call again.
Finish(c) ==
    /\ pc[c] \in {"admitted", "refused"}
    /\ pc' = [pc EXCEPT ![c] = "idle"]
    /\ UNCHANGED <<mu, age, rCount, tCount, tokens, done, admitted, spent>>

Cancel(c) ==
    /\ pc[c] \in {"locking", "sleeping"}
    /\ ~done[c]
    /\ done' = [done EXCEPT ![c] = TRUE]
    /\ UNCHANGED <<mu, age, rCount, tCount, pc, tokens, admitted, spent>>

Tick ==
    /\ age < Minute
    /\ age' = age + 1
    /\ UNCHANGED <<mu, rCount, tCount, pc, tokens, done, admitted, spent>>

Next ==
    \/ Tick
    \/ \E c \in Callers :
        \/ \E n \in 0..MaxTokens : Call(c, n)
        \/ Enter(c) \/ Wake(c) \/ Abandon(c) \/ Finish(c) \/ Cancel(c)

(* Go's mutex hands the lock to its longest waiter once it starves, hence    *)
(* strong fairness for Enter; timers and runnable goroutines are weakly fair. *)
Fairness ==
    /\ WF_vars(Tick)
    /\ \A c \in Callers : SF_vars(Enter(c)) /\ WF_vars(Wake(c) \/ Abandon(c))

Spec == Init /\ [][Next]_vars /\ Fairness

-----------------------------------------------------------------------------
TypeOK ==
    /\ mu \in Callers \cup {Nobody}
    /\ age \in 0..Minute
    /\ rCount \in Nat /\ tCount \in Nat
    /\ pc \in [Callers -> {"idle", "locking", "sleeping", "admitted", "refused"}]
    /\ tokens \in [Callers -> 0..MaxTokens]
    /\ done \in [Callers -> BOOLEAN]
    /\ admitted \in Nat /\ spent \in Nat

(* README.md:79-80: RATE_LIMIT_RPM is the "Max requests per minute" and      *)
(* RATE_LIMIT_TPM the "Max tokens per minute".  Wait keeps neither: the two  *)
(* are stated as a disjunction so that one behaviour has to exceed both in  *)
(* the same window.                                                         *)
SomeQuotaKept ==
    \/ rpm > 0 => admitted <= rpm
    \/ tpm > 0 => spent <= tpm

(* How far a window exceeds RATE_LIMIT_RPM: by one request, whatever sleeps, *)
(* cancellations and renewals came before.  It is the sleeper whose waking  *)
(* started the window, since Wait resets the count after it counted it.     *)
RequestQuotaPlusOne == rpm > 0 => admitted <= rpm + 1

(* How far a window exceeds RATE_LIMIT_TPM: by the tokens of one request,    *)
(* again the sleeper's, which may on its own be larger than the quota.      *)
TokenQuotaPlusOne == tpm > 0 => spent <= tpm + MaxTokens

(* Every call returns: a sleeper holds the mutex for up to a minute, but    *)
(* nobody queues on it for ever, cancelled or not.                          *)
WaitReturns ==
    \A c \in Callers : pc[c] = "locking" ~> pc[c] \in {"admitted", "refused"}

(* The inductive strengthening of the two quotas: the counters lag behind   *)
(* what was let through by the one uncounted sleeper, and the mutex is held *)
(* by the sleeper alone, so nobody else moves the counters while it sleeps. *)
QuotaInv ==
    /\ \A c \in Callers : pc[c] = "sleeping" <=> mu = c
    /\ admitted <= rCount + 1
    /\ spent <= tCount + MaxTokens
    /\ RequestQuotaPlusOne
    /\ TokenQuotaPlusOne
=============================================================================
