-------------------------- MODULE RateLimiterProofs --------------------------
(***************************************************************************)
(* For every number of callers, every pair of quotas and every window      *)
(* length, RateLimiter keeps its types and overruns a quota by at most one *)
(* request.                                                                *)
(***************************************************************************)
EXTENDS RateLimiter, TLAPS

(* Wait keeps its counters and its callers' program counters well typed.   *)
THEOREM RateLimiterTypeOK == Spec => []TypeOK
<1> USE RateLimiterAssumption DEF TypeOK
<1>1. Init => TypeOK
  BY DEF Init
<1>2. TypeOK /\ [Next]_vars => TypeOK'
  <2> SUFFICES ASSUME TypeOK, [Next]_vars PROVE TypeOK'
    OBVIOUS
  <2>1. CASE Tick
    BY <2>1 DEF Tick
  <2>2. ASSUME NEW c \in Callers, NEW n \in 0..MaxTokens, Call(c, n)
        PROVE  TypeOK'
    BY <2>2 DEF Call
  <2>3. ASSUME NEW c \in Callers, Enter(c) PROVE TypeOK'
    BY <2>3 DEF Enter
  <2>4. ASSUME NEW c \in Callers, Wake(c) PROVE TypeOK'
    BY <2>4 DEF Wake
  <2>5. ASSUME NEW c \in Callers, Abandon(c) PROVE TypeOK'
    BY <2>5 DEF Abandon
  <2>6. ASSUME NEW c \in Callers, Finish(c) PROVE TypeOK'
    BY <2>6 DEF Finish
  <2>7. ASSUME NEW c \in Callers, Cancel(c) PROVE TypeOK'
    BY <2>7 DEF Cancel
  <2>8. CASE UNCHANGED vars
    BY <2>8 DEF vars
  <2> QED
    BY <2>1, <2>2, <2>3, <2>4, <2>5, <2>6, <2>7, <2>8 DEF Next
<1> QED
  BY <1>1, <1>2, PTL DEF Spec

(* Counting a request in Wait keeps QuotaInv: the request is let through   *)
(* only when the counters, itself included, are within both quotas.        *)
LEMMA EnterKeepsQuota ==
    ASSUME TypeOK, QuotaInv, NEW c \in Callers, Enter(c)
    PROVE  QuotaInv'
<1> USE RateLimiterAssumption DEF TypeOK
<1> DEFINE fresh == age = Minute
           r == (IF fresh THEN 0 ELSE rCount) + 1
           t == (IF fresh THEN 0 ELSE tCount) + tokens[c]
<1>1. /\ rCount' = r /\ tCount' = t
      /\ pc[c] = "locking" /\ mu = Nobody
      /\ r \in Nat /\ t \in Nat /\ tokens[c] \in Nat /\ tokens[c] <= MaxTokens
  BY DEF Enter
<1>2. CASE OverQuota(r, t) /\ mu' = c /\ pc' = [pc EXCEPT ![c] = "sleeping"]
           /\ admitted' = (IF fresh THEN 0 ELSE admitted)
           /\ spent' = (IF fresh THEN 0 ELSE spent)
  <2>1. \A d \in Callers : pc'[d] = "sleeping" <=> mu' = d
    BY <1>1, <1>2 DEF QuotaInv
  <2> QED
    BY <1>1, <1>2, <2>1 DEF QuotaInv, RequestQuotaPlusOne, TokenQuotaPlusOne
<1>3. CASE ~OverQuota(r, t) /\ mu' = Nobody /\ pc' = [pc EXCEPT ![c] = "admitted"]
           /\ admitted' = (IF fresh THEN 0 ELSE admitted) + 1
           /\ spent' = (IF fresh THEN 0 ELSE spent) + tokens[c]
  <2>1. \A d \in Callers : pc'[d] = "sleeping" <=> mu' = d
    BY <1>1, <1>3 DEF QuotaInv
  <2>2. (rpm > 0 => r <= rpm) /\ (tpm > 0 => t <= tpm)
    BY <1>1, <1>3 DEF OverQuota
  <2>3. admitted' <= r + 1 /\ spent' <= t + MaxTokens
    BY <1>1, <1>3 DEF QuotaInv
  <2> QED
    BY <1>1, <1>3, <2>1, <2>2, <2>3
    DEF QuotaInv, RequestQuotaPlusOne, TokenQuotaPlusOne
<1> QED
  BY <1>2, <1>3 DEF Enter

(* Every step of the limiter keeps the inductive invariant.                *)
LEMMA QuotaStep == TypeOK /\ TypeOK' /\ QuotaInv /\ [Next]_vars => QuotaInv'
<1> SUFFICES ASSUME TypeOK, TypeOK', QuotaInv, [Next]_vars PROVE QuotaInv'
  OBVIOUS
<1> USE RateLimiterAssumption DEF TypeOK, QuotaInv, RequestQuotaPlusOne, TokenQuotaPlusOne
<1>1. CASE Tick
  BY <1>1 DEF Tick
<1>2. ASSUME NEW c \in Callers, NEW n \in 0..MaxTokens, Call(c, n)
      PROVE  QuotaInv'
  BY <1>2 DEF Call
<1>3. ASSUME NEW c \in Callers, Enter(c) PROVE QuotaInv'
  BY <1>3, EnterKeepsQuota
<1>4. ASSUME NEW c \in Callers, Wake(c) PROVE QuotaInv'
  BY <1>4 DEF Wake
<1>5. ASSUME NEW c \in Callers, Abandon(c) PROVE QuotaInv'
  BY <1>5 DEF Abandon
<1>6. ASSUME NEW c \in Callers, Finish(c) PROVE QuotaInv'
  BY <1>6 DEF Finish
<1>7. ASSUME NEW c \in Callers, Cancel(c) PROVE QuotaInv'
  BY <1>7 DEF Cancel
<1>8. CASE UNCHANGED vars
  BY <1>8 DEF vars
<1> QED
  BY <1>1, <1>2, <1>3, <1>4, <1>5, <1>6, <1>7, <1>8 DEF Next

(* The counters never lag behind what was let through by more than one     *)
(* sleeper.                                                                *)
LEMMA QuotaHolds == Spec => []QuotaInv
<1>1. Init => QuotaInv
  BY RateLimiterAssumption
  DEF Init, QuotaInv, RequestQuotaPlusOne, TokenQuotaPlusOne
<1> QED
  BY <1>1, QuotaStep, RateLimiterTypeOK, PTL DEF Spec

(* No window of the limiter lets more than rpm + 1 requests through.       *)
THEOREM RequestQuotaOverrun == Spec => []RequestQuotaPlusOne
<1>1. QuotaInv => RequestQuotaPlusOne
  BY DEF QuotaInv
<1> QED
  BY <1>1, QuotaHolds, PTL

(* No window lets through more than tpm tokens and one request's.          *)
THEOREM TokenQuotaOverrun == Spec => []TokenQuotaPlusOne
<1>1. QuotaInv => TokenQuotaPlusOne
  BY DEF QuotaInv
<1> QED
  BY <1>1, QuotaHolds, PTL
=============================================================================
