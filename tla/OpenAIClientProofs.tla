------------------------- MODULE OpenAIClientProofs -------------------------
(***************************************************************************)
(* For any number of requests, of keys and of attempts, with and without a *)
(* fallback: what the requests of one client share stays well typed, and   *)
(* keys, model and address, and usage end up where they belong.            *)
(***************************************************************************)
EXTENDS OpenAIClient, TLAPS

(* Which requests can be at which place, after how many attempts.           *)
PlaceInv ==
    \A r \in Requests :
        /\ pc[r] \in {"read", "exhausted"} => kind[r] = "stream"
        /\ kind[r] = "stream" /\ pc[r] \in {"idle", "body", "url", "flight", "read"}
              => attempt[r] <= MaxReconnect
        /\ kind[r] = "stream" /\ pc[r] \in {"failover", "applyURL", "applyModel"}
              => attempt[r] > MaxReconnect /\ attempt[r] <= TotalAttempts
        /\ kind[r] = "stream" /\ pc[r] \in {"failed", "exhausted"}
              => attempt[r] <= TotalAttempts + 1
        /\ kind[r] = "chat" /\ pc[r] # "failed" => attempt[r] <= FailoverMax
        /\ kind[r] = "chat" /\ pc[r] \in {"failover", "applyURL", "applyModel"}
              => attempt[r] > 0
        /\ pc[r] = "idle" => attempt[r] = 0
        /\ seen[r] > 0 => pc[r] \in {"read", "record", "exec", "ok", "failed"}
        /\ kind[r] = "chat" /\ seen[r] > 0 => pc[r] \in {"record", "exec", "ok"}
        /\ pc[r] # "ok" => rows[r] = 0
        /\ pc[r] \in {"record", "exec", "ok"} \/ took[r] = NoUsage

(* What applyFailover's writes go through, and who is making them.          *)
WriteInv ==
    /\ <<url, model>> \in {<<"primary", "primary">>, <<"writing", "primary">>,
                           <<"fallback", "writing">>, <<"fallback", "fallback">>}
    /\ url = "writing" => \E s \in Requests : pc[s] = "applyURL"
    /\ model = "writing" => \E s \in Requests : pc[s] = "applyModel"
    /\ \A s \in Requests : pc[s] = "applyURL" => url # "primary"
    /\ \A s \in Requests : pc[s] = "applyModel" => url = "fallback"

(* A request that no failover has crossed runs while nobody else applies    *)
(* one, so what it has read of model and address still holds.               *)
TargetInv ==
    \A r \in Requests : Active(r) /\ "failover" \notin crossed[r] =>
        /\ \A s \in Requests \ {r} : pc[s] \notin Applying
        /\ pc[r] = "url" => req[r].model = model /\ model \in Providers
        /\ pc[r] = "flight" => req[r].url \in Providers /\ req[r].model = req[r].url

(* From its second attempt on a chat names the fallback everywhere.         *)
FallbackInv ==
    \A r \in Requests : kind[r] = "chat" /\ HasFallback =>
        /\ attempt[r] > 0 /\ pc[r] \in {"body", "url", "flight"}
              => url = "fallback" /\ model = "fallback"
        /\ attempt[r] > 0 /\ pc[r] \in {"url", "flight"} => req[r].model = "fallback"
        /\ attempt[r] > 0 /\ pc[r] = "flight" => req[r].url = "fallback"
        /\ pc[r] = "failed" => req[r].url = "fallback" /\ req[r].model = "fallback"

Undisturbed(r) == crossed[r] \cap {"rotation", "failover", "error"} = {}

\* The n keys that come before key k in the rotation, in the order of the index.
Before(k, n) == {j \in Keys : (j < k /\ j >= k - n) \/ j >= NKeys + k - n}

(* An undisturbed stream has been refused with one further key of the same  *)
(* provider for each attempt, and is about to use the next one.             *)
KeyInv ==
    \A r \in Requests : kind[r] = "stream" /\ Undisturbed(r) =>
        /\ attempt[r] > 0 /\ pc[r] \in {"body", "url", "flight"}
              => /\ req[r].url = url /\ url \in Providers
                 /\ Before(keyIndex, attempt[r]) \cap good[url] = {}
        /\ pc[r] = "flight" => req[r].url = url /\ req[r].key = keyIndex
        /\ NKeys <= MaxReconnect + 1
              /\ pc[r] \in {"failover", "applyURL", "applyModel", "exhausted", "failed"}
              => good[req[r].url] = {}

(* Where the usage in lastUsage comes from, that a report is in one place   *)
(* only, and that streams that overlap know of each other.                  *)
UsageInv ==
    /\ \A r, s \in Requests : r # s /\ Streaming(r) /\ Streaming(s) => "stream" \in crossed[r]
    /\ \/ lastUsage = NoUsage
       \/ lastUsage[1] = Earlier
       \/ /\ lastUsage[1] \in Requests /\ lastUsage[2] <= seen[lastUsage[1]]
          /\ pc[lastUsage[1]] \in {"read", "failed"} /\ kind[lastUsage[1]] = "stream"
    /\ \A s \in Requests : took[s] # NoUsage =>
          /\ took[s] # lastUsage
          /\ took[s][1] \in Requests => took[s][2] <= seen[took[s][1]]
    /\ \A r \in Requests : pc[r] = "read" /\ "stream" \notin crossed[r] /\ seen[r] > 0
          => lastUsage = <<r, seen[r]>>

-----------------------------------------------------------------------------
(* What the end of an attempt does to attempt and pc, whatever comes next.  *)
LEMMA AgainFacts ==
  ASSUME TypeOK, PlaceInv, NEW r \in Requests, Again(r),
         pc[r] \in {"flight", "read"} \/ (pc[r] = "applyModel" /\ kind[r] = "stream")
  PROVE  /\ attempt' = [attempt EXCEPT ![r] = attempt[r] + 1]
         /\ attempt' \in [Requests -> 0..(TotalAttempts + 1)]
         /\ pc' = [pc EXCEPT ![r] = NextPlace(r, attempt[r] + 1)]
         /\ NextPlace(r, attempt[r] + 1) \in {"body", "exhausted", "failed", "failover"}
<1> USE ClientAssumption
<1>1. attempt[r] \in Nat /\ attempt[r] <= TotalAttempts
  BY DEF PlaceInv, TypeOK, TotalAttempts
<1>2. NextPlace(r, attempt[r] + 1) \in {"body", "exhausted", "failed", "failover"}
  BY <1>1 DEF NextPlace
<1>3. attempt[r] + 1 \in 0..(TotalAttempts + 1)
  BY <1>1 DEF TotalAttempts
<1> QED
  BY <1>2, <1>3 DEF Again, Goto, TypeOK

(* What the tracker's statement does: the call ends, with or without a row. *)
LEMMA ExecFacts ==
  ASSUME TypeOK, NEW r \in Requests, TrackExec(r)
  PROVE  /\ UNCHANGED <<shared, config, attempt, req, seen, took>>
         /\ pc[r] = "exec" /\ pc'[r] = "ok"
         /\ \A s \in Requests : s # r => pc'[s] = pc[s]
         /\ \A s \in Requests : crossed'[s] = crossed[s] \/ crossed'[s] = crossed[s] \cup {"exec"}
BY DEF TrackExec, Goto, TypeOK

(* The index of the next key is the index of a key.                         *)
LEMMA RotateFacts ==
  ASSUME keyIndex \in Keys, Rotate
  PROVE  /\ keyIndex' \in Keys
         /\ keyIndex' = IF keyIndex + 1 = NKeys THEN 0 ELSE keyIndex + 1
<1> USE ClientAssumption
<1>1. keyIndex \in 0..(NKeys - 1)
  BY DEF Keys
<1>2. CASE keyIndex + 1 = NKeys
  <2>1. NKeys % NKeys = 0
    OBVIOUS
  <2> QED
    BY <1>1, <1>2, <2>1 DEF Rotate, Keys
<1>3. CASE keyIndex + 1 # NKeys
  <2>1. keyIndex + 1 \in 0..(NKeys - 1)
    BY <1>1, <1>3
  <2>2. (keyIndex + 1) % NKeys = keyIndex + 1
    BY <2>1
  <2> QED
    BY <1>3, <2>1, <2>2 DEF Rotate, Keys
<1> QED
  BY <1>2, <1>3

(* Every step keeps the types; the bounds of attempt need PlaceInv, since the*)
(* end of an attempt adds one wherever the loop is.                         *)
LEMMA TypeStep ==
  ASSUME TypeOK, PlaceInv, [Next]_vars
  PROVE  TypeOK'
<1> USE ClientAssumption
<1>1. ASSUME NEW r \in Requests, Start(r) PROVE TypeOK'
  BY <1>1 DEF Start, Goto, shared, config, TypeOK
<1>2. ASSUME NEW r \in Requests, BuildBody(r) PROVE TypeOK'
  BY <1>2 DEF BuildBody, Goto, shared, config, hist, Read, Providers, TypeOK, Keys,
     Usage, NoUsage, TotalAttempts, PlaceInv
<1>3. ASSUME NEW r \in Requests, BuildRequest(r) PROVE TypeOK'
  <2>1. PICK u \in Read(url) : req' = [req EXCEPT ![r] = [@ EXCEPT !.url = u, !.key = keyIndex]]
    BY <1>3 DEF BuildRequest
  <2>2. u \in Providers \cup {"torn"}
    BY <2>1 DEF Read, TypeOK
  <2>3. req' \in [Requests -> [model : Providers \cup {"torn"},
                               url : Providers \cup {"torn"}, key : Keys]]
    <3>1. keyIndex \in Keys /\ req[r] \in [model : Providers \cup {"torn"},
                                            url : Providers \cup {"torn"}, key : Keys]
      BY DEF TypeOK
    <3>2. req' = [req EXCEPT ![r] = [req[r] EXCEPT !.url = u, !.key = keyIndex]]
      BY <2>1
    <3>3. [req[r] EXCEPT !.url = u, !.key = keyIndex]
             \in [model : Providers \cup {"torn"}, url : Providers \cup {"torn"}, key : Keys]
      BY <2>2, <3>1
    <3> QED
      BY <3>2, <3>3 DEF TypeOK
  <2> QED
    BY <1>3, <2>3 DEF BuildRequest, Goto, shared, config, hist, TypeOK
<1>4. ASSUME NEW r \in Requests, Resend(r) PROVE TypeOK'
  BY <1>4 DEF Resend, Goto, shared, config, TypeOK
<1>5. ASSUME NEW r \in Requests, ApplyURL(r) PROVE TypeOK'
  BY <1>5 DEF ApplyURL, Goto, config, Written, Cross, TypeOK
<1>6. ASSUME NEW r \in Requests, ApplyModel(r) PROVE TypeOK'
  BY <1>6 DEF ApplyModel, Goto, config, hist, Written, Providers, TypeOK
<1>7. ASSUME NEW r \in Requests, Applied(r) PROVE TypeOK'
  <2>1. CASE kind[r] = "stream" /\ Again(r)
    BY <1>7, <2>1, AgainFacts DEF Applied, config, hist, TypeOK, Providers, Keys, Usage
  <2>2. CASE kind[r] = "chat" /\ Goto(r, "body") /\ UNCHANGED attempt
    BY <1>7, <2>2 DEF Applied, Goto, config, hist, TypeOK, Providers
  <2> QED
    BY <1>7, <2>1, <2>2 DEF Applied
<1>8. ASSUME NEW r \in Requests, Refused(r) PROVE TypeOK'
  <2>1. /\ attempt' \in [Requests -> 0..(TotalAttempts + 1)]
        /\ pc' = [pc EXCEPT ![r] = NextPlace(r, attempt[r] + 1)]
        /\ NextPlace(r, attempt[r] + 1) \in {"body", "exhausted", "failed", "failover"}
    BY <1>8, AgainFacts DEF Refused
  <2>2. /\ keyIndex' \in Keys
        /\ crossed' \in [Requests -> SUBSET {"rotation", "error", "stream", "failover", "exec"}]
    BY <1>8, RotateFacts DEF Refused, Cross, TypeOK
  <2> QED
    BY <1>8, <2>1, <2>2 DEF Refused, config, TypeOK
<1>9. ASSUME NEW r \in Requests, SendFailed(r) PROVE TypeOK'
  <2>1. /\ attempt' \in [Requests -> 0..(TotalAttempts + 1)]
        /\ pc' = [pc EXCEPT ![r] = NextPlace(r, attempt[r] + 1)]
        /\ NextPlace(r, attempt[r] + 1) \in {"body", "exhausted", "failed", "failover"}
    BY <1>9, AgainFacts DEF SendFailed
  <2>2. crossed' \in [Requests -> SUBSET {"rotation", "error", "stream", "failover", "exec"}]
    BY <1>9 DEF SendFailed, TypeOK
  <2> QED
    BY <1>9, <2>1, <2>2 DEF SendFailed, shared, config, TypeOK
<1>10. ASSUME NEW r \in Requests, StreamAccepted(r) PROVE TypeOK'
  BY <1>10 DEF StreamAccepted, Goto, shared, config, hist, TypeOK
<1>11. ASSUME NEW r \in Requests, StreamUsage(r) PROVE TypeOK'
  BY <1>11 DEF StreamUsage, config, hist, TypeOK, Usage
<1>12. ASSUME NEW r \in Requests, StreamBroken(r) PROVE TypeOK'
  <2>1. CASE Again(r)
    BY <1>12, <2>1, AgainFacts DEF StreamBroken, shared, config, TypeOK, Usage
  <2>2. CASE Goto(r, "failed") /\ UNCHANGED attempt
    BY <1>12, <2>2 DEF StreamBroken, Goto, shared, config, TypeOK
  <2> QED
    BY <1>12, <2>1, <2>2 DEF StreamBroken
<1>13. ASSUME NEW r \in Requests, StreamEnded(r) PROVE TypeOK'
  BY <1>13 DEF StreamEnded, Goto, config, hist, TakeUsage, TypeOK, Usage
<1>14. ASSUME NEW r \in Requests, StreamExhausted(r) PROVE TypeOK'
  BY <1>14 DEF StreamExhausted, Goto, config, hist, TakeUsage, TypeOK, Usage
<1>15. ASSUME NEW r \in Requests, ChatAnswered(r) PROVE TypeOK'
  <2>1. seen' \in [Requests -> 0..(MaxReports + 1)]
    BY <1>15 DEF ChatAnswered, TypeOK
  <2>2. <<r, 1>> \in Usage
    BY DEF Usage
  <2>3. took' \in [Requests -> Usage]
    BY <1>15, <2>2 DEF ChatAnswered, TypeOK
  <2> QED
    BY <1>15, <2>1, <2>3 DEF ChatAnswered, Goto, shared, config, hist, TypeOK
<1>16. ASSUME NEW r \in Requests, TrackTake(r) PROVE TypeOK'
  BY <1>16 DEF TrackTake, Goto, shared, config, hist, TypeOK
<1>17. ASSUME NEW r \in Requests, TrackExec(r) PROVE TypeOK'
  BY <1>17 DEF TrackExec, Goto, shared, config, TypeOK, PlaceInv
<1>18. ASSUME CloseTracker PROVE TypeOK'
  BY <1>18 DEF CloseTracker, config, hist, TypeOK
<1>19. ASSUME UNCHANGED vars PROVE TypeOK'
  BY <1>19 DEF vars, shared, config, hist, TypeOK
<1> QED
  BY <1>1, <1>2, <1>3, <1>4, <1>5, <1>6, <1>7, <1>8, <1>9, <1>10,
     <1>11, <1>12, <1>13, <1>14, <1>15, <1>16, <1>17, <1>18, <1>19
     DEF Next, Request

(* Every step moves its request along the loop, and no other one.           *)
LEMMA PlaceStep ==
  ASSUME TypeOK, PlaceInv, [Next]_vars
  PROVE  PlaceInv'
<1> USE ClientAssumption
<1>1. ASSUME NEW r \in Requests, Start(r) PROVE PlaceInv'
  BY <1>1 DEF Start, Goto, config, PlaceInv
<1>2. ASSUME NEW r \in Requests, BuildBody(r) PROVE PlaceInv'
  BY <1>2 DEF BuildBody, Goto, config, hist, PlaceInv
<1>3. ASSUME NEW r \in Requests, BuildRequest(r) PROVE PlaceInv'
  BY <1>3 DEF BuildRequest, Goto, config, hist, PlaceInv
<1>4. ASSUME NEW r \in Requests, Resend(r) PROVE PlaceInv'
  BY <1>4 DEF Resend, Goto, config, PlaceInv
<1>5. ASSUME NEW r \in Requests, ApplyURL(r) PROVE PlaceInv'
  BY <1>5 DEF ApplyURL, Goto, config, PlaceInv
<1>6. ASSUME NEW r \in Requests, ApplyModel(r) PROVE PlaceInv'
  BY <1>6 DEF ApplyModel, Goto, config, hist, PlaceInv
<1>7. ASSUME NEW r \in Requests, Applied(r) PROVE PlaceInv'
  BY <1>7 DEF Applied, Goto, config, hist, Again, NextPlace, PlaceInv, TypeOK, TotalAttempts
<1>8. ASSUME NEW r \in Requests, Refused(r) PROVE PlaceInv'
  BY <1>8 DEF Refused, Goto, config, Again, NextPlace, PlaceInv, TypeOK, TotalAttempts
<1>9. ASSUME NEW r \in Requests, SendFailed(r) PROVE PlaceInv'
  BY <1>9 DEF SendFailed, Goto, config, Again, NextPlace, PlaceInv, TypeOK, TotalAttempts
<1>10. ASSUME NEW r \in Requests, StreamAccepted(r) PROVE PlaceInv'
  BY <1>10 DEF StreamAccepted, Goto, config, hist, PlaceInv
<1>11. ASSUME NEW r \in Requests, StreamUsage(r) PROVE PlaceInv'
  BY <1>11 DEF StreamUsage, config, hist, PlaceInv
<1>12. ASSUME NEW r \in Requests, StreamBroken(r) PROVE PlaceInv'
  BY <1>12 DEF StreamBroken, Goto, config, Again, NextPlace, PlaceInv, TypeOK, TotalAttempts
<1>13. ASSUME NEW r \in Requests, StreamEnded(r) PROVE PlaceInv'
  BY <1>13 DEF StreamEnded, Goto, config, hist, PlaceInv, TypeOK
<1>14. ASSUME NEW r \in Requests, StreamExhausted(r) PROVE PlaceInv'
  BY <1>14 DEF StreamExhausted, Goto, config, hist, PlaceInv
<1>15. ASSUME NEW r \in Requests, ChatAnswered(r) PROVE PlaceInv'
  BY <1>15 DEF ChatAnswered, Goto, config, hist, PlaceInv, TypeOK
<1>16. ASSUME NEW r \in Requests, TrackTake(r) PROVE PlaceInv'
  BY <1>16 DEF TrackTake, Goto, config, hist, PlaceInv
<1>17. ASSUME NEW r \in Requests, TrackExec(r) PROVE PlaceInv'
  BY <1>17 DEF TrackExec, Goto, config, PlaceInv, TypeOK
<1>18. ASSUME CloseTracker PROVE PlaceInv'
  BY <1>18 DEF CloseTracker, config, hist, PlaceInv
<1>19. ASSUME UNCHANGED vars PROVE PlaceInv'
  BY <1>19 DEF vars, config, hist, PlaceInv
<1> QED
  BY <1>1, <1>2, <1>3, <1>4, <1>5, <1>6, <1>7, <1>8, <1>9, <1>10,
     <1>11, <1>12, <1>13, <1>14, <1>15, <1>16, <1>17, <1>18, <1>19
     DEF Next, Request

(* A write to url or model begins and ends in steps of the request that makes*)
(* it, and once the fallback's address is there it stays.                   *)
LEMMA WriteStep ==
  ASSUME TypeOK, WriteInv, [Next]_vars
  PROVE  WriteInv'
<1> USE ClientAssumption
<1>1. ASSUME NEW r \in Requests, Start(r) PROVE WriteInv'
  BY <1>1 DEF Start, Goto, shared, WriteInv
<1>2. ASSUME NEW r \in Requests, BuildBody(r) PROVE WriteInv'
  BY <1>2 DEF BuildBody, Goto, shared, WriteInv
<1>3. ASSUME NEW r \in Requests, BuildRequest(r) PROVE WriteInv'
  BY <1>3 DEF BuildRequest, Goto, shared, WriteInv
<1>4. ASSUME NEW r \in Requests, Resend(r) PROVE WriteInv'
  BY <1>4 DEF Resend, Goto, shared, WriteInv
<1>5. ASSUME NEW r \in Requests, ApplyURL(r) PROVE WriteInv'
  BY <1>5 DEF ApplyURL, Goto, Written, WriteInv, TypeOK
<1>6. ASSUME NEW r \in Requests, ApplyModel(r) PROVE WriteInv'
  BY <1>6 DEF ApplyModel, Goto, Written, WriteInv, TypeOK
<1>7. ASSUME NEW r \in Requests, Applied(r) PROVE WriteInv'
  BY <1>7 DEF Applied, WriteInv
<1>8. ASSUME NEW r \in Requests, Refused(r) PROVE WriteInv'
  BY <1>8 DEF Refused, Goto, Again, NextPlace, WriteInv
<1>9. ASSUME NEW r \in Requests, SendFailed(r) PROVE WriteInv'
  BY <1>9 DEF SendFailed, Goto, shared, Again, NextPlace, WriteInv
<1>10. ASSUME NEW r \in Requests, StreamAccepted(r) PROVE WriteInv'
  BY <1>10 DEF StreamAccepted, Goto, shared, WriteInv
<1>11. ASSUME NEW r \in Requests, StreamUsage(r) PROVE WriteInv'
  BY <1>11 DEF StreamUsage, WriteInv
<1>12. ASSUME NEW r \in Requests, StreamBroken(r) PROVE WriteInv'
  BY <1>12 DEF StreamBroken, Goto, shared, Again, NextPlace, WriteInv, TypeOK
<1>13. ASSUME NEW r \in Requests, StreamEnded(r) PROVE WriteInv'
  BY <1>13 DEF StreamEnded, Goto, WriteInv
<1>14. ASSUME NEW r \in Requests, StreamExhausted(r) PROVE WriteInv'
  BY <1>14 DEF StreamExhausted, Goto, WriteInv
<1>15. ASSUME NEW r \in Requests, ChatAnswered(r) PROVE WriteInv'
  BY <1>15 DEF ChatAnswered, Goto, shared, WriteInv
<1>16. ASSUME NEW r \in Requests, TrackTake(r) PROVE WriteInv'
  BY <1>16 DEF TrackTake, Goto, shared, WriteInv
<1>17. ASSUME NEW r \in Requests, TrackExec(r) PROVE WriteInv'
  BY <1>17 DEF TrackExec, Goto, shared, WriteInv
<1>18. ASSUME CloseTracker PROVE WriteInv'
  BY <1>18 DEF CloseTracker, WriteInv
<1>19. ASSUME UNCHANGED vars PROVE WriteInv'
  BY <1>19 DEF vars, shared, WriteInv
<1> QED
  BY <1>1, <1>2, <1>3, <1>4, <1>5, <1>6, <1>7, <1>8, <1>9, <1>10,
     <1>11, <1>12, <1>13, <1>14, <1>15, <1>16, <1>17, <1>18, <1>19
     DEF Next, Request

(* A failover that starts marks all other active requests as crossed; what an*)
(* unmarked request reads and sends is one provider's.                      *)
LEMMA TargetStep ==
  ASSUME TypeOK, WriteInv, WriteInv', TargetInv, [Next]_vars
  PROVE  TargetInv'
<1> USE ClientAssumption
<1>1. ASSUME NEW r \in Requests, Start(r) PROVE TargetInv'
  BY <1>1 DEF Start, Goto, shared, Active, Applying, TargetInv
<1>2. ASSUME NEW r \in Requests, BuildBody(r) PROVE TargetInv'
  BY <1>2 DEF BuildBody, Goto, shared, hist, Read, TargetInv, WriteInv, TypeOK,
     Applying, Active
<1>3. ASSUME NEW r \in Requests, BuildRequest(r) PROVE TargetInv'
  BY <1>3 DEF BuildRequest, Goto, shared, hist, Read, TargetInv, WriteInv, TypeOK,
     Applying, Active
<1>4. ASSUME NEW r \in Requests, Resend(r) PROVE TargetInv'
  BY <1>4 DEF Resend, Goto, shared, TargetInv, Applying, Active
<1>5. ASSUME NEW r \in Requests, ApplyURL(r) PROVE TargetInv'
  BY <1>5 DEF ApplyURL, Goto, Cross, ActiveSet, Active, TargetInv
<1>6. ASSUME NEW r \in Requests, ApplyModel(r) PROVE TargetInv'
  BY <1>6 DEF ApplyModel, Goto, hist, TargetInv, Applying, Active
<1>7. ASSUME NEW r \in Requests, Applied(r) PROVE TargetInv'
  BY <1>7 DEF Applied, Goto, hist, Again, NextPlace, TargetInv, TypeOK, Applying, Active
<1>8. ASSUME NEW r \in Requests, Refused(r) PROVE TargetInv'
  BY <1>8 DEF Refused, Goto, Again, NextPlace, Cross, Active, TargetInv, Applying
<1>9. ASSUME NEW r \in Requests, SendFailed(r) PROVE TargetInv'
  BY <1>9 DEF SendFailed, Goto, shared, Again, NextPlace, TargetInv, Applying, Active
<1>10. ASSUME NEW r \in Requests, StreamAccepted(r) PROVE TargetInv'
  BY <1>10 DEF StreamAccepted, Goto, shared, hist, TargetInv, Applying, Active
<1>11. ASSUME NEW r \in Requests, StreamUsage(r) PROVE TargetInv'
  BY <1>11 DEF StreamUsage, hist, TargetInv, Active
<1>12. ASSUME NEW r \in Requests, StreamBroken(r) PROVE TargetInv'
  BY <1>12 DEF StreamBroken, Goto, shared, Again, NextPlace, TargetInv, TypeOK,
     Applying, Active
<1>13. ASSUME NEW r \in Requests, StreamEnded(r) PROVE TargetInv'
  BY <1>13 DEF StreamEnded, Goto, hist, TargetInv, Applying, Active
<1>14. ASSUME NEW r \in Requests, StreamExhausted(r) PROVE TargetInv'
  BY <1>14 DEF StreamExhausted, Goto, hist, TargetInv, Applying, Active
<1>15. ASSUME NEW r \in Requests, ChatAnswered(r) PROVE TargetInv'
  BY <1>15 DEF ChatAnswered, Goto, shared, hist, TargetInv, Applying, Active
<1>16. ASSUME NEW r \in Requests, TrackTake(r) PROVE TargetInv'
  BY <1>16 DEF TrackTake, Goto, shared, hist, TargetInv, Applying, Active
<1>17. ASSUME NEW r \in Requests, TrackExec(r) PROVE TargetInv'
  <2>1. \A s \in Requests : "failover" \in crossed'[s] <=> "failover" \in crossed[s]
    BY <1>17, ExecFacts
  <2> QED
    BY <1>17, <2>1, ExecFacts DEF shared, TargetInv, Applying, Active
<1>18. ASSUME CloseTracker PROVE TargetInv'
  BY <1>18 DEF CloseTracker, hist, TargetInv, Active
<1>19. ASSUME UNCHANGED vars PROVE TargetInv'
  BY <1>19 DEF vars, shared, hist, TargetInv, Active
<1> QED
  BY <1>1, <1>2, <1>3, <1>4, <1>5, <1>6, <1>7, <1>8, <1>9, <1>10,
     <1>11, <1>12, <1>13, <1>14, <1>15, <1>16, <1>17, <1>18, <1>19
     DEF Next, Request

(* A chat goes on after a failure only through applyFailover, and nothing sets*)
(* model or address back.                                                   *)
LEMMA FallbackStep ==
  ASSUME TypeOK, PlaceInv, WriteInv, FallbackInv, [Next]_vars
  PROVE  FallbackInv'
<1> USE ClientAssumption
<1>1. ASSUME NEW r \in Requests, Start(r) PROVE FallbackInv'
  BY <1>1 DEF Start, Goto, shared, config, FallbackInv, PlaceInv
<1>2. ASSUME NEW r \in Requests, BuildBody(r) PROVE FallbackInv'
  BY <1>2 DEF BuildBody, Goto, shared, config, Read, FallbackInv, TypeOK
<1>3. ASSUME NEW r \in Requests, BuildRequest(r) PROVE FallbackInv'
  BY <1>3 DEF BuildRequest, Goto, shared, config, Read, FallbackInv, TypeOK
<1>4. ASSUME NEW r \in Requests, Resend(r) PROVE FallbackInv'
  BY <1>4 DEF Resend, Goto, shared, config, FallbackInv
<1>5. ASSUME NEW r \in Requests, ApplyURL(r) PROVE FallbackInv'
  BY <1>5 DEF ApplyURL, Goto, config, Written, FallbackInv
<1>6. ASSUME NEW r \in Requests, ApplyModel(r) PROVE FallbackInv'
  BY <1>6 DEF ApplyModel, Goto, config, Written, FallbackInv
<1>7. ASSUME NEW r \in Requests, Applied(r) PROVE FallbackInv'
  BY <1>7 DEF Applied, Goto, config, hist, Again, FallbackInv, WriteInv, TypeOK
<1>8. ASSUME NEW r \in Requests, Refused(r) PROVE FallbackInv'
  BY <1>8 DEF Refused, Goto, config, Again, NextPlace, FallbackInv, TypeOK
<1>9. ASSUME NEW r \in Requests, SendFailed(r) PROVE FallbackInv'
  BY <1>9 DEF SendFailed, Goto, shared, config, Again, NextPlace, FallbackInv, TypeOK
<1>10. ASSUME NEW r \in Requests, StreamAccepted(r) PROVE FallbackInv'
  BY <1>10 DEF StreamAccepted, Goto, shared, config, FallbackInv
<1>11. ASSUME NEW r \in Requests, StreamUsage(r) PROVE FallbackInv'
  BY <1>11 DEF StreamUsage, config, FallbackInv
<1>12. ASSUME NEW r \in Requests, StreamBroken(r) PROVE FallbackInv'
  BY <1>12 DEF StreamBroken, Goto, shared, config, Again, FallbackInv, PlaceInv, TypeOK
<1>13. ASSUME NEW r \in Requests, StreamEnded(r) PROVE FallbackInv'
  BY <1>13 DEF StreamEnded, Goto, config, FallbackInv
<1>14. ASSUME NEW r \in Requests, StreamExhausted(r) PROVE FallbackInv'
  BY <1>14 DEF StreamExhausted, Goto, config, FallbackInv, PlaceInv
<1>15. ASSUME NEW r \in Requests, ChatAnswered(r) PROVE FallbackInv'
  BY <1>15 DEF ChatAnswered, Goto, shared, config, FallbackInv
<1>16. ASSUME NEW r \in Requests, TrackTake(r) PROVE FallbackInv'
  BY <1>16 DEF TrackTake, Goto, shared, config, FallbackInv
<1>17. ASSUME NEW r \in Requests, TrackExec(r) PROVE FallbackInv'
  BY <1>17 DEF TrackExec, Goto, shared, config, FallbackInv
<1>18. ASSUME CloseTracker PROVE FallbackInv'
  BY <1>18 DEF CloseTracker, config, FallbackInv
<1>19. ASSUME UNCHANGED vars PROVE FallbackInv'
  BY <1>19 DEF vars, shared, config, FallbackInv
<1> QED
  BY <1>1, <1>2, <1>3, <1>4, <1>5, <1>6, <1>7, <1>8, <1>9, <1>10,
     <1>11, <1>12, <1>13, <1>14, <1>15, <1>16, <1>17, <1>18, <1>19
     DEF Next, Request

(* A usage report gets into lastUsage when its stream reads it, and out of it*)
(* into one call, or under a later report.                                  *)
LEMMA UsageStep ==
  ASSUME TypeOK, PlaceInv, UsageInv, [Next]_vars
  PROVE  UsageInv'
<1> USE ClientAssumption
<1>1. ASSUME NEW r \in Requests, Start(r) PROVE UsageInv'
  BY <1>1 DEF Start, Goto, shared, config, Streaming, Active, UsageInv
<1>2. ASSUME NEW r \in Requests, BuildBody(r) PROVE UsageInv'
  BY <1>2 DEF BuildBody, Goto, shared, config, hist, UsageInv, Streaming, Active
<1>3. ASSUME NEW r \in Requests, BuildRequest(r) PROVE UsageInv'
  BY <1>3 DEF BuildRequest, Goto, shared, config, hist, UsageInv, Streaming, Active
<1>4. ASSUME NEW r \in Requests, Resend(r) PROVE UsageInv'
  BY <1>4 DEF Resend, Goto, shared, config, UsageInv, Streaming, Active
<1>5. ASSUME NEW r \in Requests, ApplyURL(r) PROVE UsageInv'
  BY <1>5 DEF ApplyURL, Goto, config, Cross, Active, UsageInv, Streaming
<1>6. ASSUME NEW r \in Requests, ApplyModel(r) PROVE UsageInv'
  BY <1>6 DEF ApplyModel, Goto, config, hist, UsageInv, Streaming, Active
<1>7. ASSUME NEW r \in Requests, Applied(r) PROVE UsageInv'
  <2>1. /\ UNCHANGED <<lastUsage, kind, seen, took, crossed>>
        /\ \A x \in Requests : x # r => pc'[x] = pc[x]
        /\ pc[r] = "applyModel" /\ pc'[r] \in {"body", "exhausted", "failed", "failover"}
    BY <1>7, AgainFacts DEF Applied, Goto, config, hist, TypeOK
  <2>2. seen[r] = 0
    BY <2>1 DEF PlaceInv, TypeOK
  <2>3. \A x \in Requests : Streaming(x)' => Streaming(x)
    BY <2>1 DEF Streaming, Active
  <2>4. lastUsage = NoUsage \/ lastUsage[1] = Earlier \/ lastUsage[1] # r
    BY <2>1 DEF UsageInv
  <2> QED
    BY <2>1, <2>2, <2>3, <2>4 DEF UsageInv
<1>8. ASSUME NEW r \in Requests, Refused(r) PROVE UsageInv'
  BY <1>8 DEF Refused, Goto, config, Again, NextPlace, Cross, Active, UsageInv, Streaming
<1>9. ASSUME NEW r \in Requests, SendFailed(r) PROVE UsageInv'
  BY <1>9 DEF SendFailed, Goto, shared, config, Again, NextPlace, UsageInv, Streaming,
     Active
<1>10. ASSUME NEW r \in Requests, StreamAccepted(r) PROVE UsageInv'
  BY <1>10 DEF StreamAccepted, Goto, shared, config, hist, UsageInv, PlaceInv,
     Streaming, Active
<1>11. ASSUME NEW r \in Requests, StreamUsage(r) PROVE UsageInv'
  BY <1>11 DEF StreamUsage, config, hist, UsageInv, PlaceInv, Usage, NoUsage, TypeOK,
     Streaming, Active
<1>12. ASSUME NEW r \in Requests, StreamBroken(r) PROVE UsageInv'
  <2>1. /\ UNCHANGED <<lastUsage, kind, seen, took>>
        /\ \A x \in Requests : x # r => pc'[x] = pc[x] /\ crossed'[x] = crossed[x]
        /\ crossed'[r] = crossed[r] \cup {"error"}
        /\ pc[r] = "read" /\ kind[r] = "stream"
        /\ pc'[r] \in {"body", "exhausted", "failed", "failover"}
        /\ pc'[r] = "failed" \/ seen[r] = 0
    BY <1>12, AgainFacts DEF StreamBroken, Goto, shared, config, TypeOK, PlaceInv
  <2> QED
    BY <2>1 DEF UsageInv, PlaceInv, Usage, TypeOK, Streaming, Active
<1>13. ASSUME NEW r \in Requests, StreamEnded(r) PROVE UsageInv'
  BY <1>13 DEF StreamEnded, Goto, config, hist, TakeUsage, UsageInv, PlaceInv, TypeOK,
     Streaming, Active
<1>14. ASSUME NEW r \in Requests, StreamExhausted(r) PROVE UsageInv'
  <2>1. /\ lastUsage' = NoUsage /\ UNCHANGED <<kind, seen, took, crossed>>
        /\ \A x \in Requests : x # r => pc'[x] = pc[x]
        /\ pc[r] = "exhausted" /\ pc'[r] = "failed"
    BY <1>14 DEF StreamExhausted, Goto, config, hist, TakeUsage, TypeOK
  <2>2. kind[r] = "stream" /\ Streaming(r)
    BY <2>1 DEF PlaceInv, Streaming, Active, TypeOK
  <2>3. \A x \in Requests : Streaming(x)' => Streaming(x)
    BY <2>1 DEF Streaming, Active
  <2>4. \A x \in Requests : pc'[x] = "read" => x # r /\ pc[x] = "read"
    BY <2>1
  <2>5. ASSUME NEW x \in Requests, pc'[x] = "read", seen'[x] > 0 PROVE "stream" \in crossed'[x]
    <3>1. x # r /\ pc[x] = "read" /\ seen[x] > 0
      BY <2>1, <2>4, <2>5
    <3>2. Streaming(x)
      BY <3>1 DEF PlaceInv, Streaming, Active, TypeOK
    <3> QED
      BY <2>1, <2>2, <3>1, <3>2 DEF UsageInv
  <2>6. \A x, y \in Requests : x # y /\ Streaming(x)' /\ Streaming(y)' => "stream" \in crossed'[x]
    BY <2>1, <2>3 DEF UsageInv
  <2>7. \A x \in Requests : took'[x] # NoUsage =>
          /\ took'[x] # lastUsage'
          /\ took'[x][1] \in Requests => took'[x][2] <= seen'[took'[x][1]]
    BY <2>1 DEF UsageInv
  <2> QED
    BY <2>1, <2>5, <2>6, <2>7 DEF UsageInv
<1>15. ASSUME NEW r \in Requests, ChatAnswered(r) PROVE UsageInv'
  <2>1. /\ UNCHANGED <<lastUsage, kind, crossed>>
        /\ \A x \in Requests : x # r => pc'[x] = pc[x] /\ seen'[x] = seen[x] /\ took'[x] = took[x]
        /\ pc[r] = "flight" /\ kind[r] = "chat" /\ pc'[r] = "record"
    BY <1>15 DEF ChatAnswered, Goto, shared, config, hist, TypeOK
  <2>2. seen[r] = 0 /\ took[r] = NoUsage
    BY <2>1 DEF PlaceInv, TypeOK
  <2>3. \A s \in Requests : took[s] # NoUsage => took[s][1] # r
    BY <2>2 DEF UsageInv, TypeOK, Usage
  <2>4. lastUsage = NoUsage \/ lastUsage[1] # r
    BY <2>1 DEF UsageInv
  <2>5. \/ seen'[r] = 1 /\ took'[r] = <<r, 1>>
        \/ seen'[r] = 0 /\ took'[r] = NoUsage
    BY <1>15, <2>2 DEF ChatAnswered, TypeOK
  <2>6. /\ \A x, y \in Requests : x # y /\ Streaming(x)' /\ Streaming(y)' => "stream" \in crossed'[x]
        /\ \A x \in Requests : pc'[x] = "read" /\ "stream" \notin crossed'[x] /\ seen'[x] > 0
              => lastUsage' = <<x, seen'[x]>>
    BY <2>1 DEF UsageInv, Streaming, Active
  <2>7. \/ lastUsage' = NoUsage
        \/ lastUsage'[1] = Earlier
        \/ /\ lastUsage'[1] \in Requests /\ lastUsage'[2] <= seen'[lastUsage'[1]]
           /\ pc'[lastUsage'[1]] \in {"read", "failed"} /\ kind'[lastUsage'[1]] = "stream"
    BY <2>1, <2>4 DEF UsageInv
  <2>8. ASSUME NEW s \in Requests, took'[s] # NoUsage
        PROVE  /\ took'[s] # lastUsage'
               /\ took'[s][1] \in Requests => took'[s][2] <= seen'[took'[s][1]]
    <3>1. CASE s = r
      BY <2>1, <2>4, <2>5, <2>8, <3>1
    <3>2. CASE s # r
      BY <2>1, <2>3, <2>8, <3>2 DEF UsageInv
    <3> QED
      BY <3>1, <3>2
  <2> QED
    BY <2>6, <2>7, <2>8 DEF UsageInv
<1>16. ASSUME NEW r \in Requests, TrackTake(r) PROVE UsageInv'
  BY <1>16 DEF TrackTake, Goto, shared, config, hist, UsageInv, Streaming, Active
<1>17. ASSUME NEW r \in Requests, TrackExec(r) PROVE UsageInv'
  <2>1. \A s \in Requests : "stream" \in crossed'[s] <=> "stream" \in crossed[s]
    BY <1>17, ExecFacts
  <2> QED
    BY <1>17, <2>1, ExecFacts DEF shared, config, UsageInv, Streaming, Active
<1>18. ASSUME CloseTracker PROVE UsageInv'
  BY <1>18 DEF CloseTracker, config, hist, UsageInv, Streaming, Active
<1>19. ASSUME UNCHANGED vars PROVE UsageInv'
  BY <1>19 DEF vars, shared, config, hist, UsageInv, Streaming, Active
<1> QED
  BY <1>1, <1>2, <1>3, <1>4, <1>5, <1>6, <1>7, <1>8, <1>9, <1>10,
     <1>11, <1>12, <1>13, <1>14, <1>15, <1>16, <1>17, <1>18, <1>19
     DEF Next, Request

(* A refused key joins the keys before the index it moves on to; when another*)
(* request moves the index, or the address, this one is no longer undisturbed.*)
LEMMA KeyStep ==
  ASSUME TypeOK, PlaceInv, WriteInv, TargetInv, KeyInv, [Next]_vars
  PROVE  KeyInv'
<1> USE ClientAssumption
<1>1. ASSUME NEW r \in Requests, Start(r) PROVE KeyInv'
  BY <1>1 DEF Start, Goto, shared, config, KeyInv, Undisturbed, PlaceInv
<1>2. ASSUME NEW r \in Requests, BuildBody(r) PROVE KeyInv'
  <2>1. /\ UNCHANGED <<keyIndex, url, good, kind, attempt, crossed>>
        /\ pc'[r] = "url" /\ pc[r] = "body" /\ \A x \in Requests : x # r => pc'[x] = pc[x]
    BY <1>2 DEF BuildBody, Goto, shared, config, hist, TypeOK
  <2>2. \A x \in Requests : req'[x].url = req[x].url /\ req'[x].key = req[x].key
    BY <1>2 DEF BuildBody
  <2> QED
    BY <2>1, <2>2 DEF KeyInv, Undisturbed
<1>3. ASSUME NEW r \in Requests, BuildRequest(r) PROVE KeyInv'
  <2>1. /\ UNCHANGED <<keyIndex, url, good, kind, attempt, crossed>>
        /\ pc'[r] = "flight" /\ pc[r] = "url" /\ \A x \in Requests : x # r => pc'[x] = pc[x]
    BY <1>3 DEF BuildRequest, Goto, shared, config, hist, TypeOK
  <2>2. \A x \in Requests : x # r => req'[x] = req[x]
    BY <1>3 DEF BuildRequest
  <2>3. req'[r].key = keyIndex /\ req'[r].url \in Read(url)
    BY <1>3 DEF BuildRequest, TypeOK
  <2>4. ASSUME Undisturbed(r) PROVE req'[r].url = url
    <3>1. url # "writing"
      BY <2>1, <2>4 DEF Undisturbed, TargetInv, WriteInv, Active, Applying
    <3> QED
      BY <2>3, <3>1 DEF Read
  <2> QED
    BY <2>1, <2>2, <2>3, <2>4 DEF KeyInv, Undisturbed
<1>4. ASSUME NEW r \in Requests, Resend(r) PROVE KeyInv'
  BY <1>4 DEF Resend, Goto, shared, config, KeyInv, Undisturbed
<1>5. ASSUME NEW r \in Requests, ApplyURL(r) PROVE KeyInv'
  <2>1. /\ UNCHANGED <<keyIndex, good, kind, attempt, req>>
        /\ pc'[r] = "applyURL" /\ pc[r] = "failover"
        /\ \A x \in Requests : x # r => pc'[x] = pc[x]
    BY <1>5 DEF ApplyURL, Goto, config, TypeOK
  <2>2. /\ \A x \in Requests : x # r /\ Active(x) => "failover" \in crossed'[x]
        /\ \A x \in Requests : crossed[x] \subseteq crossed'[x]
    BY <1>5 DEF ApplyURL, Cross, ActiveSet
  <2> QED
    BY <2>1, <2>2 DEF KeyInv, Undisturbed, Active
<1>6. ASSUME NEW r \in Requests, ApplyModel(r) PROVE KeyInv'
  BY <1>6 DEF ApplyModel, Goto, config, hist, Providers, KeyInv, Undisturbed, WriteInv,
     TypeOK
<1>7. ASSUME NEW r \in Requests, Applied(r) PROVE KeyInv'
  BY <1>7 DEF Applied, Goto, config, hist, Again, NextPlace, Providers, KeyInv,
     Undisturbed, TargetInv, PlaceInv, TypeOK
<1>8. ASSUME NEW r \in Requests, Refused(r) PROVE KeyInv'
  <2>1. /\ UNCHANGED <<url, good, kind, req>>
        /\ \A x \in Requests : x # r => pc'[x] = pc[x] /\ attempt'[x] = attempt[x]
        /\ pc[r] = "flight" /\ ~KeyAccepted(r) /\ attempt'[r] = attempt[r] + 1
        /\ pc'[r] = NextPlace(r, attempt[r] + 1)
    BY <1>8, AgainFacts DEF Refused, config, TypeOK
  <2>2. CASE kind[r] = "chat"
    <3>1. UNCHANGED <<keyIndex, crossed>>
      BY <1>8, <2>2 DEF Refused
    <3> QED
      BY <2>1, <2>2, <3>1 DEF KeyInv, Undisturbed
  <2>3. CASE kind[r] = "stream"
    <3>1. /\ \A x \in Requests : x # r /\ Active(x) => "rotation" \in crossed'[x]
          /\ \A x \in Requests : crossed[x] \subseteq crossed'[x]
          /\ crossed'[r] = crossed[r]
      BY <1>8, <2>3 DEF Refused, Cross, ActiveSet
    <3>2. \A x \in Requests : x # r => (Undisturbed(x)' => Undisturbed(x) /\ ~Active(x))
      BY <3>1 DEF Undisturbed
    <3>3. /\ keyIndex \in Keys /\ keyIndex' \in Keys
          /\ keyIndex' = IF keyIndex + 1 = NKeys THEN 0 ELSE keyIndex + 1
      BY <1>8, <2>3, RotateFacts DEF Refused, TypeOK
    <3>4. ASSUME Undisturbed(r)
          PROVE  /\ req[r].url = url /\ url \in Providers
                 /\ Before(keyIndex', attempt[r] + 1) \cap good[url] = {}
      <4>1. Active(r) /\ "failover" \notin crossed[r]
        BY <2>1, <3>4 DEF Active, Undisturbed
      <4>2. req[r].url = url /\ req[r].key = keyIndex /\ url \in Providers
        BY <2>1, <2>3, <3>4, <4>1 DEF KeyInv, TargetInv
      <4>3. keyIndex \notin good[url]
        BY <2>1, <4>2 DEF KeyAccepted
      <4>4. attempt[r] \in Nat
        BY DEF TypeOK
      <4>5. Before(keyIndex, attempt[r]) \cap good[url] = {}
        <5>1. CASE attempt[r] > 0
          BY <2>1, <2>3, <3>4, <5>1 DEF KeyInv
        <5>2. CASE attempt[r] = 0
          BY <3>3, <5>2 DEF Before, Keys
        <5> QED
          BY <4>4, <5>1, <5>2
      <4>6. Before(keyIndex', attempt[r] + 1) \subseteq Before(keyIndex, attempt[r]) \cup {keyIndex}
        BY <3>3, <4>4 DEF Before, Keys
      <4> QED
        BY <4>2, <4>3, <4>5, <4>6
    <3>5. ASSUME Undisturbed(r), NKeys <= MaxReconnect + 1, attempt[r] + 1 > MaxReconnect
          PROVE  good[req[r].url] = {}
      <4>1. Before(keyIndex', attempt[r] + 1) = Keys
        BY <3>3, <3>5 DEF Before, Keys, TypeOK
      <4>2. good[url] \subseteq Keys
        BY <3>4, <3>5 DEF TypeOK
      <4> QED
        BY <3>4, <3>5, <4>1, <4>2
    <3>6. /\ Undisturbed(r)' <=> Undisturbed(r)
          /\ attempt[r] \in Nat
      BY <3>1 DEF Undisturbed, TypeOK
    <3>7. attempt[r] + 1 <= MaxReconnect => pc'[r] = "body"
      BY <2>1, <2>3, <3>6 DEF NextPlace, TotalAttempts
    <3>8. attempt[r] + 1 > MaxReconnect => pc'[r] \in {"exhausted", "failover", "failed"}
      BY <2>1, <2>3, <3>6 DEF NextPlace
    <3>9. ASSUME NEW x \in Requests, x # r, kind'[x] = "stream", Undisturbed(x)'
          PROVE  NKeys <= MaxReconnect + 1
              /\ pc'[x] \in {"failover", "applyURL", "applyModel", "exhausted", "failed"}
              => good'[req'[x].url] = {}
      BY <2>1, <3>2, <3>9 DEF KeyInv
    <3>10. \A x \in Requests : x # r /\ Undisturbed(x)' => pc'[x] \notin {"body", "url", "flight"}
      BY <2>1, <3>2 DEF Active
    <3> QED
      BY <2>1, <3>4, <3>5, <3>6, <3>7, <3>8, <3>9, <3>10 DEF KeyInv
  <2> QED
    BY <2>2, <2>3 DEF TypeOK
<1>9. ASSUME NEW r \in Requests, SendFailed(r) PROVE KeyInv'
  <2>1. /\ UNCHANGED <<keyIndex, url, good, kind, req>>
        /\ \A x \in Requests : x # r => /\ pc'[x] = pc[x] /\ attempt'[x] = attempt[x]
                                       /\ crossed'[x] = crossed[x]
        /\ "error" \in crossed'[r]
    BY <1>9, AgainFacts DEF SendFailed, shared, config, TypeOK
  <2> QED
    BY <2>1 DEF KeyInv, Undisturbed
<1>10. ASSUME NEW r \in Requests, StreamAccepted(r) PROVE KeyInv'
  BY <1>10 DEF StreamAccepted, Goto, shared, config, hist, KeyInv, Undisturbed
<1>11. ASSUME NEW r \in Requests, StreamUsage(r) PROVE KeyInv'
  BY <1>11 DEF StreamUsage, config, hist, KeyInv, Undisturbed
<1>12. ASSUME NEW r \in Requests, StreamBroken(r) PROVE KeyInv'
  <2>1. /\ UNCHANGED <<keyIndex, url, good, kind, req>>
        /\ \A x \in Requests : x # r => /\ pc'[x] = pc[x] /\ attempt'[x] = attempt[x]
                                       /\ crossed'[x] = crossed[x]
        /\ "error" \in crossed'[r]
    BY <1>12, AgainFacts DEF StreamBroken, Goto, shared, config, TypeOK
  <2> QED
    BY <2>1 DEF KeyInv, Undisturbed
<1>13. ASSUME NEW r \in Requests, StreamEnded(r) PROVE KeyInv'
  BY <1>13 DEF StreamEnded, Goto, config, hist, KeyInv, Undisturbed
<1>14. ASSUME NEW r \in Requests, StreamExhausted(r) PROVE KeyInv'
  BY <1>14 DEF StreamExhausted, Goto, config, hist, KeyInv, Undisturbed
<1>15. ASSUME NEW r \in Requests, ChatAnswered(r) PROVE KeyInv'
  BY <1>15 DEF ChatAnswered, Goto, shared, config, hist, KeyInv, Undisturbed
<1>16. ASSUME NEW r \in Requests, TrackTake(r) PROVE KeyInv'
  BY <1>16 DEF TrackTake, Goto, shared, config, hist, KeyInv, Undisturbed
<1>17. ASSUME NEW r \in Requests, TrackExec(r) PROVE KeyInv'
  <2>1. \A s \in Requests : Undisturbed(s)' <=> Undisturbed(s)
    BY <1>17, ExecFacts DEF Undisturbed
  <2> QED
    BY <1>17, <2>1, ExecFacts DEF shared, config, KeyInv
<1>18. ASSUME CloseTracker PROVE KeyInv'
  BY <1>18 DEF CloseTracker, config, hist, KeyInv, Undisturbed
<1>19. ASSUME UNCHANGED vars PROVE KeyInv'
  BY <1>19 DEF vars, shared, config, hist, KeyInv, Undisturbed
<1> QED
  BY <1>1, <1>2, <1>3, <1>4, <1>5, <1>6, <1>7, <1>8, <1>9, <1>10,
     <1>11, <1>12, <1>13, <1>14, <1>15, <1>16, <1>17, <1>18, <1>19
     DEF Next, Request

-----------------------------------------------------------------------------
(* The inductive invariant: the others rest on PlaceInv and WriteInv, KeyInv*)
(* on TargetInv as well.                                                    *)
ClientInv ==
    /\ TypeOK /\ PlaceInv /\ WriteInv
    /\ TargetInv /\ FallbackInv /\ KeyInv /\ UsageInv

(* A client starts between two writes of applyFailover, with no request on  *)
(* its way, whatever the requests before left in keyIndex and lastUsage.    *)
LEMMA ClientStart == Init => ClientInv
<1> SUFFICES ASSUME Init PROVE ClientInv
  OBVIOUS
<1> USE ClientAssumption DEF Init
<1>1. TypeOK
  <2>1. lastUsage \in Usage /\ took \in [Requests -> Usage]
    BY DEF Usage, NoUsage
  <2>2. 0 \in Keys
    BY DEF Keys
  <2>3. req \in [Requests -> [model : Providers \cup {"torn"},
                              url : Providers \cup {"torn"}, key : Keys]]
    BY <2>2 DEF Providers
  <2>4. closed \in BOOLEAN
    OBVIOUS
  <2> HIDE DEF Init
  <2>5. /\ url \in Providers \cup {"writing"} /\ model \in Providers \cup {"writing"}
        /\ keyIndex \in Keys /\ good \in [Providers -> SUBSET Keys]
        /\ kind \in [Requests -> {"stream", "chat"}]
    BY DEF Init, Providers
  <2>6. /\ attempt \in [Requests -> 0..(TotalAttempts + 1)]
        /\ seen \in [Requests -> 0..(MaxReports + 1)] /\ rows \in [Requests -> 0..1]
    BY DEF Init, TotalAttempts
  <2>7. /\ pc \in [Requests -> {"idle", "body", "url", "flight", "failover", "applyURL",
                            "applyModel", "read", "exhausted", "record", "exec", "ok", "failed"}]
        /\ crossed \in [Requests -> SUBSET {"rotation", "error", "stream", "failover", "exec"}]
    BY DEF Init
  <2> QED
    BY <2>1, <2>3, <2>4, <2>5, <2>6, <2>7, Zenon DEF TypeOK
<1>2. PlaceInv
  BY DEF PlaceInv, NoUsage
<1>3. WriteInv
  BY DEF WriteInv, Providers
<1>4. TargetInv
  BY DEF TargetInv, Active
<1>5. FallbackInv /\ KeyInv
  BY DEF FallbackInv, KeyInv
<1>6. UsageInv
  BY DEF UsageInv, Streaming, Active
<1> QED
  BY <1>1, <1>2, <1>3, <1>4, <1>5, <1>6 DEF ClientInv

(* Every step of every request keeps all of it.                             *)
LEMMA ClientStep == ClientInv /\ [Next]_vars => ClientInv'
<1> SUFFICES ASSUME ClientInv, [Next]_vars PROVE ClientInv'
  OBVIOUS
<1>1. TypeOK /\ PlaceInv /\ WriteInv /\ TargetInv /\ FallbackInv /\ KeyInv /\ UsageInv
  BY DEF ClientInv
<1>2. TypeOK' /\ PlaceInv' /\ WriteInv'
  BY <1>1, TypeStep, PlaceStep, WriteStep
<1>3. TargetInv' /\ FallbackInv' /\ KeyInv' /\ UsageInv'
  BY <1>1, <1>2, TargetStep, FallbackStep, KeyStep, UsageStep
<1> QED
  BY <1>2, <1>3 DEF ClientInv

(* What the requests of a client share stays well typed: in particular      *)
(* keyIndex is always the index of a key, the attempts stay within the      *)
(* bounds of the loops, and a call has at most one row in the tracker.      *)
THEOREM ClientTypeOK == Spec => []TypeOK
<1>1. ClientInv => TypeOK
  BY DEF ClientInv
<1> QED
  BY <1>1, ClientStart, ClientStep, PTL DEF Spec

(* The unlocked writes of applyFailover never mix up a request that no      *)
(* other request's failover crosses.                                        *)
THEOREM ClientTargetsAgree == Spec => []TargetsAgree
<1>1. ClientInv => TargetsAgree
  BY DEF ClientInv, TargetInv, TargetsAgree, Active
<1> QED
  BY <1>1, ClientStart, ClientStep, PTL DEF Spec

(* A chat that fails has asked the fallback, whoever else failed over.      *)
THEOREM ClientChatAsksFallback == Spec => []ChatAsksFallback
<1>1. ClientInv => ChatAsksFallback
  BY DEF ClientInv, FallbackInv, ChatAsksFallback
<1> QED
  BY <1>1, ClientStart, ClientStep, PTL DEF Spec

(* rotateKey tries every key: a stream nobody disturbs fails on 401 or 403  *)
(* only if its provider accepts none, whichever key it began with.          *)
THEOREM ClientLoneStreamFindsKey == Spec => []LoneStreamFindsKey
<1>1. ClientInv => LoneStreamFindsKey
  BY DEF ClientInv, KeyInv, Undisturbed, LoneStreamFindsKey
<1> QED
  BY <1>1, ClientStart, ClientStep, PTL DEF Spec

(* Every step keeps what UsageOwner says: what a call took is its own, and  *)
(* a stream that failed stays failed.                                       *)
LEMMA OwnerStep ==
  ASSUME TypeOK, PlaceInv, UsageInv, UsageOwner, [Next]_vars
  PROVE  UsageOwner'
<1> USE ClientAssumption
<1>1. ASSUME NEW r \in Requests, Start(r) PROVE UsageOwner'
  BY <1>1 DEF Start, Goto, config, UsageOwner
<1>2. ASSUME NEW r \in Requests, BuildBody(r) PROVE UsageOwner'
  BY <1>2 DEF BuildBody, Goto, config, hist, UsageOwner
<1>3. ASSUME NEW r \in Requests, BuildRequest(r) PROVE UsageOwner'
  BY <1>3 DEF BuildRequest, Goto, config, hist, UsageOwner
<1>4. ASSUME NEW r \in Requests, Resend(r) PROVE UsageOwner'
  BY <1>4 DEF Resend, Goto, config, UsageOwner
<1>5. ASSUME NEW r \in Requests, ApplyURL(r) PROVE UsageOwner'
  BY <1>5 DEF ApplyURL, Goto, config, Cross, UsageOwner
<1>6. ASSUME NEW r \in Requests, ApplyModel(r) PROVE UsageOwner'
  BY <1>6 DEF ApplyModel, Goto, config, hist, UsageOwner
<1>7. ASSUME NEW r \in Requests, Applied(r) PROVE UsageOwner'
  BY <1>7 DEF Applied, Goto, config, hist, Again, NextPlace, UsageOwner, TypeOK
<1>8. ASSUME NEW r \in Requests, Refused(r) PROVE UsageOwner'
  BY <1>8 DEF Refused, Goto, config, Again, NextPlace, Cross, UsageOwner
<1>9. ASSUME NEW r \in Requests, SendFailed(r) PROVE UsageOwner'
  BY <1>9 DEF SendFailed, Goto, config, Again, NextPlace, UsageOwner
<1>10. ASSUME NEW r \in Requests, StreamAccepted(r) PROVE UsageOwner'
  BY <1>10 DEF StreamAccepted, Goto, config, hist, UsageOwner
<1>11. ASSUME NEW r \in Requests, StreamUsage(r) PROVE UsageOwner'
  BY <1>11 DEF StreamUsage, config, hist, UsageOwner
<1>12. ASSUME NEW r \in Requests, StreamBroken(r) PROVE UsageOwner'
  BY <1>12 DEF StreamBroken, Goto, config, Again, NextPlace, UsageOwner, TypeOK
<1>13. ASSUME NEW r \in Requests, StreamEnded(r) PROVE UsageOwner'
  <2>1. /\ UNCHANGED <<kind, seen, crossed>>
        /\ \A x \in Requests : x # r => pc'[x] = pc[x] /\ took'[x] = took[x]
        /\ pc[r] = "read" /\ pc'[r] = "record" /\ took'[r] = lastUsage /\ kind[r] = "stream"
    BY <1>13 DEF StreamEnded, Goto, config, hist, TypeOK, PlaceInv
  <2>2. \A s \in Requests : pc[s] = "failed" => pc'[s] = "failed"
    BY <2>1
  <2>3. ASSUME "stream" \notin crossed[r], seen[r] = 0, lastUsage # NoUsage
        PROVE  lastUsage[1] \in {Earlier} \cup {s \in Requests : pc'[s] = "failed"}
    <3>1. ASSUME NEW s \in Requests, lastUsage[1] = s PROVE pc[s] = "failed"
      <4>1. lastUsage[2] >= 1
        BY <2>3 DEF TypeOK, Usage
      <4>2. lastUsage[2] <= seen[s] /\ pc[s] \in {"read", "failed"} /\ kind[s] = "stream"
        BY <2>3, <3>1 DEF UsageInv
      <4>3. s # r
        BY <2>3, <4>1, <4>2 DEF TypeOK, Usage
      <4> QED
        BY <2>1, <2>3, <4>2, <4>3 DEF UsageInv, Streaming, Active
    <3> QED
      BY <2>2, <2>3, <3>1 DEF UsageInv
  <2>4. ASSUME "stream" \notin crossed[r], seen[r] > 0 PROVE lastUsage = <<r, seen[r]>>
    BY <2>1, <2>4 DEF UsageInv
  <2>5. seen[r] \in Nat
    BY DEF TypeOK
  <2> QED
    BY <2>1, <2>2, <2>3, <2>4, <2>5 DEF UsageOwner
<1>14. ASSUME NEW r \in Requests, StreamExhausted(r) PROVE UsageOwner'
  BY <1>14 DEF StreamExhausted, Goto, config, hist, UsageOwner
<1>15. ASSUME NEW r \in Requests, ChatAnswered(r) PROVE UsageOwner'
  BY <1>15 DEF ChatAnswered, Goto, config, hist, UsageOwner, PlaceInv, TypeOK
<1>16. ASSUME NEW r \in Requests, TrackTake(r) PROVE UsageOwner'
  BY <1>16 DEF TrackTake, Goto, config, hist, UsageOwner
<1>17. ASSUME NEW r \in Requests, TrackExec(r) PROVE UsageOwner'
  <2>1. \A s \in Requests : "stream" \in crossed'[s] <=> "stream" \in crossed[s]
    BY <1>17, ExecFacts
  <2> QED
    BY <1>17, <2>1, ExecFacts DEF config, UsageOwner
<1>18. ASSUME CloseTracker PROVE UsageOwner'
  BY <1>18 DEF CloseTracker, config, hist, UsageOwner
<1>19. ASSUME UNCHANGED vars PROVE UsageOwner'
  BY <1>19 DEF vars, config, hist, UsageOwner
<1> QED
  BY <1>1, <1>2, <1>3, <1>4, <1>5, <1>6, <1>7, <1>8, <1>9, <1>10,
     <1>11, <1>12, <1>13, <1>14, <1>15, <1>16, <1>17, <1>18, <1>19
     DEF Next, Request

(* Every step keeps what UsageCountedOnce says: a report is taken from       *)
(* lastUsage with its reset, and a row is written at the end only.          *)
LEMMA CountStep ==
  ASSUME TypeOK, PlaceInv, UsageInv, UsageCountedOnce, [Next]_vars
  PROVE  UsageCountedOnce'
<1> USE ClientAssumption
<1>1. ASSUME NEW r \in Requests, Start(r) PROVE UsageCountedOnce'
  BY <1>1 DEF Start, Goto, shared, UsageCountedOnce
<1>2. ASSUME NEW r \in Requests, BuildBody(r) PROVE UsageCountedOnce'
  BY <1>2 DEF BuildBody, Goto, shared, hist, UsageCountedOnce
<1>3. ASSUME NEW r \in Requests, BuildRequest(r) PROVE UsageCountedOnce'
  BY <1>3 DEF BuildRequest, Goto, shared, hist, UsageCountedOnce
<1>4. ASSUME NEW r \in Requests, Resend(r) PROVE UsageCountedOnce'
  BY <1>4 DEF Resend, Goto, shared, UsageCountedOnce
<1>5. ASSUME NEW r \in Requests, ApplyURL(r) PROVE UsageCountedOnce'
  <2>1. \A s \in Requests : "exec" \in crossed[s] => "exec" \in crossed'[s]
    BY <1>5 DEF ApplyURL, Cross
  <2> QED
    BY <1>5, <2>1 DEF ApplyURL, Goto, UsageCountedOnce
<1>6. ASSUME NEW r \in Requests, ApplyModel(r) PROVE UsageCountedOnce'
  BY <1>6 DEF ApplyModel, Goto, hist, UsageCountedOnce
<1>7. ASSUME NEW r \in Requests, Applied(r) PROVE UsageCountedOnce'
  BY <1>7 DEF Applied, Goto, hist, Again, NextPlace, UsageCountedOnce, TypeOK
<1>8. ASSUME NEW r \in Requests, Refused(r) PROVE UsageCountedOnce'
  <2>1. \A s \in Requests : "exec" \in crossed[s] => "exec" \in crossed'[s]
    BY <1>8 DEF Refused, Cross
  <2> QED
    BY <1>8, <2>1 DEF Refused, Goto, Again, NextPlace, UsageCountedOnce
<1>9. ASSUME NEW r \in Requests, SendFailed(r) PROVE UsageCountedOnce'
  BY <1>9 DEF SendFailed, Goto, shared, Again, NextPlace, UsageCountedOnce
<1>10. ASSUME NEW r \in Requests, StreamAccepted(r) PROVE UsageCountedOnce'
  BY <1>10 DEF StreamAccepted, Goto, shared, hist, UsageCountedOnce
<1>11. ASSUME NEW r \in Requests, StreamUsage(r) PROVE UsageCountedOnce'
  BY <1>11 DEF StreamUsage, hist, UsageCountedOnce
<1>12. ASSUME NEW r \in Requests, StreamBroken(r) PROVE UsageCountedOnce'
  BY <1>12 DEF StreamBroken, Goto, shared, Again, NextPlace, UsageCountedOnce, TypeOK
<1>13. ASSUME NEW r \in Requests, StreamEnded(r) PROVE UsageCountedOnce'
  BY <1>13 DEF StreamEnded, Goto, hist, UsageCountedOnce, UsageInv
<1>14. ASSUME NEW r \in Requests, StreamExhausted(r) PROVE UsageCountedOnce'
  BY <1>14 DEF StreamExhausted, Goto, hist, UsageCountedOnce
<1>15. ASSUME NEW r \in Requests, ChatAnswered(r) PROVE UsageCountedOnce'
  <2>1. /\ UNCHANGED <<rows, closed, crossed>>
        /\ \A x \in Requests : x # r => pc'[x] = pc[x] /\ took'[x] = took[x]
        /\ pc[r] = "flight" /\ pc'[r] = "record"
    BY <1>15 DEF ChatAnswered, Goto, shared, hist, TypeOK
  <2>2. seen[r] = 0 /\ took[r] = NoUsage
    BY <2>1 DEF PlaceInv, TypeOK
  <2>3. took'[r] = <<r, 1>> \/ took'[r] = NoUsage
    BY <1>15, <2>2 DEF ChatAnswered, TypeOK
  <2>4. \A s \in Requests : took[s] # <<r, 1>>
    BY <2>2 DEF UsageInv, NoUsage
  <2> QED
    BY <2>1, <2>3, <2>4 DEF UsageCountedOnce
<1>16. ASSUME NEW r \in Requests, TrackTake(r) PROVE UsageCountedOnce'
  BY <1>16 DEF TrackTake, Goto, shared, hist, UsageCountedOnce
<1>17. ASSUME NEW r \in Requests, TrackExec(r) PROVE UsageCountedOnce'
  BY <1>17 DEF TrackExec, Goto, shared, UsageCountedOnce, PlaceInv, TypeOK
<1>18. ASSUME CloseTracker PROVE UsageCountedOnce'
  BY <1>18 DEF CloseTracker, UsageCountedOnce
<1>19. ASSUME UNCHANGED vars PROVE UsageCountedOnce'
  BY <1>19 DEF vars, shared, hist, UsageCountedOnce
<1> QED
  BY <1>1, <1>2, <1>3, <1>4, <1>5, <1>6, <1>7, <1>8, <1>9, <1>10,
     <1>11, <1>12, <1>13, <1>14, <1>15, <1>16, <1>17, <1>18, <1>19
     DEF Next, Request

(* A call is charged the last usage its provider reported: a chat always, a *)
(* stream if no other stream overlaps it, although all streams share        *)
(* lastUsage.                                                               *)
THEOREM ClientUsageOwner == Spec => []UsageOwner
<1>1. Init => ClientInv /\ UsageOwner
  BY ClientStart DEF Init, UsageOwner
<1>2. ClientInv /\ UsageOwner /\ [Next]_vars => (ClientInv /\ UsageOwner)'
  BY ClientStep, OwnerStep DEF ClientInv
<1> QED
  BY <1>1, <1>2, PTL DEF Spec

(* No usage report is charged twice, and every call that succeeds before    *)
(* the tracker is closed has exactly one row.                               *)
THEOREM ClientUsageCountedOnce == Spec => []UsageCountedOnce
<1>1. Init => ClientInv /\ UsageCountedOnce
  BY ClientStart DEF Init, UsageCountedOnce
<1>2. ClientInv /\ UsageCountedOnce /\ [Next]_vars => (ClientInv /\ UsageCountedOnce)'
  BY ClientStep, CountStep DEF ClientInv
<1> QED
  BY <1>1, <1>2, PTL DEF Spec
=============================================================================
