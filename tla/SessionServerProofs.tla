------------------------- MODULE SessionServerProofs -------------------------
(***************************************************************************)
(* For any number of sessions, requests and restarts: the histories stay   *)
(* well typed and made of whole turns of their own session, and a turn the *)
(* client has an answer to stays in its session until that is evicted or   *)
(* the process dies without having saved it, as long as every turn has a   *)
(* user message.                                                           *)
(***************************************************************************)
EXTENDS SessionServer, FiniteSetTheorems, SequenceTheorems, TLAPS

(* A history of session s holds turns of that session only, and only turns  *)
(* that a handler has appended: a turn is appended once.                    *)
Owned(h, s, place, own) ==
    \A i \in DOMAIN h : own[h[i].turn] = s /\ place[h[i].turn] \in {"stored", "done"}

OwnedInv ==
    /\ \A s \in DOMAIN sessions : Owned(sessions[s], s, pc, sid)
    /\ \A s \in DOMAIN disk : Owned(disk[s], s, pc, sid)
    /\ \A r \in Requests : Owned(snap[r], sid[r], pc, sid)

(* What WellFormed asks of the messages of a history, whichever session it  *)
(* is of.                                                                   *)
Whole(h) ==
    /\ Len(h) % 2 = 0
    /\ \A i \in DOMAIN h : i % 2 = 1 =>
        h[i].role = "user" /\ h[i + 1].role = "assistant" /\ h[i].turn = h[i + 1].turn
    /\ Cardinality(Turns(h)) * 2 = Len(h)

WholeInv ==
    UserMessagesOnly =>
        /\ \A s \in DOMAIN sessions : Whole(sessions[s])
        /\ \A s \in DOMAIN disk : Whole(disk[s])
        /\ \A r \in Requests : Whole(snap[r])

(* Where an answered turn is while the process lives, what of it a save     *)
(* puts on disk, and what is on disk when the process is gone.              *)
Appended(r) == pc[r] = "stored" \/ (r \in answered /\ pc[r] # "replied")

Kept ==
    /\ \A r \in answered : pc[r] \in {"replied", "done"}
    /\ proc # "down" =>
        \A r \in Requests \ lost : Appended(r) => r \in Turns(History(sid[r]))
    /\ proc = "saving" => due = AllTurns(sessions)
    /\ proc = "saved" => due \subseteq OnDisk
    /\ proc = "down" => \A r \in Requests :
        /\ pc[r] \in {"new", "done"}
        /\ pc[r] = "done" /\ r \notin lost => r \in OnDisk

KeptInv == UserMessagesOnly => Kept

-----------------------------------------------------------------------------
(* What Manager.Append does to a history: two messages of one turn more.    *)
LEMMA AppendFacts ==
  ASSUME NEW h \in Seq(Msg), NEW r \in Requests
  PROVE  LET g == h \o Turn(r) IN
         /\ g \in Seq(Msg) /\ Len(g) = Len(h) + 2
         /\ DOMAIN h = 1..Len(h) /\ DOMAIN g = 1..(Len(h) + 2) /\ Len(h) \in Nat
         /\ \A i \in 1..Len(h) : g[i] = h[i]
         /\ g[Len(h) + 1] = Turn(r)[1] /\ g[Len(h) + 2] = Turn(r)[2]
         /\ g[Len(h) + 1].turn = r /\ g[Len(h) + 2].turn = r
         /\ Turns(g) = Turns(h) \cup {r}
<1> DEFINE t == Turn(r)
           g == h \o t
<1>1. t \in Seq(Msg) /\ Len(t) = 2 /\ t[1].turn = r /\ t[2].turn = r
  BY DEF Turn, Msg, Roles
<1> HIDE DEF t
<1>2. /\ g \in Seq(Msg) /\ Len(g) = Len(h) + 2 /\ Len(h) \in Nat
      /\ DOMAIN h = 1..Len(h) /\ DOMAIN g = 1..(Len(h) + 2)
  <2>1. g \in Seq(Msg) /\ Len(g) = Len(h) + Len(t)
    BY <1>1, ConcatProperties
  <2> HIDE DEF g
  <2> QED
    BY <1>1, <2>1
<1>3. /\ \A i \in 1..Len(h) : g[i] = h[i]
      /\ g[Len(h) + 1] = t[1] /\ g[Len(h) + 2] = t[2]
  BY <1>1, <1>2
<1> HIDE DEF g
<1>4. \A i \in 1..(Len(h) + 2) : i \in 1..Len(h) \/ i = Len(h) + 1 \/ i = Len(h) + 2
  BY <1>2
<1>5. \A i \in 1..Len(h) : i \in 1..(Len(h) + 2)
  BY <1>2
<1>6. Len(h) + 1 \in 1..(Len(h) + 2)
  BY <1>2
<1>7. Turns(g) = Turns(h) \cup {r}
  BY <1>1, <1>2, <1>3, <1>4, <1>5, <1>6 DEF Turns
<1> QED
  BY <1>1, <1>2, <1>3, <1>7 DEF t, g

(* Every step of a handler, of the cleanup, of a save and of a restart      *)
(* keeps the types.                                                         *)
LEMMA TypeStep == TypeOK /\ [Next]_vars => TypeOK'
<1> SUFFICES ASSUME TypeOK, [Next]_vars PROVE TypeOK'
  OBVIOUS
<1> USE SessionAssumption DEF config, access, hist
<1>0. \A s \in Sids : History(s) \in Seq(Msg)
  <2>1. <<>> \in Seq(Msg)
    OBVIOUS
  <2> QED
    BY <2>1 DEF TypeOK, Histories, History
<1>t. ASSUME NEW s \in Sids, Touch(s)
      PROVE  /\ DOMAIN lastAccess' \subseteq Sids
             /\ \A x \in DOMAIN lastAccess' : lastAccess'[x] \in 0..(MaxAge + 1)
             /\ restored' \subseteq Sids
  BY <1>t DEF Touch, With, TypeOK
<1>a. ASSUME NEW r \in Requests, AppendTurn(r)
      PROVE  /\ DOMAIN sessions' \subseteq Sids /\ Histories(sessions')
             /\ DOMAIN lastAccess' \subseteq Sids
             /\ \A x \in DOMAIN lastAccess' : lastAccess'[x] \in 0..(MaxAge + 1)
             /\ restored' \subseteq Sids
  <2>1. sid[r] \in Sids
    BY DEF TypeOK
  <2>2. History(sid[r]) \o Turn(r) \in Seq(Msg)
    BY <1>0, <2>1, AppendFacts
  <2>3. DOMAIN sessions' \subseteq Sids /\ Histories(sessions')
    BY <1>a, <2>1, <2>2 DEF AppendTurn, With, TypeOK, Histories
  <2> QED
    BY <1>a, <1>t, <2>1, <2>3 DEF AppendTurn
<1>1. ASSUME NEW r \in Requests, Accept(r) PROVE TypeOK'
  BY <1>0, <1>1, <1>t DEF Accept, TypeOK
<1>2. ASSUME NEW r \in Requests, Fail(r) PROVE TypeOK'
  BY <1>2 DEF Fail, TypeOK
<1>3. ASSUME NEW r \in Requests, Store(r) PROVE TypeOK'
  BY <1>3, <1>a DEF Store, TypeOK
<1>4. ASSUME NEW r \in Requests, Reply(r) PROVE TypeOK'
  BY <1>4 DEF Reply, TypeOK
<1>5. ASSUME NEW r \in Requests, StreamReply(r) PROVE TypeOK'
  BY <1>5 DEF StreamReply, TypeOK
<1>6. ASSUME NEW r \in Requests, StreamStore(r) PROVE TypeOK'
  BY <1>6, <1>a DEF StreamStore, TypeOK
<1>b. ASSUME NEW h \in Seq(Msg) PROVE Turns(h) \subseteq Requests
  <2>1. \A i \in DOMAIN h : h[i] \in Msg
    OBVIOUS
  <2>2. \A m \in Msg : m.turn \in Requests
    BY DEF Msg
  <2> QED
    BY <2>1, <2>2 DEF Turns
<1>c. ASSUME NEW f, Histories(f) PROVE AllTurns(f) \subseteq Requests
  BY <1>b, <1>c DEF AllTurns, Histories
<1>7. ASSUME Cleanup PROVE TypeOK'
  <2>1. DOMAIN sessions' \subseteq Sids /\ Histories(sessions')
    BY <1>7 DEF Cleanup, Without, TypeOK, Histories
  <2>2. /\ DOMAIN lastAccess' \subseteq Sids
        /\ \A s \in DOMAIN lastAccess' : lastAccess'[s] \in 0..(MaxAge + 1)
    BY <1>7 DEF Cleanup, Without, TypeOK
  <2>3. \A s \in Expired : Turns(History(s)) \subseteq Requests
    BY <1>0, <1>b DEF Expired, TypeOK
  <2>4. lost' \subseteq Requests
    BY <1>7, <2>3 DEF Cleanup, TypeOK
  <2> QED
    BY <1>7, <2>1, <2>2, <2>4 DEF Cleanup, TypeOK
<1>8. ASSUME Tick PROVE TypeOK'
  <2>1. /\ DOMAIN lastAccess' \subseteq Sids
        /\ \A s \in DOMAIN lastAccess' : lastAccess'[s] \in 0..(MaxAge + 1)
    BY <1>8 DEF Tick, TypeOK
  <2> QED
    BY <1>8, <2>1 DEF Tick, TypeOK
<1>d. ASSUME NEW S, Die(S)
      PROVE  /\ proc' = "down" /\ lost' \subseteq Requests
             /\ pc' \in [Requests -> {"new", "running", "stored", "replied", "done"}]
  BY <1>d DEF Die, TypeOK
<1>9. ASSUME Signal PROVE TypeOK'
  <2>1. due' \subseteq Requests
    BY <1>9, <1>c DEF Signal, TypeOK
  <2>2. /\ proc' \in {"up", "saving", "saved", "down"} /\ lost' \subseteq Requests
        /\ pc' \in [Requests -> {"new", "running", "stored", "replied", "done"}]
    BY <1>9, <1>d DEF Signal, TypeOK
  <2>3. intact' \in BOOLEAN
    BY <1>9, Zenon DEF Signal, TypeOK
  <2> QED
    BY <1>9, <2>1, <2>2, <2>3 DEF Signal, TypeOK
<1>10. ASSUME SaveEnd PROVE TypeOK'
  <2>1. Histories(disk') /\ due' \subseteq Requests
    BY <1>10 DEF SaveEnd, TypeOK, Histories
  <2>2. intact' \in BOOLEAN
    BY <1>10, Zenon DEF SaveEnd, TypeOK
  <2> QED
    BY <1>10, <2>1, <2>2 DEF SaveEnd, TypeOK
<1>11. ASSUME Exit PROVE TypeOK'
  BY <1>11, <1>d DEF Exit, TypeOK
<1>12. ASSUME Kill PROVE TypeOK'
  BY <1>12, <1>d DEF Kill, TypeOK
<1>13. ASSUME Restart PROVE TypeOK'
  <2>1. DOMAIN sessions' \subseteq Sids /\ Histories(sessions')
    BY <1>13 DEF Restart, TypeOK, Histories, Nothing
  <2>2. DOMAIN lastAccess' = {}
    BY <1>13 DEF Restart, Nothing
  <2> QED
    BY <1>13, <2>1, <2>2 DEF Restart, TypeOK
<1>14. ASSUME UNCHANGED vars PROVE TypeOK'
  BY <1>14 DEF vars, TypeOK
<1> QED
  BY <1>1, <1>2, <1>3, <1>4, <1>5, <1>6, <1>7, <1>8, <1>9, <1>10, <1>11, <1>12, <1>13, <1>14
     DEF Next, Handler

-----------------------------------------------------------------------------
(* Handlers only move on: what was stored stays stored or done, across      *)
(* crashes and restarts; a request keeps its session.                       *)
LEMMA Forward ==
  ASSUME TypeOK, [Next]_vars
  PROVE  /\ sid' = sid /\ native' = native /\ kind' = kind
         /\ \A r \in Requests : pc[r] \in {"stored", "done"} => pc'[r] \in {"stored", "done"}
BY DEF Next, Handler, Accept, Fail, Store, Reply, StreamReply, StreamStore, Cleanup, Tick,
   Signal, SaveEnd, Exit, Kill, Restart, Die, vars, config, TypeOK

(* So a history stays owned as long as nothing is appended to it.           *)
LEMMA OwnedKept ==
  ASSUME TypeOK, [Next]_vars, NEW h \in Seq(Msg), NEW s, Owned(h, s, pc, sid)
  PROVE  Owned(h, s, pc', sid')
<1>1. \A i \in DOMAIN h : h[i] \in Msg
  OBVIOUS
<1>2. \A m \in Msg : m.turn \in Requests
  BY DEF Msg
<1> QED
  BY <1>1, <1>2, Forward DEF Owned

(* A session that does not exist yet has an empty history, which is whole.  *)
LEMMA EmptyWhole == Whole(<<>>)
<1> DEFINE e == <<>>
<1>1. Len(e) = 0 /\ DOMAIN e = {}
  OBVIOUS
<1>2. Turns(e) = {}
  BY DEF Turns
<1> HIDE DEF e
<1>3. Cardinality({}) = 0
  BY FS_EmptySet
<1>4. Whole(e)
  BY <1>1, <1>2, <1>3 DEF Whole
<1> QED
  BY <1>4 DEF e

(* The history a handler reads or extends is in Manager.sessions, or empty. *)
LEMMA HistoryFacts ==
  ASSUME TypeOK, NEW s
  PROVE  /\ History(s) \in Seq(Msg)
         /\ OwnedInv => Owned(History(s), s, pc, sid)
         /\ WholeInv /\ UserMessagesOnly => Whole(History(s))
<1>1. CASE s \in DOMAIN sessions
  BY <1>1 DEF History, TypeOK, Histories, OwnedInv, WholeInv
<1>2. CASE s \notin DOMAIN sessions
  <2>1. History(s) = <<>>
    BY <1>2 DEF History
  <2> QED
    BY <2>1, EmptyWhole DEF Owned
<1> QED
  BY <1>1, <1>2

(* Every step leaves every history, stored, loaded or given to the agent,   *)
(* with appended turns of its own session only.                             *)
LEMMA OwnedStep == TypeOK /\ OwnedInv /\ [Next]_vars => OwnedInv'
<1> SUFFICES ASSUME TypeOK, OwnedInv, [Next]_vars PROVE OwnedInv'
  OBVIOUS
<1> DEFINE InSessions == \A s \in DOMAIN sessions : Owned(sessions[s], s, pc, sid)
           OnFile == \A s \in DOMAIN disk : Owned(disk[s], s, pc, sid)
           Given == \A r \in Requests : Owned(snap[r], sid[r], pc, sid)
<1>0. InSessions /\ OnFile /\ Given /\ (InSessions' /\ OnFile' /\ Given' => OwnedInv')
  BY DEF OwnedInv
<1>1. ASSUME sessions' = sessions PROVE InSessions'
  BY <1>0, <1>1, OwnedKept DEF TypeOK, Histories
<1>2. ASSUME disk' = disk PROVE OnFile'
  BY <1>0, <1>2, OwnedKept DEF TypeOK, Histories
<1>3. ASSUME snap' = snap PROVE Given'
  BY <1>0, <1>3, OwnedKept, Forward DEF TypeOK
<1>4. ASSUME NEW r \in Requests, AppendTurn(r), pc'[r] \in {"stored", "done"} PROVE InSessions'
  <2> DEFINE h == History(sid[r])
             g == h \o Turn(r)
  <2>1. h \in Seq(Msg) /\ Owned(h, sid[r], pc, sid)
    BY HistoryFacts
  <2>2. sessions' = With(sessions, sid[r], g)
    BY <1>4 DEF AppendTurn
  <2>3. Owned(h, sid[r], pc', sid')
    BY <2>1, OwnedKept
  <2> HIDE DEF h
  <2>4. \A i \in 1..Len(h) : sid[h[i].turn] = sid[r] /\ pc'[h[i].turn] \in {"stored", "done"}
    BY <2>1, <2>3, Forward DEF Owned
  <2>5. /\ DOMAIN g = 1..(Len(h) + 2) /\ Len(h) \in Nat
        /\ \A i \in 1..Len(h) : g[i] = h[i]
        /\ g[Len(h) + 1].turn = r /\ g[Len(h) + 2].turn = r
    BY <2>1, AppendFacts
  <2> HIDE DEF g
  <2>6. \A i \in 1..(Len(h) + 2) : i \in 1..Len(h) \/ i = Len(h) + 1 \/ i = Len(h) + 2
    BY <2>5
  <2>7. \A i \in DOMAIN g : sid'[g[i].turn] = sid[r] /\ pc'[g[i].turn] \in {"stored", "done"}
    BY <1>4, <2>4, <2>5, <2>6, Forward
  <2>8. ASSUME NEW s \in DOMAIN sessions, s # sid[r] PROVE Owned(sessions[s], s, pc', sid')
    BY <1>0, OwnedKept DEF TypeOK, Histories
  <2>9. ASSUME NEW s \in DOMAIN sessions' PROVE Owned(sessions'[s], s, pc', sid')
    <3>1. CASE s = sid[r]
      <4>1. sessions'[s] = g
        BY <2>2, <3>1 DEF With
      <4> QED
        BY <2>7, <3>1, <4>1 DEF Owned
    <3>2. CASE s # sid[r]
      <4>1. s \in DOMAIN sessions /\ sessions'[s] = sessions[s]
        BY <2>2, <2>9, <3>2 DEF With
      <4> QED
        BY <2>8, <3>2, <4>1 DEF Owned
    <3> QED
      BY <3>1, <3>2
  <2> QED
    BY <2>9
<1>5. ASSUME NEW r \in Requests, Accept(r) PROVE OwnedInv'
  <2>1. UNCHANGED <<sessions, disk>>
    BY <1>5 DEF Accept
  <2>2. History(sid[r]) \in Seq(Msg) /\ Owned(History(sid[r]), sid[r], pc, sid)
    BY HistoryFacts
  <2>3. ASSUME NEW x \in Requests PROVE Owned(snap'[x], sid'[x], pc', sid')
    <3>1. snap'[x] = snap[x] \/ (x = r /\ snap'[x] = History(sid[x]))
      BY <1>5 DEF Accept, TypeOK
    <3>2. snap'[x] \in Seq(Msg) /\ Owned(snap'[x], sid[x], pc, sid)
      BY <1>0, <2>2, <3>1 DEF TypeOK
    <3> QED
      BY <3>2, Forward, OwnedKept
  <2> QED
    BY <1>0, <1>1, <1>2, <2>1, <2>3
<1>6. ASSUME NEW r \in Requests, Store(r) \/ StreamStore(r) PROVE OwnedInv'
  <2>1. AppendTurn(r) /\ pc'[r] \in {"stored", "done"} /\ UNCHANGED <<disk, snap>>
    BY <1>6 DEF Store, StreamStore, TypeOK
  <2> QED
    BY <1>0, <1>2, <1>3, <1>4, <2>1
<1>7. ASSUME Cleanup PROVE OwnedInv'
  <2>1. UNCHANGED <<disk, snap>>
    BY <1>7 DEF Cleanup
  <2>2. \A s \in DOMAIN sessions' : s \in DOMAIN sessions /\ sessions'[s] = sessions[s]
    BY <1>7 DEF Cleanup, Without
  <2>3. ASSUME NEW s \in DOMAIN sessions PROVE Owned(sessions[s], s, pc', sid')
    BY <1>0, OwnedKept DEF TypeOK, Histories
  <2>4. InSessions'
    BY <2>2, <2>3 DEF Owned
  <2> QED
    BY <1>0, <1>2, <1>3, <2>1, <2>4
<1>8. ASSUME SaveEnd PROVE OwnedInv'
  <2>1. UNCHANGED <<sessions, snap>> /\ (disk' = sessions \/ disk' = disk)
    BY <1>8 DEF SaveEnd
  <2>2. InSessions'
    BY <1>1, <2>1
  <2>3. OnFile'
    <3>1. CASE disk' = sessions
      BY <2>1, <2>2, <3>1 DEF Owned
    <3> QED
      BY <1>2, <2>1, <3>1
  <2> QED
    BY <1>0, <1>3, <2>1, <2>2, <2>3
<1>9. ASSUME Restart PROVE OwnedInv'
  <2>1. UNCHANGED <<disk, snap>> /\ (sessions' = disk \/ sessions' = Nothing)
    BY <1>9 DEF Restart
  <2>2. OnFile'
    BY <1>2, <2>1
  <2>3. InSessions'
    BY <2>1, <2>2 DEF Owned, Nothing
  <2> QED
    BY <1>0, <1>3, <2>1, <2>2, <2>3
<1>10. ASSUME UNCHANGED <<sessions, disk, snap>> PROVE OwnedInv'
  BY <1>0, <1>1, <1>2, <1>3, <1>10
<1> QED
  BY <1>5, <1>6, <1>7, <1>8, <1>9, <1>10
     DEF Next, Handler, Fail, Reply, StreamReply, Tick, Signal, Exit, Kill, vars

-----------------------------------------------------------------------------
(* A history has finitely many turns, so they can be counted.               *)
LEMMA TurnsFinite ==
  ASSUME NEW h \in Seq(Msg)
  PROVE  IsFiniteSet(Turns(h)) /\ Cardinality(Turns(h)) \in Nat
<1> DEFINE f == [i \in 1..Len(h) |-> h[i].turn]
<1>1. Len(h) \in Nat /\ DOMAIN h = 1..Len(h)
  OBVIOUS
<1>2. f \in Surjection(1..Len(h), Turns(h))
  BY <1>1 DEF Surjection, Turns
<1>3. IsFiniteSet(1..Len(h))
  BY <1>1, FS_Interval
<1>4. IsFiniteSet(Turns(h))
  BY <1>2, <1>3, FS_Surjection
<1> QED
  BY <1>4, FS_CardinalityType

(* Append of a turn that is not there yet leaves a history whole, when the  *)
(* handler has a user message to store.                                     *)
LEMMA AppendWhole ==
  ASSUME NEW h \in Seq(Msg), NEW r \in Requests, Whole(h), r \notin Turns(h), UserMessagesOnly
  PROVE  Whole(h \o Turn(r))
<1> DEFINE g == h \o Turn(r)
           n == Len(h)
<1>1. /\ n \in Nat /\ DOMAIN h = 1..n /\ DOMAIN g = 1..(n + 2) /\ Len(g) = n + 2
      /\ \A i \in 1..n : g[i] = h[i]
      /\ g[n + 1] = Turn(r)[1] /\ g[n + 2] = Turn(r)[2]
      /\ g[n + 1].turn = r /\ g[n + 2].turn = r
      /\ Turns(g) = Turns(h) \cup {r}
  BY AppendFacts
<1>2. g[n + 1].role = "user" /\ g[n + 2].role = "assistant"
  <2>1. Turn(r)[1].role = "user" /\ Turn(r)[2].role = "assistant"
    BY DEF Turn, UserMessagesOnly
  <2> HIDE DEF g, n
  <2> QED
    BY <1>1, <2>1
<1>3. /\ n % 2 = 0 /\ Cardinality(Turns(h)) * 2 = n
      /\ \A i \in 1..n : i % 2 = 1 =>
            h[i].role = "user" /\ h[i + 1].role = "assistant" /\ h[i].turn = h[i + 1].turn
  BY <1>1 DEF Whole
<1> HIDE DEF g, n
<1>4. (n + 2) % 2 = 0
  BY <1>1, <1>3
<1>5. Cardinality(Turns(g)) * 2 = n + 2
  <2>1. IsFiniteSet(Turns(h)) /\ Cardinality(Turns(h)) \in Nat
    BY TurnsFinite
  <2>2. Cardinality(Turns(h) \cup {r}) = Cardinality(Turns(h)) + 1
    BY <2>1, FS_AddElement
  <2> QED
    BY <1>1, <1>3, <2>1, <2>2
<1>6. ASSUME NEW i \in 1..(n + 2), i % 2 = 1
      PROVE  g[i].role = "user" /\ g[i + 1].role = "assistant" /\ g[i].turn = g[i + 1].turn
  <2>1. (i \in 1..n /\ i + 1 \in 1..n) \/ i = n + 1
    BY <1>1, <1>3, <1>6
  <2>2. CASE i \in 1..n /\ i + 1 \in 1..n
    BY <1>1, <1>3, <1>6, <2>2
  <2>3. CASE i = n + 1
    <3>1. i + 1 = n + 2
      BY <1>1, <2>3
    <3> QED
      BY <1>1, <1>2, <2>3, <3>1
  <2> QED
    BY <2>1, <2>2, <2>3
<1>7. Whole(g)
  BY <1>1, <1>4, <1>5, <1>6 DEF Whole
<1> QED
  BY <1>7 DEF g

(* Every step leaves every history made of whole turns.                     *)
LEMMA WholeStep == TypeOK /\ OwnedInv /\ WholeInv /\ [Next]_vars => WholeInv'
<1> SUFFICES ASSUME TypeOK, OwnedInv, WholeInv, [Next]_vars PROVE WholeInv'
  OBVIOUS
<1> SUFFICES ASSUME UserMessagesOnly PROVE WholeInv'
  BY Forward DEF WholeInv, UserMessagesOnly
<1> DEFINE InSessions == \A s \in DOMAIN sessions : Whole(sessions[s])
           OnFile == \A s \in DOMAIN disk : Whole(disk[s])
           Given == \A r \in Requests : Whole(snap[r])
<1>0. InSessions /\ OnFile /\ Given /\ (InSessions' /\ OnFile' /\ Given' => WholeInv')
  BY DEF WholeInv
<1>1. ASSUME NEW r \in Requests, Accept(r) PROVE WholeInv'
  <2>1. Whole(History(sid[r]))
    BY HistoryFacts
  <2>2. UNCHANGED <<sessions, disk>> /\ snap' = [snap EXCEPT ![r] = History(sid[r])]
    BY <1>1 DEF Accept
  <2>3. \A x \in Requests : snap'[x] = snap[x] \/ snap'[x] = History(sid[r])
    BY <2>2 DEF TypeOK
  <2> QED
    BY <1>0, <2>1, <2>2, <2>3
<1>2. ASSUME NEW r \in Requests, Store(r) \/ StreamStore(r) PROVE WholeInv'
  <2> DEFINE h == History(sid[r])
  <2>1. /\ h \in Seq(Msg) /\ Whole(h) /\ Owned(h, sid[r], pc, sid)
    BY HistoryFacts
  <2>2. /\ sessions' = With(sessions, sid[r], h \o Turn(r))
        /\ pc[r] \in {"running", "replied"} /\ UNCHANGED <<disk, snap>>
    BY <1>2 DEF Store, StreamStore, AppendTurn
  <2> HIDE DEF h
  <2>3. r \notin Turns(h)
    BY <2>1, <2>2 DEF Owned, Turns
  <2>4. Whole(h \o Turn(r))
    BY <2>1, <2>3, AppendWhole
  <2>5. InSessions'
    BY <1>0, <2>2, <2>4 DEF With
  <2> QED
    BY <1>0, <2>2, <2>5
<1>3. ASSUME Cleanup PROVE WholeInv'
  <2>1. UNCHANGED <<disk, snap>>
    BY <1>3 DEF Cleanup
  <2>2. \A s \in DOMAIN sessions' : s \in DOMAIN sessions /\ sessions'[s] = sessions[s]
    BY <1>3 DEF Cleanup, Without
  <2> QED
    BY <1>0, <2>1, <2>2
<1>4. ASSUME SaveEnd PROVE WholeInv'
  BY <1>0, <1>4 DEF SaveEnd
<1>5. ASSUME Restart PROVE WholeInv'
  <2>1. UNCHANGED <<disk, snap>> /\ (sessions' = disk \/ sessions' = Nothing)
    BY <1>5 DEF Restart
  <2> QED
    BY <1>0, <2>1 DEF Nothing
<1>6. ASSUME UNCHANGED <<sessions, disk, snap>> PROVE WholeInv'
  BY <1>0, <1>6
<1> QED
  BY <1>1, <1>2, <1>3, <1>4, <1>5, <1>6
     DEF Next, Handler, Fail, Reply, StreamReply, Tick, Signal, Exit, Kill, vars

-----------------------------------------------------------------------------
(* A turn in some history of the file is in its own session's.              *)
LEMMA FiledTurn ==
  ASSUME OwnedInv, NEW r \in AllTurns(disk)
  PROVE  sid[r] \in DOMAIN disk /\ r \in Turns(disk[sid[r]])
BY DEF OwnedInv, Owned, AllTurns, Turns

(* Append takes nothing out of any history, and its own turn is in.         *)
LEMMA AppendTurnFacts ==
  ASSUME TypeOK, NEW r \in Requests, AppendTurn(r), sid' = sid
  PROVE  /\ r \in Turns(History(sid[r])')
         /\ \A x \in Requests : x \in Turns(History(sid[x])) => x \in Turns(History(sid[x])')
<1> DEFINE h == History(sid[r])
           g == h \o Turn(r)
<1>1. Turns(g) = Turns(h) \cup {r}
  BY HistoryFacts, AppendFacts
<1>2. sessions' = With(sessions, sid[r], g)
  BY DEF AppendTurn
<1> HIDE DEF g
<1>3. \A x \in Requests :
        History(sid[x])' = IF sid[x] = sid[r] THEN g ELSE History(sid[x])
  BY <1>2 DEF History, With
<1> QED
  BY <1>1, <1>3

(* A history of whole turns holds no nil message for Save to panic on.      *)
LEMMA WholeSavable ==
  ASSUME NEW h \in Seq(Msg), Whole(h)
  PROVE  ~HasNil(h)
<1> SUFFICES ASSUME NEW i \in 1..Len(h) PROVE h[i].role # "nil"
  BY DEF HasNil
<1>1. Len(h) \in Nat /\ DOMAIN h = 1..Len(h)
  OBVIOUS
<1>2. CASE i % 2 = 1
  BY <1>1, <1>2 DEF Whole
<1>3. CASE i % 2 = 0
  <2>1. i - 1 \in 1..Len(h) /\ (i - 1) % 2 = 1 /\ (i - 1) + 1 = i
    BY <1>1, <1>3
  <2> QED
    BY <1>1, <2>1 DEF Whole
<1> QED
  BY <1>1, <1>2, <1>3

(* The process ends: what is not lost is on disk.                           *)
LEMMA DieStep ==
  ASSUME TypeOK, Kept, NEW S, S \subseteq OnDisk, Die(S),
         UNCHANGED <<disk, intact, answered>>
  PROVE  Kept'
<1>1. OnDisk' = OnDisk
  BY DEF OnDisk
<1>2. /\ proc' = "down"
      /\ \A r \in Requests : pc'[r] = IF pc[r] = "new" THEN "new" ELSE "done"
      /\ lost' = (lost \cup {r \in Requests : pc[r] # "new"}) \ (OnDisk \cup S)
  BY DEF Die
<1>3. \A r \in answered' : pc'[r] \in {"replied", "done"}
  BY <1>2 DEF Kept, TypeOK
<1>4. \A r \in Requests : /\ pc'[r] \in {"new", "done"}
                          /\ pc'[r] = "done" /\ r \notin lost' => r \in OnDisk'
  BY <1>1, <1>2
<1> QED
  BY <1>2, <1>3, <1>4 DEF Kept

(* Every step keeps the answered turns where KeptInv says they are.         *)
LEMMA KeptStep == TypeOK /\ OwnedInv /\ WholeInv /\ KeptInv /\ [Next]_vars => KeptInv'
<1> SUFFICES ASSUME TypeOK, OwnedInv, WholeInv, Kept, UserMessagesOnly, [Next]_vars
             PROVE  Kept'
  BY Forward DEF KeptInv, UserMessagesOnly
<1> USE DEF config, access, hist
<1>0. sid' = sid
  BY Forward
<1>a. ASSUME UNCHANGED sessions
      PROVE  /\ \A r \in Requests : Turns(History(sid[r])') = Turns(History(sid[r]))
             /\ AllTurns(sessions') = AllTurns(sessions)
  BY <1>0, <1>a DEF History
<1>b. ASSUME UNCHANGED <<disk, intact>> PROVE OnDisk' = OnDisk
  BY <1>b DEF OnDisk
<1>1. ASSUME NEW r \in Requests, Accept(r) \/ Fail(r) PROVE Kept'
  <2>1. /\ proc \in {"up", "saved"} /\ pc[r] \in {"new", "running"}
        /\ UNCHANGED <<proc, sessions, disk, intact, answered, lost, due>>
        /\ \A x \in Requests : x # r => pc'[x] = pc[x]
        /\ pc'[r] \in {"running", "done"}
    BY <1>1 DEF Accept, Fail, Serving, TypeOK
  <2>2. r \notin answered
    BY <2>1 DEF Kept
  <2>3. \A x \in answered : pc'[x] \in {"replied", "done"}
    BY <2>1, <2>2 DEF Kept, TypeOK
  <2>4. \A x \in Requests : Appended(x)' => Appended(x)
    BY <2>1, <2>2 DEF Appended
  <2> QED
    BY <1>0, <1>a, <1>b, <2>1, <2>3, <2>4 DEF Kept
<1>2. ASSUME NEW r \in Requests, Store(r) \/ StreamStore(r) PROVE Kept'
  <2>1. /\ proc \in {"up", "saved"} /\ AppendTurn(r)
        /\ UNCHANGED <<proc, disk, intact, answered, lost, due>>
        /\ \A x \in Requests : x # r => pc'[x] = pc[x]
        /\ \/ pc[r] = "running" /\ pc'[r] = "stored"
           \/ pc[r] = "replied" /\ pc'[r] = "done"
    <3>1. CASE Store(r)
      BY <3>1 DEF Store, Serving, TypeOK
    <3>2. CASE StreamStore(r)
      BY <3>2 DEF StreamStore, Serving, TypeOK
    <3> QED
      BY <1>2, <3>1, <3>2
  <2>2. \A x \in answered : pc'[x] \in {"replied", "done"}
    BY <2>1 DEF Kept, TypeOK
  <2>3. \A x \in Requests : Appended(x)' => x = r \/ Appended(x)
    BY <2>1 DEF Appended
  <2>4. ASSUME NEW x \in Requests \ lost, Appended(x)' PROVE x \in Turns(History(sid[x])')
    BY <1>0, <2>1, <2>3, <2>4, AppendTurnFacts DEF Kept
  <2> QED
    BY <1>0, <1>b, <2>1, <2>2, <2>4 DEF Kept
<1>3. ASSUME NEW r \in Requests, Reply(r) \/ StreamReply(r) PROVE Kept'
  <2>1. /\ proc # "down" /\ answered' = answered \cup {r}
        /\ UNCHANGED <<proc, sessions, disk, intact, lost, due>>
        /\ \A x \in Requests : x # r => pc'[x] = pc[x]
        /\ (pc[r] = "stored" /\ pc'[r] = "done") \/ pc'[r] = "replied"
    BY <1>3 DEF Reply, StreamReply, TypeOK
  <2>2. \A x \in answered' : pc'[x] \in {"replied", "done"}
    BY <2>1 DEF Kept, TypeOK
  <2>3. \A x \in Requests : Appended(x)' => Appended(x)
    BY <2>1 DEF Appended
  <2> QED
    BY <1>0, <1>a, <1>b, <2>1, <2>2, <2>3 DEF Kept
<1>4. ASSUME Cleanup PROVE Kept'
  <2>1. /\ proc \in {"up", "saved"} /\ UNCHANGED <<proc, pc, disk, intact, answered, due>>
        /\ lost' = lost \cup UNION {Turns(History(s)) : s \in Expired}
        /\ sessions' = Without(sessions, Expired)
    BY <1>4 DEF Cleanup, Serving
  <2>2. \A s : s \notin Expired => History(s)' = History(s)
    BY <2>1 DEF History, Without
  <2>3. ASSUME NEW x \in Requests \ lost', Appended(x)' PROVE x \in Turns(History(sid[x])')
    <3>1. x \in Requests \ lost /\ Appended(x)
      BY <2>1, <2>3 DEF Appended
    <3>2. x \in Turns(History(sid[x]))
      BY <2>1, <3>1 DEF Kept
    <3> QED
      BY <1>0, <2>1, <2>2, <2>3, <3>2
  <2> QED
    BY <1>0, <1>b, <2>1, <2>3 DEF Kept
<1>5. ASSUME Signal PROVE Kept'
  <2>1. UNCHANGED <<sessions, disk, answered>> /\ proc = "up"
    BY <1>5 DEF Signal
  <2>2. ASSUME UNCHANGED <<pc, lost>>
        PROVE  \A x \in Requests \ lost' : Appended(x)' => x \in Turns(History(sid[x])')
    BY <1>a, <2>1, <2>2 DEF Appended, Kept
  <2>3. ~Unsavable
    BY WholeSavable DEF Unsavable, WholeInv, TypeOK, Histories
  <2>4. CASE proc' = "saved" /\ due' = {} /\ UNCHANGED <<pc, intact, lost>>
    BY <1>0, <2>1, <2>2, <2>4 DEF Kept
  <2>5. CASE proc' = "saving" /\ due' = AllTurns(sessions) /\ UNCHANGED <<pc, lost>>
    BY <1>0, <1>a, <2>1, <2>2, <2>5 DEF Kept
  <2> QED
    BY <1>5, <2>3, <2>4, <2>5 DEF Signal
<1>6. ASSUME SaveEnd PROVE Kept'
  <2>1. /\ proc = "saving" /\ proc' = "saved"
        /\ UNCHANGED <<sessions, pc, answered, lost>>
        /\ (disk' = sessions /\ intact' = TRUE /\ due' = due) \/ due' = {}
    BY <1>6 DEF SaveEnd
  <2>2. due' \subseteq OnDisk'
    BY <2>1 DEF Kept, OnDisk
  <2>3. \A x \in Requests : Appended(x)' => Appended(x)
    BY <2>1 DEF Appended
  <2> QED
    BY <1>0, <1>a, <2>1, <2>2, <2>3 DEF Kept
<1>7. ASSUME Exit \/ Kill PROVE Kept'
  <2>1. UNCHANGED <<disk, intact, answered>>
    BY <1>7 DEF Exit, Kill
  <2>2. CASE Exit
    BY <2>1, <2>2, DieStep DEF Exit, Kept
  <2>3. CASE Kill
    BY <2>1, <2>3, DieStep DEF Kill
  <2> QED
    BY <1>7, <2>2, <2>3
<1>8. ASSUME Restart PROVE Kept'
  <2>1. /\ proc = "down" /\ proc' = "up" /\ sessions' = IF intact THEN disk ELSE Nothing
        /\ UNCHANGED <<pc, answered, lost>>
    BY <1>8 DEF Restart
  <2>2. ASSUME NEW x \in Requests \ lost, Appended(x)' PROVE x \in Turns(History(sid[x])')
    <3>1. x \in OnDisk
      BY <2>1, <2>2 DEF Appended, Kept
    <3>2. sessions' = disk /\ x \in AllTurns(disk)
      BY <2>1, <3>1 DEF OnDisk
    <3> QED
      BY <1>0, <3>2, FiledTurn DEF History
  <2> QED
    BY <1>0, <2>1, <2>2 DEF Kept
<1>9. ASSUME UNCHANGED <<proc, sessions, pc, disk, intact, answered, hist>> PROVE Kept'
  <2>1. \A x \in Requests : Appended(x)' <=> Appended(x)
    BY <1>9 DEF Appended
  <2> QED
    BY <1>0, <1>9, <1>a, <1>b, <2>1 DEF Kept
<1> QED
  BY <1>1, <1>2, <1>3, <1>4, <1>5, <1>6, <1>7, <1>8, <1>9 DEF Next, Handler, Tick, vars

-----------------------------------------------------------------------------
(* The inductive invariant: WholeInv needs OwnedInv, since a turn appended  *)
(* to a history must not be in it already; KeptInv needs OwnedInv, to find  *)
(* a restored turn in its session, and WholeInv, so that Save can end.      *)
SessionInv == TypeOK /\ OwnedInv /\ WholeInv /\ KeptInv

(* A server that starts with no history has nothing to keep.                *)
LEMMA SessionStart == Init => SessionInv
<1> SUFFICES ASSUME Init PROVE SessionInv
  OBVIOUS
<1>0. <<>> \in Seq(Msg) /\ DOMAIN Nothing = {}
  BY DEF Nothing
<1>1. TypeOK
  BY <1>0, SessionAssumption DEF Init, TypeOK, Histories
<1>2. OwnedInv
  BY <1>0 DEF Init, OwnedInv, Owned
<1>3. WholeInv
  BY <1>0, EmptyWhole DEF Init, WholeInv
<1>4. KeptInv
  BY DEF Init, KeptInv, Kept, Appended
<1> QED
  BY <1>1, <1>2, <1>3, <1>4 DEF SessionInv

(* The four together are inductive.                                         *)
LEMMA SessionAlways == Spec => []SessionInv
<1>1. SessionInv /\ [Next]_vars => SessionInv'
  BY TypeStep, OwnedStep, WholeStep, KeptStep DEF SessionInv
<1> QED
  BY <1>1, SessionStart, PTL DEF Spec

(* Handlers, cleanup, saves and restarts keep the types, whatever session   *)
(* ids and however many requests there are.                                 *)
THEOREM SessionTypeOK == Spec => []TypeOK
<1>1. SessionInv => TypeOK
  BY DEF SessionInv
<1> QED
  BY <1>1, SessionAlways, PTL

(* Manager.Append of concurrent handlers, Cleanup, Save and Load leave      *)
(* every history made of whole turns of its own session, as long as every   *)
(* turn has a user message.                                                 *)
THEOREM SessionTurnsWhole == Spec => []TurnsWhole
<1>1. ASSUME NEW h, NEW s, Owned(h, s, pc, sid), Whole(h) PROVE WellFormed(h, s)
  BY <1>1 DEF Owned, Whole, WellFormed
<1>2. SessionInv => TurnsWhole
  BY <1>1 DEF SessionInv, OwnedInv, WholeInv, TurnsWhole
<1> QED
  BY <1>2, SessionAlways, PTL

(* An answered turn is in its session until that is evicted, concurrent     *)
(* turns, a save on Ctrl+C and any number of restarts notwithstanding, as   *)
(* long as every turn has a user message.                                   *)
THEOREM SessionAnsweredTurnsKept == Spec => []AnsweredTurnsKept
<1>1. SessionInv => AnsweredTurnsKept
  BY DEF SessionInv, TypeOK, KeptInv, Kept, Appended, AnsweredTurnsKept, HistoryPersistence
<1> QED
  BY <1>1, SessionAlways, PTL
==============================================================================
