--------------------------- MODULE EventBusProofs ---------------------------
(***************************************************************************)
(* For any number of publishers, subscribers and callers of Stop, and any  *)
(* capacity of the channels: the bus keeps its types, closes each channel  *)
(* at most once, never sends on a closed one, and when a Stop returns has  *)
(* handed every chunk it accepted to every subscriber, in order and once.  *)
(***************************************************************************)
EXTENDS EventBus, TLAPS

BusInv == TypeOK /\ LockInv

(* Every step of a publisher, of run, of a dispatcher, of Subscribe and of  *)
(* Stop keeps the types and the locking invariant.                          *)
LEMMA BusStep == BusInv /\ [Next]_vars => BusInv'
<1> SUFFICES ASSUME TypeOK, LockInv, [Next]_vars PROVE TypeOK' /\ LockInv'
  BY DEF BusInv
<1> USE BusAssumption
<1>1. ASSUME NEW p \in Publishers, PubBegin(p) PROVE TypeOK' /\ LockInv'
  <2>1. TypeOK'
    BY <1>1 DEF PubBegin, busVars, runVars, subVars, CanRead, TypeOK, Chunks, LockInv
  <2>2. LockInv'
    BY <1>1 DEF PubBegin, busVars, runVars, subVars, CanRead, TypeOK, LockInv
  <2> QED
    BY <2>1, <2>2
<1>2. ASSUME NEW p \in Publishers, PubSend(p) PROVE TypeOK' /\ LockInv'
  <2>1. TypeOK'
    BY <1>2 DEF PubSend, busVars, runVars, subVars, TypeOK, Chunks, LockInv
  <2>2. LockInv'
    BY <1>2 DEF PubSend, busVars, runVars, subVars, TypeOK, LockInv
  <2> QED
    BY <2>1, <2>2
<1>3. ASSUME NEW p \in Publishers, PubDrop(p) PROVE TypeOK' /\ LockInv'
  <2>1. TypeOK'
    BY <1>3 DEF PubDrop, busVars, runVars, subVars, TypeOK, Chunks, LockInv
  <2>2. LockInv'
    BY <1>3 DEF PubDrop, busVars, runVars, subVars, TypeOK, LockInv
  <2> QED
    BY <2>1, <2>2
<1>4. CASE RunRecv
  <2>1. TypeOK'
    BY <1>4 DEF RunRecv, busVars, runVars, subVars, TypeOK, Chunks, LockInv
  <2>2. LockInv'
    <3>1. cur' \in 1..MaxChunks
      BY <1>4 DEF RunRecv, TypeOK, Chunks
    <3> QED
      BY <1>4, <3>1 DEF RunRecv, busVars, runVars, subVars, TypeOK, LockInv
  <2> QED
    BY <2>1, <2>2
<1>5. CASE RunLock
  <2>1. TypeOK'
    BY <1>5 DEF RunLock, busVars, runVars, subVars, CanRead, TypeOK, Chunks, LockInv
  <2>2. LockInv'
    BY <1>5 DEF RunLock, busVars, runVars, subVars, CanRead, TypeOK, LockInv
  <2> QED
    BY <2>1, <2>2
<1>6. ASSUME NEW n \in Names, RunOffer(n) PROVE TypeOK' /\ LockInv'
  <2>1. TypeOK'
    <3>1. cur \in Chunks
      BY <1>6 DEF RunOffer, TypeOK, Chunks, LockInv
    <3> DEFINE full == Append(chans[n], cur)
               Kept == /\ chans' \in [Names -> Seq(Chunks)]
                       /\ \A m \in Names : Len(chans'[m]) <= SubCap
                       /\ dropped' \in [Names -> SUBSET Chunks]
    <3>2. ASSUME Len(chans[n]) < SubCap, chans' = [chans EXCEPT ![n] = full], dropped' = dropped
          PROVE  Kept
      <4>1. chans[n] \in Seq(Chunks) /\ Len(chans[n]) \in Nat
        BY DEF TypeOK
      <4>2. full \in Seq(Chunks) /\ Len(full) = Len(chans[n]) + 1
        BY <3>1, <4>1
      <4>3. Len(full) <= SubCap
        BY <3>2, <4>1, <4>2
      <4> HIDE DEF full
      <4> QED
        BY <3>2, <4>2, <4>3 DEF TypeOK
    <3>3. ASSUME chans' = chans, dropped' = [dropped EXCEPT ![n] = @ \cup {cur}]
          PROVE  Kept
      BY <3>1, <3>3 DEF TypeOK
    <3>4. Kept
      BY <1>6, <3>2, <3>3 DEF RunOffer
    <3>5. left' \subseteq Names
      BY <1>6 DEF RunOffer, TypeOK
    <3>6. UNCHANGED <<pub, publisher, stopped, accepted, run, cur, subs, closes,
                     disp, processed, joined, stop>>
      BY <1>6 DEF RunOffer, busVars
    <3> QED
      BY <3>4, <3>5, <3>6 DEF TypeOK, Chunks
  <2>2. LockInv'
    BY <1>6 DEF RunOffer, busVars, runVars, subVars, TypeOK, LockInv
  <2> QED
    BY <2>1, <2>2
<1>7. CASE RunUnlock
  <2>1. TypeOK'
    BY <1>7 DEF RunUnlock, busVars, runVars, subVars, TypeOK, Chunks, LockInv
  <2>2. LockInv'
    BY <1>7 DEF RunUnlock, busVars, runVars, subVars, TypeOK, LockInv
  <2> QED
    BY <2>1, <2>2
<1>8. CASE RunEnd
  <2>1. TypeOK'
    BY <1>8 DEF RunEnd, busVars, runVars, subVars, TypeOK, Chunks, LockInv
  <2>2. LockInv'
    BY <1>8 DEF RunEnd, busVars, runVars, subVars, TypeOK, LockInv
  <2> QED
    BY <2>1, <2>2
<1>9. ASSUME NEW n \in Names, Subscribe(n) PROVE TypeOK' /\ LockInv'
  <2>1. TypeOK'
    BY <1>9 DEF Subscribe, busVars, runVars, subVars, Unlocked, Fanned, TypeOK, Chunks,
       LockInv
  <2>2. LockInv'
    BY <1>9 DEF Subscribe, busVars, runVars, subVars, Unlocked, Fanned, TypeOK, LockInv
  <2> QED
    BY <2>1, <2>2
<1>10. ASSUME NEW n \in Names, DispatchTake(n) PROVE TypeOK' /\ LockInv'
  <2>1. TypeOK'
    BY <1>10 DEF DispatchTake, busVars, runVars, subVars, TypeOK, Chunks, LockInv
  <2>2. LockInv'
    BY <1>10 DEF DispatchTake, busVars, runVars, subVars, TypeOK, LockInv
  <2> QED
    BY <2>1, <2>2
<1>11. ASSUME NEW n \in Names, DispatchDone(n) PROVE TypeOK' /\ LockInv'
  <2>1. TypeOK'
    BY <1>11 DEF DispatchDone, busVars, runVars, subVars, TypeOK, Chunks, LockInv
  <2>2. LockInv'
    BY <1>11 DEF DispatchDone, busVars, runVars, subVars, TypeOK, LockInv
  <2> QED
    BY <2>1, <2>2
<1>12. ASSUME NEW n \in Names, DispatchEnd(n) PROVE TypeOK' /\ LockInv'
  <2>1. TypeOK'
    BY <1>12 DEF DispatchEnd, busVars, runVars, subVars, TypeOK, Chunks, LockInv
  <2>2. LockInv'
    BY <1>12 DEF DispatchEnd, busVars, runVars, subVars, TypeOK, LockInv
  <2> QED
    BY <2>1, <2>2
<1>13. ASSUME NEW s \in Stoppers, StopCall(s) PROVE TypeOK' /\ LockInv'
  <2>1. TypeOK'
    BY <1>13 DEF StopCall, busVars, runVars, subVars, TypeOK, Chunks, LockInv
  <2>2. LockInv'
    BY <1>13 DEF StopCall, busVars, runVars, subVars, TypeOK, LockInv
  <2> QED
    BY <2>1, <2>2
<1>14. ASSUME NEW s \in Stoppers, StopOnce(s) PROVE TypeOK' /\ LockInv'
  <2>1. TypeOK'
    BY <1>14 DEF StopOnce, busVars, runVars, subVars, Unlocked, TypeOK, Chunks, LockInv
  <2>2. LockInv'
    BY <1>14 DEF StopOnce, busVars, runVars, subVars, Unlocked, TypeOK, LockInv
  <2> QED
    BY <2>1, <2>2
<1>15. ASSUME NEW s \in Stoppers, StopDrain(s) PROVE TypeOK' /\ LockInv'
  <2>1. TypeOK'
    BY <1>15 DEF StopDrain, busVars, runVars, subVars, Unlocked, TypeOK, Chunks, LockInv
  <2>2. LockInv'
    BY <1>15 DEF StopDrain, busVars, runVars, subVars, Unlocked, TypeOK, LockInv
  <2> QED
    BY <2>1, <2>2
<1>16. ASSUME NEW s \in Stoppers, StopReturn(s) PROVE TypeOK' /\ LockInv'
  <2>1. TypeOK'
    BY <1>16 DEF StopReturn, busVars, runVars, subVars, TypeOK, Chunks, LockInv
  <2>2. LockInv'
    BY <1>16 DEF StopReturn, busVars, runVars, subVars, TypeOK, LockInv
  <2> QED
    BY <2>1, <2>2
<1>17. CASE UNCHANGED vars
  BY <1>17 DEF vars, busVars, runVars, subVars, TypeOK, Chunks, LockInv
<1> QED
  BY <1>1, <1>2, <1>3, <1>4, <1>5, <1>6, <1>7, <1>8, <1>9, <1>10, <1>11, <1>12, <1>13,
     <1>14, <1>15, <1>16, <1>17
     DEF Next, Publisher, Run, Dispatch, StopCaller

(* NewEventBus starts with open, empty channels and nobody holding mu.      *)
LEMMA BusStart == Init => BusInv
<1> SUFFICES ASSUME Init PROVE TypeOK /\ LockInv
  BY DEF BusInv
<1> USE BusAssumption DEF Init
<1>1. LockInv
  BY DEF LockInv
<1>2. publisher \in Seq(Chunks) /\ Len(publisher) <= BusCap
  OBVIOUS
<1>3. /\ chans \in [Names -> Seq(Chunks)] /\ processed \in [Names -> Seq(Chunks)]
      /\ \A n \in Names : Len(chans[n]) <= SubCap
  OBVIOUS
<1>4. /\ closes \in [Names -> 0..1] /\ joined \in [Names -> 0..MaxChunks]
      /\ dropped \in [Names -> SUBSET Chunks]
  OBVIOUS
<1>5. /\ pub \in [Publishers -> {"idle", "sending"}]
      /\ stopped \in BOOLEAN /\ run \in {"range", "got", "fan", "done"}
      /\ left \subseteq Names /\ subs \subseteq Names
  BY Zenon
<1>6. accepted \in 0..MaxChunks /\ cur \in 0..MaxChunks
  OBVIOUS
<1>7. /\ disp \in [Names -> {"none", "idle", "busy", "exited"}]
      /\ stop \in [Stoppers -> {"new", "once", "run", "wg", "returned"}]
  OBVIOUS
<1>8. TypeOK
  BY <1>2, <1>3, <1>4, <1>5, <1>6, <1>7, Zenon DEF TypeOK
<1> QED
  BY <1>1, <1>8

(* The bus stays well typed; in particular no channel is closed twice,      *)
(* which in Go would panic, however many goroutines call Stop.              *)
THEOREM BusTypeOK == Spec => []TypeOK
<1>1. BusInv => TypeOK
  BY DEF BusInv
<1> QED
  BY <1>1, BusStart, BusStep, PTL DEF Spec

(* No publisher and no fan-out ever sends on a channel Stop has closed.     *)
THEOREM BusNoSendOnClosed == Spec => []NoSendOnClosed
<1>1. BusInv => NoSendOnClosed
  BY DEF BusInv, TypeOK, LockInv, NoSendOnClosed
<1> QED
  BY <1>1, BusStart, BusStep, PTL DEF Spec
-----------------------------------------------------------------------------
\* The last chunk subscriber n has been offered.
Reached(n) == IF n \in left THEN cur - 1 ELSE Fanned

(* What StopDrains rests on, for one subscriber: each chunk it was offered  *)
(* since it subscribed is processed, waiting or dropped, those waiting come *)
(* after those processed, and it is forgotten only when run() is over.      *)
SubscriberInv(n) ==
    /\ disp[n] = "none" => chans[n] = <<>> /\ processed[n] = <<>> /\ dropped[n] = {}
    /\ disp[n] # "none" /\ n \notin subs => run = "done"
    /\ disp[n] = "exited" => chans[n] = <<>> /\ closes[n] > 0
    /\ Increasing(processed[n]) /\ Increasing(chans[n])
    /\ \A c \in Range(processed[n]), d \in Range(chans[n]) : c < d
    /\ (Range(processed[n]) \cup Range(chans[n])) \cap dropped[n] = {}
    /\ disp[n] # "none" =>
        /\ joined[n] <= Reached(n)
        /\ Range(processed[n]) \cup Range(chans[n]) \cup dropped[n]
              = (joined[n] + 1)..Reached(n)

(* And for the bus: publisher holds the accepted chunks that run() has not  *)
(* taken, in order; run() ends with it empty, and no Stop goes on before.   *)
DrainInv ==
    /\ cur + Len(publisher) = accepted
    /\ \A i \in 1..Len(publisher) : publisher[i] = cur + i
    /\ run = "done" => stopped /\ publisher = <<>>
    /\ \A s \in Stoppers : stop[s] \in {"wg", "returned"} => run = "done"
    /\ \A s \in Stoppers : stop[s] = "returned" =>
          \A n \in Names : chans[n] = <<>> /\ disp[n] # "busy"
    /\ \A n \in Names : SubscriberInv(n)

(* A channel or a log of chunks is a sequence of numbers.                   *)
LEMMA ChunkSeq == ASSUME NEW s \in Seq(Chunks) PROVE s \in Seq(Nat) /\ Range(s) \subseteq Nat
<1>1. Len(s) \in Nat /\ DOMAIN s = 1..Len(s) /\ \A i \in 1..Len(s) : s[i] \in Chunks
  OBVIOUS
<1>2. \A i \in 1..Len(s) : s[i] \in Nat
  BY <1>1, BusAssumption DEF Chunks
<1>3. s \in Seq(Nat)
  BY <1>1, <1>2
<1> QED
  BY <1>1, <1>2, <1>3 DEF Range

(* What appending to a channel, or to the log of a dispatcher, does to its  *)
(* elements and to their order.                                             *)
LEMMA AppendFacts ==
  ASSUME NEW s \in Seq(Nat), NEW e \in Nat
  PROVE  /\ Range(Append(s, e)) = Range(s) \cup {e}
         /\ Increasing(s) /\ (\A c \in Range(s) : c < e) => Increasing(Append(s, e))
<1> DEFINE t == Append(s, e)
<1>1. /\ Len(s) \in Nat /\ DOMAIN s = 1..Len(s)
      /\ DOMAIN t = 1..(Len(s) + 1)
      /\ \A i \in 1..Len(s) : t[i] = s[i]
      /\ t[Len(s) + 1] = e
      /\ \A i \in 1..Len(s) : s[i] \in Nat
  OBVIOUS
<1> HIDE DEF t
<1>2. Range(t) = Range(s) \cup {e}
  <2>1. \A i \in 1..(Len(s) + 1) : i \in 1..Len(s) \/ i = Len(s) + 1
    BY <1>1
  <2>2. \A i \in 1..Len(s) : i \in 1..(Len(s) + 1)
    BY <1>1
  <2>3. Len(s) + 1 \in 1..(Len(s) + 1)
    BY <1>1
  <2> QED
    BY <1>1, <2>1, <2>2, <2>3, Zenon DEF Range
<1>3. ASSUME Increasing(s), \A c \in Range(s) : c < e PROVE Increasing(t)
  <2>1. \A i \in 1..Len(s) : s[i] < e
    BY <1>1, <1>3 DEF Range
  <2> QED
    BY <1>1, <1>3, <2>1 DEF Increasing
<1> QED
  BY <1>2, <1>3 DEF t

(* What receiving from a channel leaves behind, and how the element         *)
(* received relates to the rest.                                            *)
LEMMA TailFacts ==
  ASSUME NEW s \in Seq(Nat), s # <<>>
  PROVE  /\ Head(s) \in Nat /\ Head(s) \in Range(s)
         /\ Tail(s) \in Seq(Nat)
         /\ Range(s) = Range(Tail(s)) \cup {Head(s)}
         /\ Increasing(s) => Increasing(Tail(s)) /\ \A d \in Range(Tail(s)) : Head(s) < d
<1> DEFINE t == Tail(s)
<1>1. /\ Len(s) \in Nat \ {0} /\ DOMAIN s = 1..Len(s)
      /\ t \in Seq(Nat)
      /\ DOMAIN t = 1..(Len(s) - 1)
      /\ \A i \in 1..(Len(s) - 1) : t[i] = s[i + 1]
      /\ Head(s) = s[1]
      /\ \A i \in 1..Len(s) : s[i] \in Nat
  OBVIOUS
<1> HIDE DEF t
<1>2. Head(s) \in Nat /\ Head(s) \in Range(s)
  BY <1>1 DEF Range
<1>3. Range(s) = Range(t) \cup {Head(s)}
  <2>1. ASSUME NEW c \in Range(s) PROVE c \in Range(t) \cup {Head(s)}
    <3>1. PICK i \in 1..Len(s) : c = s[i]
      BY <1>1, <2>1 DEF Range
    <3>2. CASE i = 1
      BY <1>1, <3>1, <3>2
    <3>3. CASE i # 1
      <4>1. i - 1 \in 1..(Len(s) - 1) /\ t[i - 1] = s[i]
        BY <1>1, <3>1, <3>3
      <4> QED
        BY <1>1, <3>1, <4>1 DEF Range
    <3> QED
      BY <3>2, <3>3
  <2>2. ASSUME NEW c \in Range(t) PROVE c \in Range(s)
    <3>1. PICK i \in 1..(Len(s) - 1) : c = t[i]
      BY <1>1, <2>2 DEF Range
    <3>2. i + 1 \in 1..Len(s) /\ c = s[i + 1]
      BY <1>1, <3>1
    <3> QED
      BY <1>1, <3>2 DEF Range
  <2> QED
    BY <2>1, <2>2, <1>2
<1>4. ASSUME Increasing(s) PROVE Increasing(t) /\ \A d \in Range(t) : Head(s) < d
  <2>0. \A i, j \in 1..Len(s) : i < j => s[i] < s[j]
    BY <1>1, <1>4 DEF Increasing
  <2>1. Increasing(t)
    <3>1. SUFFICES ASSUME NEW i \in 1..(Len(s) - 1), NEW j \in 1..(Len(s) - 1), i < j
                   PROVE  t[i] < t[j]
      BY <1>1 DEF Increasing
    <3>2. i + 1 \in 1..Len(s) /\ j + 1 \in 1..Len(s) /\ i + 1 < j + 1
      BY <1>1, <3>1
    <3> QED
      BY <1>1, <2>0, <3>2
  <2>2. \A i \in DOMAIN t : s[1] < t[i]
    <3>1. \A i \in 1..(Len(s) - 1) : 1 \in 1..Len(s) /\ i + 1 \in 1..Len(s) /\ 1 < i + 1
      BY <1>1
    <3> QED
      BY <1>1, <2>0, <3>1
  <2> QED
    BY <1>1, <2>1, <2>2 DEF Range
<1> QED
  BY <1>1, <1>2, <1>3, <1>4 DEF t

(* A step that leaves a subscriber and what it was offered alone keeps its  *)
(* invariant; it may forget the subscriber once run() is over.              *)
LEMMA SubscriberKept ==
  ASSUME NEW n \in Names, SubscriberInv(n),
         chans'[n] = chans[n], processed'[n] = processed[n], dropped'[n] = dropped[n],
         joined'[n] = joined[n], disp'[n] = disp[n] \/ (disp[n] = "busy" /\ disp'[n] = "idle"),
         closes[n] > 0 => closes'[n] > 0,
         n \in subs => n \in subs' \/ run' = "done",
         run = "done" => run' = "done",
         Reached(n)' = Reached(n)
  PROVE  SubscriberInv(n)'
BY DEF SubscriberInv

(* A chunk run() offers is either queued behind all the subscriber got      *)
(* before or dropped: the subscriber has then been offered one chunk more.  *)
LEMMA OfferStep ==
  ASSUME BusInv, DrainInv, NEW n \in Names, RunOffer(n)
  PROVE  SubscriberInv(n)'
<1>1. /\ n \in left /\ n \in subs /\ run = "fan" /\ cur \in Nat \ {0}
      /\ disp[n] # "none" /\ closes[n] = 0 /\ closes'[n] = 0
      /\ disp'[n] = disp[n] /\ disp[n] # "exited"
      /\ n \in subs' /\ run' = "fan" /\ cur' = cur /\ n \notin left'
      /\ processed'[n] = processed[n] /\ joined'[n] = joined[n] /\ joined[n] \in Nat
  BY DEF BusInv, TypeOK, LockInv, DrainInv, SubscriberInv, RunOffer
<1>2. Reached(n) = cur - 1 /\ Reached(n)' = cur
  BY <1>1 DEF Reached, Fanned
<1>3. /\ chans[n] \in Seq(Nat) /\ dropped[n] \in SUBSET Nat
      /\ Range(processed[n]) \in SUBSET Nat /\ Range(chans[n]) \in SUBSET Nat
  <2>1. /\ chans[n] \in Seq(Chunks) /\ processed[n] \in Seq(Chunks)
        /\ dropped[n] \in SUBSET (1..MaxChunks)
    BY DEF BusInv, TypeOK, Chunks
  <2>2. dropped[n] \in SUBSET Nat
    BY <2>1, BusAssumption
  <2> QED
    BY <2>1, <2>2, ChunkSeq
<1>4. /\ Increasing(processed[n]) /\ Increasing(chans[n])
      /\ \A c \in Range(processed[n]), d \in Range(chans[n]) : c < d
      /\ (Range(processed[n]) \cup Range(chans[n])) \cap dropped[n] = {}
      /\ joined[n] <= cur - 1
      /\ Range(processed[n]) \cup Range(chans[n]) \cup dropped[n] = (joined[n] + 1)..(cur - 1)
  BY <1>1, <1>2 DEF DrainInv, SubscriberInv
<1>5. /\ \A c \in Range(processed[n]) : c < cur
      /\ \A c \in Range(chans[n]) : c < cur
      /\ \A c \in dropped[n] : c < cur
  <2>1. \A c \in (joined[n] + 1)..(cur - 1) : c < cur
    BY <1>1
  <2> QED
    BY <1>4, <2>1
<1>6. (joined[n] + 1)..cur = ((joined[n] + 1)..(cur - 1)) \cup {cur}
  BY <1>1, <1>4
<1>7. ~(cur < cur)
  BY <1>1
<1>8. ASSUME chans' = [chans EXCEPT ![n] = Append(@, cur)], dropped' = dropped
      PROVE  SubscriberInv(n)'
  <2>1. chans'[n] = Append(chans[n], cur) /\ dropped'[n] = dropped[n]
    BY <1>8 DEF BusInv, TypeOK
  <2>2. /\ Range(chans'[n]) = Range(chans[n]) \cup {cur}
        /\ Increasing(chans'[n])
    BY <1>1, <1>3, <1>4, <1>5, <2>1, AppendFacts
  <2>3. /\ \A c \in Range(processed'[n]), d \in Range(chans'[n]) : c < d
        /\ (Range(processed'[n]) \cup Range(chans'[n])) \cap dropped'[n] = {}
    BY <1>1, <1>4, <1>5, <1>7, <2>1, <2>2
  <2>4. Range(processed'[n]) \cup Range(chans'[n]) \cup dropped'[n] = (joined'[n] + 1)..cur
    BY <1>1, <1>4, <1>6, <2>1, <2>2
  <2>5. joined'[n] <= cur
    BY <1>1, <1>4
  <2> QED
    BY <1>1, <1>2, <1>4, <2>2, <2>3, <2>4, <2>5 DEF SubscriberInv
<1>9. ASSUME chans' = chans, dropped' = [dropped EXCEPT ![n] = @ \cup {cur}]
      PROVE  SubscriberInv(n)'
  <2>1. chans'[n] = chans[n] /\ dropped'[n] = dropped[n] \cup {cur}
    BY <1>9 DEF BusInv, TypeOK
  <2>2. /\ \A c \in Range(processed'[n]), d \in Range(chans'[n]) : c < d
        /\ (Range(processed'[n]) \cup Range(chans'[n])) \cap dropped'[n] = {}
    BY <1>1, <1>4, <1>5, <1>7, <2>1
  <2>3. Range(processed'[n]) \cup Range(chans'[n]) \cup dropped'[n] = (joined'[n] + 1)..cur
    BY <1>1, <1>4, <1>6, <2>1
  <2>4. joined'[n] <= cur
    BY <1>1, <1>4
  <2> QED
    BY <1>1, <1>2, <1>4, <2>1, <2>2, <2>3, <2>4 DEF SubscriberInv
<1> QED
  BY <1>8, <1>9 DEF RunOffer

(* The chunk a dispatcher takes is processed after all it processed before  *)
(* and before all that still wait.                                          *)
LEMMA TakeStep ==
  ASSUME BusInv, DrainInv, NEW n \in Names, DispatchTake(n)
  PROVE  SubscriberInv(n)'
<1>1. /\ disp[n] = "idle" /\ chans[n] # <<>> /\ disp'[n] = "busy"
      /\ processed'[n] = Append(processed[n], Head(chans[n])) /\ chans'[n] = Tail(chans[n])
      /\ UNCHANGED <<subs, closes, dropped, joined, run, cur, left>>
  BY DEF DispatchTake, BusInv, TypeOK, runVars
<1>2. chans[n] \in Seq(Nat) /\ processed[n] \in Seq(Nat)
  BY ChunkSeq DEF BusInv, TypeOK
<1>3. /\ Increasing(processed[n]) /\ Increasing(chans[n])
      /\ \A c \in Range(processed[n]), d \in Range(chans[n]) : c < d
      /\ (Range(processed[n]) \cup Range(chans[n])) \cap dropped[n] = {}
      /\ n \notin subs => run = "done"
      /\ joined[n] <= Reached(n)
      /\ Range(processed[n]) \cup Range(chans[n]) \cup dropped[n] = (joined[n] + 1)..Reached(n)
  BY <1>1 DEF DrainInv, SubscriberInv
<1>4. /\ Head(chans[n]) \in Nat /\ Head(chans[n]) \in Range(chans[n])
      /\ Range(chans[n]) = Range(chans'[n]) \cup {Head(chans[n])}
      /\ Increasing(chans'[n]) /\ \A d \in Range(chans'[n]) : Head(chans[n]) < d
  BY <1>1, <1>2, <1>3, TailFacts
<1>5. /\ Range(processed'[n]) = Range(processed[n]) \cup {Head(chans[n])}
      /\ Increasing(processed'[n])
  BY <1>1, <1>2, <1>3, <1>4, AppendFacts
<1>6. Reached(n)' = Reached(n)
  BY <1>1 DEF Reached, Fanned
<1>7. /\ \A c \in Range(processed'[n]), d \in Range(chans'[n]) : c < d
      /\ Range(processed'[n]) \cup Range(chans'[n]) = Range(processed[n]) \cup Range(chans[n])
  BY <1>3, <1>4, <1>5
<1> QED
  BY <1>1, <1>3, <1>4, <1>5, <1>6, <1>7 DEF SubscriberInv

(* Every step keeps the drain invariant.                                    *)
LEMMA DrainStep == BusInv /\ DrainInv /\ [Next]_vars => DrainInv'
<1> SUFFICES ASSUME BusInv, DrainInv, [Next]_vars PROVE DrainInv'
  OBVIOUS
<1> DEFINE Queue == /\ cur + Len(publisher) = accepted
                    /\ \A i \in 1..Len(publisher) : publisher[i] = cur + i
           Order == /\ run = "done" => stopped /\ publisher = <<>>
                    /\ \A s \in Stoppers : stop[s] \in {"wg", "returned"} => run = "done"
           Quiet == \A s \in Stoppers : stop[s] = "returned" =>
                       \A n \in Names : chans[n] = <<>> /\ disp[n] # "busy"
           Each  == \A n \in Names : SubscriberInv(n)
<1>0. /\ Queue /\ Order /\ Quiet /\ Each
      /\ (Queue' /\ Order' /\ Quiet' /\ Each' => DrainInv')
  BY DEF DrainInv
<1>a. ASSUME UNCHANGED <<runVars, subVars>> PROVE Each'
  BY <1>0, <1>a, SubscriberKept DEF runVars, subVars, Reached, Fanned
<1>b. publisher \in Seq(Nat) /\ accepted \in Nat /\ cur \in Nat
  BY ChunkSeq, BusAssumption DEF BusInv, TypeOK
<1>c. Queue
  BY <1>0
<1>1. ASSUME NEW p \in Publishers, PubBegin(p) \/ PubDrop(p) PROVE DrainInv'
  <2>1. UNCHANGED <<publisher, stopped, accepted, runVars, subVars, stop>>
    BY <1>1 DEF PubBegin, PubDrop
  <2>2. Each'
    BY <1>a, <2>1
  <2> QED
    BY <1>0, <2>1, <2>2 DEF runVars, subVars
<1>2. ASSUME NEW p \in Publishers, PubSend(p) PROVE DrainInv'
  <2>1. Each'
    BY <1>a, <1>2 DEF PubSend
  <2>2. ~stopped
    BY <1>2 DEF PubSend, BusInv, LockInv
  <2>3. Queue'
    <3>1. /\ Len(publisher) \in Nat
          /\ Len(publisher') = Len(publisher) + 1
          /\ \A i \in 1..Len(publisher) : publisher'[i] = publisher[i]
          /\ publisher'[Len(publisher) + 1] = accepted + 1
      BY <1>b, <1>2 DEF PubSend
    <3>2. cur' = cur /\ accepted' = accepted + 1
      BY <1>2 DEF PubSend, runVars
    <3>3. cur' + Len(publisher') = accepted'
      BY <1>b, <1>c, <3>1, <3>2
    <3>4. ASSUME NEW i \in 1..Len(publisher') PROVE publisher'[i] = cur' + i
      <4>1. i \in 1..Len(publisher) \/ i = Len(publisher) + 1
        BY <3>1
      <4> QED
        BY <1>b, <1>c, <3>1, <3>2, <4>1
    <3> QED
      BY <3>3, <3>4
  <2>4. Order' /\ Quiet'
    BY <1>0, <1>2, <2>2 DEF PubSend, runVars, subVars
  <2> QED
    BY <1>0, <2>1, <2>3, <2>4
<1>4. ASSUME RunRecv PROVE DrainInv'
  <2>1. /\ publisher # <<>> /\ cur' = publisher[1] /\ Len(publisher') = Len(publisher) - 1
        /\ Len(publisher) \in Nat \ {0}
        /\ \A i \in 1..(Len(publisher) - 1) : publisher'[i] = publisher[i + 1]
    BY <1>b, <1>4 DEF RunRecv
  <2>2. cur' = cur + 1
    BY <1>c, <2>1
  <2>3. Queue'
    <3>1. accepted' = accepted
      BY <1>4 DEF RunRecv
    <3>2. cur' + Len(publisher') = accepted'
      <4>1. cur + Len(publisher) = accepted
        BY <1>c
      <4>2. Len(publisher') = Len(publisher) - 1 /\ Len(publisher) \in Nat /\ cur \in Nat
        BY <1>b, <2>1
      <4> QED
        BY <2>2, <3>1, <4>1, <4>2
    <3>3. ASSUME NEW i \in 1..Len(publisher') PROVE publisher'[i] = cur' + i
      <4>1. i \in 1..(Len(publisher) - 1) /\ i + 1 \in 1..Len(publisher)
        BY <2>1
      <4> QED
        BY <1>b, <1>c, <2>1, <2>2, <4>1
    <3> QED
      BY <3>2, <3>3
  <2>4. Order' /\ Quiet'
    BY <1>0, <1>4 DEF RunRecv, subVars
  <2>5. left = {}
    BY <1>4 DEF RunRecv, BusInv, LockInv
  <2>6. \A n \in Names : Reached(n)' = Reached(n)
    BY <1>b, <1>4, <2>2, <2>5 DEF RunRecv, Reached, Fanned
  <2>7. Each'
    BY <1>0, <1>4, <2>6, SubscriberKept DEF RunRecv, subVars
  <2> QED
    BY <1>0, <2>3, <2>4, <2>7
<1>5. ASSUME RunLock PROVE DrainInv'
  <2>1. left = {} /\ left' = subs /\ run = "got" /\ run' = "fan"
    BY <1>5 DEF RunLock, BusInv, LockInv
  <2>2. Queue' /\ Order' /\ Quiet'
    BY <1>0, <1>5 DEF RunLock, busVars, subVars
  <2>3. ASSUME NEW n \in Names, disp[n] # "none" PROVE Reached(n)' = Reached(n)
    <3>1. n \in subs
      BY <1>0, <2>1, <2>3 DEF SubscriberInv
    <3> QED
      BY <1>5, <2>1, <3>1 DEF RunLock, Reached, Fanned
  <2>4. ASSUME NEW n \in Names PROVE SubscriberInv(n)'
    <3>1. CASE disp[n] = "none"
      BY <1>0, <1>5, <3>1 DEF RunLock, subVars, SubscriberInv
    <3>2. CASE disp[n] # "none"
      BY <1>0, <1>5, <2>1, <2>3, <3>2, SubscriberKept DEF RunLock, subVars
    <3> QED
      BY <3>1, <3>2
  <2> QED
    BY <1>0, <2>2, <2>4
<1>6. ASSUME NEW n \in Names, RunOffer(n) PROVE DrainInv'
  <2>1. /\ UNCHANGED <<run, cur, publisher, stopped, accepted, subs, closes, disp,
                       processed, joined, stop>>
        /\ run = "fan" /\ left' = left \ {n}
    BY <1>6 DEF RunOffer, busVars
  <2>2. Queue' /\ Order'
    BY <1>0, <2>1
  <2>3. Quiet'
    BY <1>0, <2>1
  <2>4. ASSUME NEW m \in Names, m # n PROVE SubscriberInv(m)'
    <3>1. chans'[m] = chans[m] /\ dropped'[m] = dropped[m]
      BY <1>6, <2>4 DEF RunOffer, BusInv, TypeOK
    <3>2. Reached(m)' = Reached(m)
      BY <2>1, <2>4 DEF Reached, Fanned
    <3> QED
      BY <1>0, <2>1, <3>1, <3>2, SubscriberKept
  <2> QED
    BY <1>0, <1>6, <2>2, <2>3, <2>4, OfferStep
<1>7. ASSUME RunUnlock PROVE DrainInv'
  <2>1. \A n \in Names : Reached(n)' = Reached(n)
    BY <1>7 DEF RunUnlock, Reached, Fanned
  <2>2. Each'
    BY <1>0, <1>7, <2>1, SubscriberKept DEF RunUnlock, subVars
  <2>3. Queue' /\ Order' /\ Quiet'
    BY <1>0, <1>7 DEF RunUnlock, busVars, subVars
  <2> QED
    BY <1>0, <2>2, <2>3
<1>8. ASSUME RunEnd PROVE DrainInv'
  <2>1. \A n \in Names : Reached(n)' = Reached(n)
    BY <1>8 DEF RunEnd, Reached, Fanned
  <2>2. Each'
    BY <1>0, <1>8, <2>1, SubscriberKept DEF RunEnd, subVars
  <2>3. Queue' /\ Order' /\ Quiet'
    BY <1>0, <1>8 DEF RunEnd, busVars, subVars
  <2> QED
    BY <1>0, <2>2, <2>3
<1>9. ASSUME NEW n \in Names, Subscribe(n) PROVE DrainInv'
  <2>1. /\ UNCHANGED <<chans, closes, processed, dropped, publisher, stopped, accepted,
                       run, cur, left, stop>>
        /\ disp[n] = "none" /\ disp'[n] = "idle" /\ joined'[n] = Fanned /\ n \in subs'
        /\ \A m \in Names : m # n => disp'[m] = disp[m] /\ joined'[m] = joined[m] /\ (m \in subs => m \in subs')
    BY <1>9 DEF Subscribe, busVars, runVars, BusInv, TypeOK
  <2>2. Queue' /\ Order'
    BY <1>0, <2>1
  <2>3. Quiet'
    BY <1>0, <2>1
  <2>4. ASSUME NEW m \in Names, m # n PROVE SubscriberInv(m)'
    <3>1. Reached(m)' = Reached(m)
      BY <2>1 DEF Reached, Fanned
    <3> QED
      BY <1>0, <2>1, <2>4, <3>1, SubscriberKept
  <2>5. SubscriberInv(n)'
    <3>1. n \notin left
      BY <2>1 DEF BusInv, LockInv
    <3>2. Fanned \in Int /\ Reached(n)' = Fanned
      BY <1>b, <2>1, <3>1 DEF Reached, Fanned
    <3>3. chans[n] = <<>> /\ processed[n] = <<>> /\ dropped[n] = {}
      BY <1>0, <2>1 DEF SubscriberInv
    <3>4. Range(processed'[n]) = {} /\ Range(chans'[n]) = {} /\ dropped'[n] = {}
      BY <2>1, <3>3 DEF Range
    <3>5. (joined'[n] + 1)..Fanned = {} /\ joined'[n] <= Fanned
      BY <2>1, <3>2
    <3>6. Increasing(processed'[n]) /\ Increasing(chans'[n])
      BY <2>1, <3>3 DEF Increasing
    <3> QED
      BY <2>1, <3>2, <3>4, <3>5, <3>6 DEF SubscriberInv
  <2> QED
    BY <1>0, <2>2, <2>3, <2>4, <2>5
<1>10. ASSUME NEW n \in Names, DispatchTake(n) PROVE DrainInv'
  <2>1. /\ UNCHANGED <<subs, closes, dropped, joined, publisher, stopped, accepted,
                       run, cur, left, stop>>
        /\ chans[n] # <<>>
        /\ \A m \in Names : m # n => /\ disp'[m] = disp[m] /\ chans'[m] = chans[m]
                                     /\ processed'[m] = processed[m]
    BY <1>10 DEF DispatchTake, busVars, runVars, BusInv, TypeOK
  <2>2. Queue' /\ Order'
    BY <1>0, <2>1
  <2>3. Quiet'
    BY <1>0, <2>1
  <2>4. ASSUME NEW m \in Names, m # n PROVE SubscriberInv(m)'
    <3>1. Reached(m)' = Reached(m)
      BY <2>1 DEF Reached, Fanned
    <3> QED
      BY <1>0, <2>1, <2>4, <3>1, SubscriberKept
  <2> QED
    BY <1>0, <1>10, <2>2, <2>3, <2>4, TakeStep
<1>11. ASSUME NEW n \in Names, DispatchDone(n) PROVE DrainInv'
  <2>1. /\ UNCHANGED <<subs, chans, closes, processed, dropped, joined, publisher,
                       stopped, accepted, run, cur, left, stop>>
        /\ disp[n] = "busy" /\ disp'[n] = "idle"
        /\ \A m \in Names : m # n => disp'[m] = disp[m]
    BY <1>11 DEF DispatchDone, busVars, runVars, BusInv, TypeOK
  <2>2. Queue' /\ Order' /\ Quiet'
    BY <1>0, <2>1
  <2>3. \A m \in Names : Reached(m)' = Reached(m)
    BY <2>1 DEF Reached, Fanned
  <2>4. Each'
    BY <1>0, <2>1, <2>3, SubscriberKept
  <2> QED
    BY <1>0, <2>2, <2>4
<1>12. ASSUME NEW n \in Names, DispatchEnd(n) PROVE DrainInv'
  <2>1. /\ UNCHANGED <<subs, chans, closes, processed, dropped, joined, publisher,
                       stopped, accepted, run, cur, left, stop>>
        /\ disp[n] = "idle" /\ disp'[n] = "exited" /\ closes[n] > 0 /\ chans[n] = <<>>
        /\ \A m \in Names : m # n => disp'[m] = disp[m]
    BY <1>12 DEF DispatchEnd, busVars, runVars, BusInv, TypeOK
  <2>2. Queue' /\ Order' /\ Quiet'
    BY <1>0, <2>1
  <2>3. \A m \in Names : Reached(m)' = Reached(m)
    BY <2>1 DEF Reached, Fanned
  <2>4. \A m \in Names : m # n => SubscriberInv(m)'
    BY <1>0, <2>1, <2>3, SubscriberKept
  <2>5. SubscriberInv(n)'
    BY <1>0, <2>1, <2>3 DEF SubscriberInv
  <2> QED
    BY <1>0, <2>2, <2>4, <2>5
<1>13. ASSUME NEW s \in Stoppers, StopCall(s) PROVE DrainInv'
  <2>1. Each'
    BY <1>a, <1>13 DEF StopCall
  <2>2. Queue' /\ Order' /\ Quiet'
    BY <1>0, <1>13 DEF StopCall, busVars, runVars, subVars, BusInv, TypeOK
  <2> QED
    BY <1>0, <2>1, <2>2
<1>14. ASSUME NEW s \in Stoppers, StopOnce(s) PROVE DrainInv'
  <2>1. Each'
    BY <1>a, <1>14 DEF StopOnce
  <2>2. Queue' /\ Order' /\ Quiet'
    BY <1>0, <1>14 DEF StopOnce, runVars, subVars, BusInv, TypeOK
  <2> QED
    BY <1>0, <2>1, <2>2
<1>15. ASSUME NEW s \in Stoppers, StopDrain(s) PROVE DrainInv'
  <2>1. /\ UNCHANGED <<chans, disp, processed, dropped, joined, publisher, stopped,
                       accepted, run, cur, left>>
        /\ run = "done"
    BY <1>15 DEF StopDrain, busVars, runVars
  <2>2. Queue' /\ Order' /\ Quiet'
    BY <1>0, <1>15, <2>1 DEF StopDrain, BusInv, TypeOK
  <2>3. \A n \in Names : closes[n] > 0 => closes'[n] > 0
    BY <1>15 DEF StopDrain, BusInv, TypeOK
  <2>4. \A n \in Names : Reached(n)' = Reached(n)
    BY <2>1 DEF Reached, Fanned
  <2>5. Each'
    BY <1>0, <2>1, <2>3, <2>4, SubscriberKept
  <2> QED
    BY <1>0, <2>2, <2>5
<1>16. ASSUME NEW s \in Stoppers, StopReturn(s) PROVE DrainInv'
  <2>1. Each'
    BY <1>a, <1>16 DEF StopReturn
  <2>2. Queue' /\ Order'
    BY <1>0, <1>16 DEF StopReturn, busVars, runVars, subVars, BusInv, TypeOK
  <2>3. \A n \in Names : chans[n] = <<>> /\ disp[n] # "busy"
    BY <1>0, <1>16 DEF StopReturn, SubscriberInv
  <2>4. Quiet'
    BY <1>16, <2>3 DEF StopReturn, subVars
  <2> QED
    BY <1>0, <2>1, <2>2, <2>4
<1>17. ASSUME UNCHANGED vars PROVE DrainInv'
  <2>1. Each'
    BY <1>a, <1>17 DEF vars
  <2> QED
    BY <1>0, <1>17, <2>1 DEF vars, busVars, runVars, subVars
<1> QED
  BY <1>1, <1>2, <1>4, <1>5, <1>6, <1>7, <1>8, <1>9, <1>10, <1>11, <1>12, <1>13, <1>14,
     <1>15, <1>16, <1>17
     DEF Next, Publisher, Run, Dispatch, StopCaller

(* A new bus has accepted nothing and has no subscriber.                    *)
LEMMA DrainStart == Init => DrainInv
<1> SUFFICES ASSUME Init PROVE DrainInv
  OBVIOUS
<1> USE DEF Init
<1>1. cur + Len(publisher) = accepted /\ \A i \in 1..Len(publisher) : publisher[i] = cur + i
  OBVIOUS
<1>2. ASSUME NEW n \in Names PROVE SubscriberInv(n)
  <2>1. chans[n] = <<>> /\ processed[n] = <<>> /\ dropped[n] = {} /\ disp[n] = "none"
    OBVIOUS
  <2>2. Range(chans[n]) = {} /\ Range(processed[n]) = {}
    BY <2>1 DEF Range
  <2>3. Increasing(chans[n]) /\ Increasing(processed[n])
    BY <2>1 DEF Increasing
  <2> QED
    BY <2>1, <2>2, <2>3 DEF SubscriberInv
<1> QED
  BY <1>1, <1>2 DEF DrainInv

(* When any Stop returns, every chunk Publish accepted since a subscriber   *)
(* joined was processed by it once and in order, or dropped by its full     *)
(* channel: none is still queued, and none is lost.                         *)
THEOREM BusStopDrains == Spec => []StopDrains
<1>1. BusInv /\ DrainInv => StopDrains
  <2> SUFFICES ASSUME BusInv, DrainInv, NEW s \in Stoppers, stop[s] = "returned",
                      NEW n \in Names, disp[n] # "none"
               PROVE  /\ disp[n] # "busy"
                      /\ Increasing(processed[n])
                      /\ Range(processed[n]) \cap dropped[n] = {}
                      /\ Range(processed[n]) \cup dropped[n] = (joined[n] + 1)..accepted
    BY DEF StopDrains
  <2>1. /\ run = "done" /\ publisher = <<>> /\ chans[n] = <<>> /\ disp[n] # "busy"
        /\ left = {}
    BY DEF DrainInv, BusInv, LockInv
  <2>2. Reached(n) = accepted
    BY <2>1 DEF DrainInv, Reached, Fanned, BusInv, TypeOK
  <2>3. Range(chans[n]) = {}
    BY <2>1 DEF Range
  <2> QED
    BY <2>1, <2>2, <2>3 DEF DrainInv, SubscriberInv
<1>2. BusInv /\ DrainInv /\ [Next]_vars => (BusInv /\ DrainInv)'
  BY BusStep, DrainStep
<1>3. Init => BusInv /\ DrainInv
  BY BusStart, DrainStart
<1> QED
  BY <1>1, <1>2, <1>3, PTL DEF Spec
=============================================================================
