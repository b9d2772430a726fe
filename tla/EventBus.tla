------------------------------ MODULE EventBus ------------------------------
(***************************************************************************)
(* protocol/stream.go, EventBus: publishers put chunks on one bounded      *)
(* channel, run() copies each to the bounded channel of every subscriber,  *)
(* one dispatcher per subscriber processes them, and Stop() closes it all. *)
(* A full channel drops the chunk.                                         *)
(*                                                                         *)
(* mu is a RWMutex.  Publishers in "sending" and run() in "fan" hold it    *)
(* for reading; Subscribe and the two sections of Stop hold it for writing *)
(* and are one step each.  Chunks are numbered as the bus accepts them.    *)
(* A name is subscribed once: after Stop forgot it, subscribing it again   *)
(* makes a new channel, as another name would.                             *)
(***************************************************************************)
EXTENDS Naturals, Sequences, Functions

CONSTANTS
    Publishers, Names, Stoppers,    \* goroutines that publish, subscribers, callers of Stop
    BusCap,                         \* bufferSize
    SubCap,                         \* capacity of a subscriber's channel (256)
    MaxChunks                       \* bound

ASSUME BusAssumption ==
    /\ BusCap \in Nat \ {0} /\ SubCap \in Nat \ {0}
    /\ MaxChunks \in Nat

VARIABLES
    pub,        \* per publisher: "idle" or "sending"
    publisher,  \* the channel publisher
    stopped,    \* stopped, and publisher closed with it
    run,        \* "range", "got", "fan" or "done"; runDone is closed at "done"
    cur, left,  \* run's chunk, and the subscribers it has yet to offer it to
    subs,       \* the names in eb.subs
    chans,      \* per name: its channel
    closes,     \* per name: how often its channel was closed
    disp,       \* per name: its dispatcher, "none", "idle", "busy" or "exited"
    stop,       \* per caller of Stop: "new", "once", "run", "wg" or "returned"
    accepted,   \* history: chunks accepted so far
    processed,  \* history, per name: the chunks processed, in order
    dropped,    \* history, per name: the chunks it had no room for
    joined      \* history, per name: the chunks fanned out before it subscribed

busVars == <<pub, publisher, stopped, accepted>>
runVars == <<run, cur, left>>
subVars == <<subs, chans, closes, disp, processed, dropped, joined>>
vars == <<busVars, runVars, subVars, stop>>

Init ==
    /\ pub = [p \in Publishers |-> "idle"]
    /\ publisher = <<>> /\ stopped = FALSE /\ accepted = 0
    /\ run = "range" /\ cur = 0 /\ left = {}
    /\ subs = {}
    /\ chans = [n \in Names |-> <<>>] /\ closes = [n \in Names |-> 0]
    /\ disp = [n \in Names |-> "none"]
    /\ processed = [n \in Names |-> <<>>] /\ dropped = [n \in Names |-> {}]
    /\ joined = [n \in Names |-> 0]
    /\ stop = [s \in Stoppers |-> "new"]

\* mu.Lock() returns: nobody holds mu for reading.
Unlocked == run # "fan" /\ \A p \in Publishers : pub[p] = "idle"

\* mu.RLock() returns: no Lock() is waiting (new readers queue behind a writer).
CanRead == stopped \/ \A s \in Stoppers : stop[s] # "once"

\* The chunks whose fan-out has begun: all that left publisher, but for one run()
\* has taken and not yet locked for.
Fanned == IF run = "got" THEN cur - 1 ELSE cur

-----------------------------------------------------------------------------
(* Publish and TryPublish *)

\* Once stopped, both return at once.
PubBegin(p) ==
    /\ pub[p] = "idle" /\ CanRead /\ ~stopped
    /\ accepted < MaxChunks
    /\ pub' = [pub EXCEPT ![p] = "sending"]
    /\ UNCHANGED <<publisher, stopped, accepted, runVars, subVars, stop>>

PubSend(p) ==
    /\ pub[p] = "sending" /\ Len(publisher) < BusCap
    /\ accepted < MaxChunks
    /\ publisher' = Append(publisher, accepted + 1)
    /\ accepted' = accepted + 1
    /\ pub' = [pub EXCEPT ![p] = "idle"]
    /\ UNCHANGED <<stopped, runVars, subVars, stop>>

\* The chunk is not sent: there is no room, or (Publish only) ctx is done, which
\* it may be at any time.
PubDrop(p) ==
    /\ pub[p] = "sending"
    /\ pub' = [pub EXCEPT ![p] = "idle"]
    /\ UNCHANGED <<publisher, stopped, accepted, runVars, subVars, stop>>

-----------------------------------------------------------------------------
(* run *)

RunRecv ==
    /\ run = "range" /\ publisher # <<>>
    /\ cur' = Head(publisher) /\ publisher' = Tail(publisher)
    /\ run' = "got"
    /\ UNCHANGED <<left, pub, stopped, accepted, subVars, stop>>

RunLock ==
    /\ run = "got" /\ CanRead
    /\ run' = "fan" /\ left' = subs
    /\ UNCHANGED <<cur, busVars, subVars, stop>>

\* The select with a default.
RunOffer(n) ==
    /\ run = "fan" /\ n \in left
    /\ left' = left \ {n}
    /\ \/ /\ Len(chans[n]) < SubCap
          /\ chans' = [chans EXCEPT ![n] = Append(@, cur)]
          /\ UNCHANGED dropped
       \/ /\ Len(chans[n]) = SubCap
          /\ dropped' = [dropped EXCEPT ![n] = @ \cup {cur}]
          /\ UNCHANGED chans
    /\ UNCHANGED <<run, cur, busVars, subs, closes, disp, processed, joined, stop>>

RunUnlock ==
    /\ run = "fan" /\ left = {}
    /\ run' = "range"
    /\ UNCHANGED <<cur, left, busVars, subVars, stop>>

\* Mutant of RunEnd: run() leaves as soon as stopped is set.
RunEndUndrained ==
    /\ run = "range" /\ stopped
    /\ run' = "done"
    /\ UNCHANGED <<cur, left, busVars, subVars, stop>>

\* range ends when publisher is closed and empty.
RunEnd ==
    /\ run = "range" /\ stopped /\ publisher = <<>>
    /\ run' = "done"
    /\ UNCHANGED <<cur, left, busVars, subVars, stop>>

-----------------------------------------------------------------------------
(* Subscribe, dispatch *)

Subscribe(n) ==
    /\ Unlocked
    /\ disp[n] = "none"
    /\ subs' = subs \cup {n}
    /\ disp' = [disp EXCEPT ![n] = "idle"]
    /\ joined' = [joined EXCEPT ![n] = Fanned]
    /\ UNCHANGED <<chans, closes, processed, dropped, busVars, runVars, stop>>

\* The chunk leaves the channel; Process is under way.
DispatchTake(n) ==
    /\ disp[n] = "idle" /\ chans[n] # <<>>
    /\ disp' = [disp EXCEPT ![n] = "busy"]
    /\ processed' = [processed EXCEPT ![n] = Append(@, Head(chans[n]))]
    /\ chans' = [chans EXCEPT ![n] = Tail(@)]
    /\ UNCHANGED <<subs, closes, dropped, joined, busVars, runVars, stop>>

\* Process returns, fails or panics: all the same to dispatch.
DispatchDone(n) ==
    /\ disp[n] = "busy"
    /\ disp' = [disp EXCEPT ![n] = "idle"]
    /\ UNCHANGED <<subs, chans, closes, processed, dropped, joined, busVars, runVars, stop>>

DispatchEnd(n) ==
    /\ disp[n] = "idle" /\ closes[n] > 0 /\ chans[n] = <<>>
    /\ disp' = [disp EXCEPT ![n] = "exited"]
    /\ UNCHANGED <<subs, chans, closes, processed, dropped, joined, busVars, runVars, stop>>

-----------------------------------------------------------------------------
(* Stop *)

\* The call, up to Lock() for the first caller and to the wait for it for others.
StopCall(s) ==
    /\ stop[s] = "new"
    /\ stop' = [stop EXCEPT ![s] = "once"]
    /\ UNCHANGED <<busVars, runVars, subVars>>

\* Mutant of StopOnce: publisher is closed without taking mu.
StopOnceUnlocked(s) ==
    /\ stop[s] = "once"
    /\ stopped' = TRUE
    /\ stop' = [stop EXCEPT ![s] = "run"]
    /\ UNCHANGED <<pub, publisher, accepted, runVars, subVars>>

\* stopOnce.Do: the first caller marks and closes, the others find it done.
StopOnce(s) ==
    /\ stop[s] = "once"
    /\ stopped \/ Unlocked
    /\ stopped' = TRUE
    /\ stop' = [stop EXCEPT ![s] = "run"]
    /\ UNCHANGED <<pub, publisher, accepted, runVars, subVars>>

\* Mutant of StopDrain: the names stay in subs, and a second Stop closes again.
StopDrainKeepsSubs(s) ==
    /\ stop[s] = "run" /\ run = "done"
    /\ Unlocked
    /\ closes' = [n \in Names |-> IF n \in subs THEN closes[n] + 1 ELSE closes[n]]
    /\ stop' = [stop EXCEPT ![s] = "wg"]
    /\ UNCHANGED <<subs, chans, disp, processed, dropped, joined, busVars, runVars>>

\* Mutant of StopDrain: the names are forgotten, their channels left open.
StopDrainNoClose(s) ==
    /\ stop[s] = "run" /\ run = "done"
    /\ Unlocked
    /\ subs' = {}
    /\ stop' = [stop EXCEPT ![s] = "wg"]
    /\ UNCHANGED <<closes, chans, disp, processed, dropped, joined, busVars, runVars>>

StopDrain(s) ==
    /\ stop[s] = "run" /\ run = "done"
    /\ Unlocked
    /\ closes' = [n \in Names |-> IF n \in subs THEN closes[n] + 1 ELSE closes[n]]
    /\ subs' = {}
    /\ stop' = [stop EXCEPT ![s] = "wg"]
    /\ UNCHANGED <<chans, disp, processed, dropped, joined, busVars, runVars>>

\* wg.Wait(): run and every dispatcher are gone.
StopReturn(s) ==
    /\ stop[s] = "wg"
    /\ run = "done" /\ \A n \in Names : disp[n] \in {"none", "exited"}
    /\ stop' = [stop EXCEPT ![s] = "returned"]
    /\ UNCHANGED <<busVars, runVars, subVars>>

-----------------------------------------------------------------------------
Publisher(p) == PubBegin(p) \/ PubSend(p) \/ PubDrop(p)
Run == RunRecv \/ RunLock \/ (\E n \in Names : RunOffer(n)) \/ RunUnlock \/ RunEnd
Dispatch(n) == DispatchTake(n) \/ DispatchDone(n) \/ DispatchEnd(n)
StopCaller(s) == StopOnce(s) \/ StopDrain(s) \/ StopReturn(s)

Next ==
    \/ \E p \in Publishers : Publisher(p)
    \/ Run
    \/ \E n \in Names : Subscribe(n) \/ Dispatch(n)
    \/ \E s \in Stoppers : StopCall(s) \/ StopCaller(s)

(* Goroutines that can run do, and Process returns.  Nobody is assumed to   *)
(* publish, to subscribe or to call Stop.                                   *)
Fairness ==
    /\ \A p \in Publishers : WF_vars(PubSend(p) \/ PubDrop(p))
    /\ WF_vars(Run)
    /\ \A n \in Names : WF_vars(Dispatch(n))
    /\ \A s \in Stoppers : WF_vars(StopCaller(s))

Spec == Init /\ [][Next]_vars /\ Fairness

-----------------------------------------------------------------------------
Chunks == 1..MaxChunks

TypeOK ==
    /\ pub \in [Publishers -> {"idle", "sending"}]
    /\ publisher \in Seq(Chunks) /\ Len(publisher) <= BusCap
    /\ stopped \in BOOLEAN /\ accepted \in 0..MaxChunks
    /\ run \in {"range", "got", "fan", "done"} /\ cur \in 0..MaxChunks
    /\ left \subseteq Names /\ subs \subseteq Names
    /\ chans \in [Names -> Seq(Chunks)] /\ \A n \in Names : Len(chans[n]) <= SubCap
    /\ closes \in [Names -> 0..1]
    /\ disp \in [Names -> {"none", "idle", "busy", "exited"}]
    /\ stop \in [Stoppers -> {"new", "once", "run", "wg", "returned"}]
    /\ processed \in [Names -> Seq(Chunks)]
    /\ dropped \in [Names -> SUBSET Chunks]
    /\ joined \in [Names -> 0..MaxChunks]

Increasing(s) == \A i, j \in DOMAIN s : i < j => s[i] < s[j]

(* No send ever meets a closed channel, which in Go would panic: not a      *)
(* publisher that saw stopped unset before Stop closed publisher, and not   *)
(* run() while a Stop closes the subscribers.                               *)
NoSendOnClosed ==
    /\ \A p \in Publishers : pub[p] = "sending" => ~stopped
    /\ \A n \in left : closes[n] = 0

(* When any Stop returns, every subscriber has processed, in order and      *)
(* once, all the chunks accepted since it subscribed but for those its full *)
(* channel dropped: a Stop racing publishers and another Stop loses none.   *)
StopDrains ==
    \A s \in Stoppers : stop[s] = "returned" =>
        \A n \in Names : disp[n] # "none" =>
            /\ disp[n] # "busy"
            /\ Increasing(processed[n])
            /\ Range(processed[n]) \cap dropped[n] = {}
            /\ Range(processed[n]) \cup dropped[n] = (joined[n] + 1)..accepted

(* MEMO.md:445 and 459: "EventBus.Stop()" does not deadlock any more.       *)
(* Every Stop returns, whoever publishes and subscribes meanwhile, unless   *)
(* somebody subscribes after it has closed the channels: that dispatcher is *)
(* only ended by another Stop, and wg.Wait() waits for it.                  *)
StopReturns ==
    \A s \in Stoppers :
        stop[s] = "once" ~> stop[s] = "returned" \/ (stop[s] = "wg" /\ subs # {})

(* What NoSendOnClosed rests on: who may still send when, and that a        *)
(* channel is closed only after its subscriber is registered and at the     *)
(* moment it is forgotten; and that run() offers a chunk it has taken.      *)
LockInv ==
    /\ run \in {"got", "fan"} => cur > 0
    /\ stopped => \A p \in Publishers : pub[p] = "idle"
    /\ left \subseteq subs
    /\ left # {} => run = "fan"
    /\ \A n \in Names : n \in subs => disp[n] # "none" /\ closes[n] = 0
    /\ \A n \in Names : disp[n] = "none" => closes[n] = 0
=============================================================================
