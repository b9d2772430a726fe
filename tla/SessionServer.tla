---------------------------- MODULE SessionServer ----------------------------
(***************************************************************************)
(* The HTTP handlers of internal/server/server.go over the session         *)
(* histories of internal/session/manager.go, with the idle-session         *)
(* cleanup, and the shutdown and restart of main.go.  Manager's methods    *)
(* hold its mutex, so each is one step; Save holds it through the write of *)
(* history.json, which os.WriteFile truncates first.                       *)
(*                                                                         *)
(* A request is one turn.  A message is its role and its turn; what it     *)
(* says is left out.                                                       *)
(***************************************************************************)
EXTENDS Naturals, Sequences, FiniteSets

CONSTANTS
    Sids,           \* session ids
    Requests,       \* requests, each made once
    Kinds,          \* handlers in use: subset of {"chat", "stream", "vision"}
    MaxAge,         \* Cleanup's maxAge in ticks
    Window,         \* messages MessageRewriter lets through to the model (6)
    MaxRestarts     \* bound

ASSUME SessionAssumption ==
    /\ Kinds \subseteq {"chat", "stream", "vision"}
    /\ MaxAge \in Nat /\ MaxRestarts \in Nat
    /\ Window \in Nat \ {0}

VARIABLES
    proc,           \* "up", "saving", "saved" or "down"
    sessions,       \* Manager.sessions: a partial function on Sids
    lastAccess,     \* time since Manager.lastAccess[sid]; partial as well
    pc, kind, sid,  \* per request: its handler's place, its kind and session
    snap,           \* per request: the result of SnapshotWith, without extra
    disk,           \* the sessions in history.json
    intact,         \* FALSE while history.json is half-written
    native,         \* supportsVision(model): fixed by the configuration
    restarts,
    answered,       \* history: turns whose reply the client has
    lost,           \* history: turns evicted, or gone with a process (see Die)
    due,            \* history: turns in sessions when SIGINT came, unless the
                    \* write of history.json failed
    restored        \* history: sessions that Load brought back, untouched since

config == <<kind, sid, native>>
access == <<lastAccess, restored>>
hist == <<lost, due>>
vars == <<proc, sessions, access, pc, config, snap, disk, intact, restarts, answered, hist>>

Roles == {"user", "assistant", "nil"}
Msg == [role : Roles, turn : Requests]
Nothing == [s \in {} |-> <<>>]

History(s) == IF s \in DOMAIN sessions THEN sessions[s] ELSE <<>>
Turns(h) == {h[i].turn : i \in DOMAIN h}
AllTurns(f) == UNION {Turns(f[s]) : s \in DOMAIN f}
HasNil(h) == \E i \in DOMAIN h : h[i].role = "nil"

\* f with s mapped to v, whether or not s is in its domain; f without a set.
With(f, s, v) == [x \in DOMAIN f \cup {s} |-> IF x = s THEN v ELSE f[x]]
Without(f, S) == [x \in DOMAIN f \ S |-> f[x]]

Serving == proc \in {"up", "saved"}

Init ==
    /\ proc = "up"
    /\ sessions = Nothing /\ lastAccess = Nothing
    /\ pc = [r \in Requests |-> "new"]
    /\ kind \in [Requests -> Kinds]
    /\ sid \in [Requests -> Sids]
    /\ snap = [r \in Requests |-> <<>>]
    /\ disk = Nothing /\ intact = TRUE
    /\ native \in BOOLEAN
    /\ restarts = 0
    /\ answered = {} /\ lost = {} /\ due = {} /\ restored = {}

-----------------------------------------------------------------------------
(* Handlers *)

\* m.lastAccess[sid] = time.Now()
Touch(s) ==
    /\ lastAccess' = With(lastAccess, s, 0)
    /\ restored' = restored \ {s}

\* SnapshotWith: the session's history so far, and its access time.  A request
\* that is refused before it (method, JSON, an image that cannot be prepared)
\* changes nothing.
Accept(r) ==
    /\ Serving
    /\ pc[r] = "new"
    /\ pc' = [pc EXCEPT ![r] = "running"]
    /\ snap' = [snap EXCEPT ![r] = History(sid[r])]
    /\ Touch(sid[r])
    /\ UNCHANGED <<proc, sessions, config, disk, intact, restarts, answered, hist>>

\* A nil message among those that reach the model ends the agent's run with an
\* error: toProtoMsg dereferences it.
Poisoned(r) ==
    \E i \in DOMAIN snap[r] :
        i + Window > Len(snap[r]) + 1 /\ snap[r][i].role = "nil"

\* The agent fails or the client is gone: the turn leaves no trace.
Fail(r) ==
    /\ Serving
    /\ pc[r] = "running"
    /\ pc' = [pc EXCEPT ![r] = "done"]
    /\ UNCHANGED <<proc, sessions, access, config, snap, disk, intact, restarts,
                   answered, hist>>

\* Mutant of Turn: the user message is stored under another role.
TurnSystem(r) ==
    <<[role |-> "system", turn |-> r], [role |-> "assistant", turn |-> r]>>

\* What a handler appends: prepareVisionMessage has no user message to return
\* when the model does not see images itself.
Turn(r) ==
    <<[role |-> IF kind[r] = "vision" /\ ~native THEN "nil" ELSE "user", turn |-> r],
      [role |-> "assistant", turn |-> r]>>

\* Mutant of AppendTurn: it writes back the snapshot, extended by the turn.
AppendTurnStale(r) ==
    /\ sessions' = With(sessions, sid[r], snap[r] \o Turn(r))
    /\ Touch(sid[r])

\* Manager.Append(sid, userMsg, result).
AppendTurn(r) ==
    /\ sessions' = With(sessions, sid[r], History(sid[r]) \o Turn(r))
    /\ Touch(sid[r])

\* HandleChat and the vision handlers store the turn before the reply ends.
Store(r) ==
    /\ Serving
    /\ pc[r] = "running" /\ kind[r] # "stream" /\ ~Poisoned(r)
    /\ AppendTurn(r)
    /\ pc' = [pc EXCEPT ![r] = "stored"]
    /\ UNCHANGED <<proc, config, snap, disk, intact, restarts, answered, hist>>

Reply(r) ==
    /\ proc # "down"
    /\ pc[r] = "stored"
    /\ pc' = [pc EXCEPT ![r] = "done"]
    /\ answered' = answered \cup {r}
    /\ UNCHANGED <<proc, sessions, access, config, snap, disk, intact, restarts, hist>>

\* Mutant of StreamReply: the handler appends the turn here as well.
StreamReplyStores(r) ==
    /\ Serving
    /\ pc[r] = "running" /\ kind[r] = "stream" /\ ~Poisoned(r)
    /\ AppendTurn(r)
    /\ pc' = [pc EXCEPT ![r] = "replied"]
    /\ answered' = answered \cup {r}
    /\ UNCHANGED <<proc, config, snap, disk, intact, restarts, hist>>

\* HandleChatStream sends [DONE] first.
StreamReply(r) ==
    /\ proc # "down"
    /\ pc[r] = "running" /\ kind[r] = "stream" /\ ~Poisoned(r)
    /\ pc' = [pc EXCEPT ![r] = "replied"]
    /\ answered' = answered \cup {r}
    /\ UNCHANGED <<proc, sessions, access, config, snap, disk, intact, restarts, hist>>

StreamStore(r) ==
    /\ Serving
    /\ pc[r] = "replied"
    /\ AppendTurn(r)
    /\ pc' = [pc EXCEPT ![r] = "done"]
    /\ UNCHANGED <<proc, config, snap, disk, intact, restarts, answered, hist>>

-----------------------------------------------------------------------------
(* Cleanup *)

Expired == {s \in DOMAIN lastAccess : lastAccess[s] > MaxAge}

\* Mutant of Cleanup: the history is kept.
CleanupKeeps ==
    /\ Serving
    /\ Expired # {}
    /\ lastAccess' = Without(lastAccess, Expired)
    /\ UNCHANGED <<proc, sessions, restored, pc, config, snap, disk, intact, restarts,
                   answered, hist>>

Cleanup ==
    /\ Serving
    /\ Expired # {}
    /\ sessions' = Without(sessions, Expired)
    /\ lastAccess' = Without(lastAccess, Expired)
    /\ lost' = lost \cup UNION {Turns(History(s)) : s \in Expired}
    /\ UNCHANGED <<proc, restored, pc, config, snap, disk, intact, restarts, answered, due>>

Tick ==
    /\ proc # "down"
    /\ \E s \in DOMAIN lastAccess : lastAccess[s] <= MaxAge
    /\ lastAccess' = [s \in DOMAIN lastAccess |->
                        IF lastAccess[s] <= MaxAge THEN lastAccess[s] + 1 ELSE lastAccess[s]]
    /\ UNCHANGED <<proc, sessions, restored, pc, config, snap, disk, intact, restarts,
                   answered, hist>>

-----------------------------------------------------------------------------
(* Shutdown and restart *)

OnDisk == IF intact THEN AllTurns(disk) ELSE {}

\* Whatever runs dies with the process.  What is not on disk is lost, but for the
\* turns of survivors, which ought to be there.
Die(survivors) ==
    /\ proc' = "down"
    /\ pc' = [r \in Requests |-> IF pc[r] = "new" THEN "new" ELSE "done"]
    /\ lost' = (lost \cup {r \in Requests : pc[r] # "new"}) \ (OnDisk \cup survivors)

Unsavable == \E s \in DOMAIN sessions : HasNil(sessions[s])

\* SIGINT: SaveHistory.  Nothing is written when there is no session.  Otherwise
\* os.WriteFile truncates the file, or cannot open it, which is only logged.
\* toHistoryMsg panics on a nil message, in a goroutine nobody recovers: the
\* process dies with its turns, which the save still owes.
Signal ==
    /\ proc = "up"
    /\ \/ /\ sessions = Nothing
          /\ proc' = "saved" /\ due' = {}
          /\ UNCHANGED <<pc, intact, lost>>
       \/ /\ sessions # Nothing /\ ~Unsavable
          /\ \/ proc' = "saving" /\ due' = AllTurns(sessions) /\ intact' = FALSE
             \/ proc' = "saved" /\ due' = {} /\ UNCHANGED intact
          /\ UNCHANGED <<pc, lost>>
       \/ /\ Unsavable
          /\ due' = AllTurns(sessions)
          /\ Die(due')
          /\ UNCHANGED intact
    /\ UNCHANGED <<sessions, disk, access, config, snap, restarts, answered>>

\* The file is written, or the write fails half-way, which is only logged.
SaveEnd ==
    /\ proc = "saving"
    /\ \/ disk' = sessions /\ intact' = TRUE /\ UNCHANGED due
       \/ due' = {} /\ UNCHANGED <<disk, intact>>
    /\ proc' = "saved"
    /\ UNCHANGED <<sessions, access, pc, config, snap, restarts, answered, lost>>

\* Shutdown closes the listener, ListenAndServe returns, and so does main: the
\* requests still running are not waited for.
Exit ==
    /\ proc = "saved"
    /\ Die(due)
    /\ UNCHANGED <<sessions, access, config, snap, disk, intact, restarts, answered, due>>

\* Killed: no save, or half of one.
Kill ==
    /\ proc \in {"up", "saving"}
    /\ Die({})
    /\ UNCHANGED <<sessions, access, config, snap, disk, intact, restarts, answered, due>>

\* Load does not set access times; a file that does not parse is ignored.
Restart ==
    /\ proc = "down"
    /\ restarts < MaxRestarts
    /\ restarts' = restarts + 1
    /\ proc' = "up"
    /\ sessions' = IF intact THEN disk ELSE Nothing
    /\ lastAccess' = Nothing
    /\ restored' = DOMAIN sessions'
    /\ UNCHANGED <<pc, config, snap, disk, intact, answered, hist>>

Handler(r) == Fail(r) \/ Store(r) \/ Reply(r) \/ StreamReply(r) \/ StreamStore(r)

Next ==
    \/ \E r \in Requests : Accept(r) \/ Handler(r)
    \/ Cleanup \/ Tick
    \/ Signal \/ SaveEnd \/ Exit \/ Kill \/ Restart

(* Handlers end (every request of theirs to a provider has a timeout), the  *)
(* cleanup ticker fires, a file write ends.  Nobody is assumed to send a    *)
(* request, to signal, or to start the program again.                       *)
Fairness ==
    /\ \A r \in Requests : WF_vars(Handler(r))
    /\ WF_vars(Cleanup) /\ WF_vars(Tick)
    /\ WF_vars(SaveEnd) /\ WF_vars(Exit)

Spec == Init /\ [][Next]_vars /\ Fairness

-----------------------------------------------------------------------------
Histories(f) == \A s \in DOMAIN f : s \in Sids /\ f[s] \in Seq(Msg)

TypeOK ==
    /\ proc \in {"up", "saving", "saved", "down"}
    /\ DOMAIN sessions \subseteq Sids /\ Histories(sessions)
    /\ DOMAIN lastAccess \subseteq Sids
    /\ \A s \in DOMAIN lastAccess : lastAccess[s] \in 0..(MaxAge + 1)
    /\ pc \in [Requests -> {"new", "running", "stored", "replied", "done"}]
    /\ kind \in [Requests -> Kinds] /\ sid \in [Requests -> Sids]
    /\ snap \in [Requests -> Seq(Msg)]
    /\ Histories(disk) /\ intact \in BOOLEAN
    /\ native \in BOOLEAN /\ restarts \in 0..MaxRestarts
    /\ answered \subseteq Requests /\ lost \subseteq Requests /\ due \subseteq Requests
    /\ restored \subseteq Sids

\* No image goes to a model that does not see images itself, so that every turn
\* has a user message to store.
UserMessagesOnly == native \/ \A r \in Requests : kind[r] # "vision"

\* A history of session s as a model can be given it: each turn a user message
\* with its answer right after it, no turn twice, none of another session.
WellFormed(h, s) ==
    /\ Len(h) % 2 = 0
    /\ \A i \in DOMAIN h :
        /\ sid[h[i].turn] = s
        /\ i % 2 = 1 => h[i].role = "user" /\ h[i + 1].role = "assistant" /\ h[i].turn = h[i + 1].turn
    /\ Cardinality(Turns(h)) * 2 = Len(h)

(* Concurrent requests, evictions under a running request, saves and        *)
(* restarts leave every history, stored, loaded or given to the agent, made *)
(* of whole turns of its own session, user message first, as long as every  *)
(* turn has a user message.                                                 *)
TurnsWhole ==
    UserMessagesOnly =>
        /\ \A s \in DOMAIN sessions : WellFormed(sessions[s], s)
        /\ \A s \in DOMAIN disk : WellFormed(disk[s], s)
        /\ \A r \in Requests : WellFormed(snap[r], sid[r])

(* README.detail.md:15, "Auto-save on Ctrl+C, restore on startup": a turn    *)
(* the client has an answer to is in its session, from the handler's Append *)
(* until the session is evicted; if it was there when Ctrl+C came, and the  *)
(* file could be written, it is there after the restart.                    *)
HistoryPersistence ==
    proc = "up" =>
        \A r \in answered \ lost : pc[r] = "replied" \/ r \in Turns(History(sid[r]))

(* HistoryPersistence holds, over concurrent turns, evictions, kills and    *)
(* failing writes, as long as every turn has a user message.  A vision turn *)
(* without one makes Save panic, and takes all sessions with it.            *)
AnsweredTurnsKept == UserMessagesOnly => HistoryPersistence

(* README.detail.md:58: "evicts idle sessions".  When no more requests come *)
(* every session of a server that stays up goes away, a restored one too if *)
(* it was used since.                                                       *)
IdleSessionsEvicted == <>[](proc = "up" => DOMAIN sessions \subseteq restored)
=============================================================================
