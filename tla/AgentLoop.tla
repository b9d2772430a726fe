------------------------------ MODULE AgentLoop ------------------------------
(***************************************************************************)
(* The messages of the ReAct loop: tool calls put together from a stream   *)
(* (processSSEData of protocol/openai.go, Bridge.stream), the tools run by *)
(* eino, the six-message window of internal/adk/react.go, and the repair   *)
(* of the request in protocol/normalize.go.  Several turns of one session. *)
(*                                                                         *)
(* Texts are left out.  A call and the result of running it have the same  *)
(* `of`: turn, round and index.  Arguments are none, cut short, whole, or  *)
(* what closeTruncatedJSON made of them.                                   *)
(***************************************************************************)
EXTENDS Naturals, SequencesExt

CONSTANTS
    Ids,            \* ids a provider gives to its tool calls
    Windows,        \* messages MessageRewriter keeps (6), fixed at the start
    MaxCalls,       \* bound: tool calls of one reply
    MaxDeltas,      \* bound: tool call deltas of one turn
    MaxRounds,      \* tool rounds of one turn (AGENT_MAX_STEP)
    MaxTurns        \* bound

ASSUME LoopAssumption ==
    /\ Ids \subseteq STRING \ {""}
    /\ Windows \subseteq Nat \ {0}
    /\ {MaxCalls, MaxDeltas, MaxRounds, MaxTurns} \subseteq Nat

VARIABLES
    phase,          \* "idle", "stream" (a request is out) or "tools"
    handler,        \* "chat" or "stream": who stores the turn
    history,        \* the session's messages
    msgs,           \* the messages in eino's state
    acc, order,     \* readStreamState: calls by index, indexes as first seen
    toolCalls,      \* Bridge.stream's toolCalls
    seen,           \* number of deltas in this turn
    ran,            \* `of`s of the last round's results, in order
    window, rounds, turns

stream == <<acc, order, toolCalls>>
vars == <<phase, handler, history, msgs, stream, seen, ran, window, rounds, turns>>

Index == 1..MaxCalls
None == 0
CutShort == 1
Whole == 2
Closed == 3
Interrupted == <<>>     \* InterruptedToolResult: the result of no call

Message(role, calls) == [role |-> role, calls |-> calls, id |-> "", name |-> "", of |-> Interrupted]
System == Message("system", <<>>)
User == Message("user", <<>>)
Assistant(calls) == Message("assistant", calls)

CallId(i) == "call_" \o ToString(i - 1)

-----------------------------------------------------------------------------
(* NormalizeMessages *)

IsHead(ms, i) == ms[i].role = "assistant" /\ ms[i].calls # <<>>

\* The tool messages right after message i.
Results(ms, i) ==
    LET n == CHOOSE n \in 0..(Len(ms) - i) :
                /\ \A k \in 1..n : ms[i + k].role = "tool"
                /\ i + n < Len(ms) => ms[i + n + 1].role # "tool"
    IN  SubSeq(ms, i + 1, i + n)

\* Is tool message j no result of any call?
IsOrphan(ms, j) ==
    /\ ms[j].role = "tool"
    /\ \A i \in 1..(j - 1) : IsHead(ms, i) => j > i + Len(Results(ms, i))

\* Mutant of idDistinct: two empty or equal ids count as distinct.
idDistinctAlways(calls) == TRUE

idDistinct(calls) ==
    \A k \in DOMAIN calls :
        calls[k].id # "" /\ \A l \in DOMAIN calls : calls[k].id = calls[l].id => k = l

\* Where the result of call k is, 0 if nowhere: the last one in K with its id
\* (byID), or the one at its position.
ResultAt(calls, results, k, K) ==
    IF idDistinct(calls)
    THEN LET L == {l \in K : results[l].id = calls[k].id}
         IN  IF L = {} THEN 0 ELSE Max(L)
    ELSE IF k \in DOMAIN results THEN k ELSE 0

backfillToolCallNames(calls, results) ==
    [k \in DOMAIN calls |->
        LET l == ResultAt(calls, results, k, {l \in DOMAIN results : results[l].name # ""})
        IN  IF calls[k].name = "" /\ l # 0
            THEN [calls[k] EXCEPT !.name = results[l].name] ELSE calls[k]]

repairToolCallArgs(calls) ==
    [k \in DOMAIN calls |->
        IF calls[k].args = CutShort THEN [calls[k] EXCEPT !.args = Closed] ELSE calls[k]]

\* Mutant of pairToolResults: a call without a result stays without one.
pairToolResultsOnly(calls, avail) ==
    LET at(k) == ResultAt(calls, avail, k, DOMAIN avail)
        answered == SelectSeq([k \in DOMAIN calls |-> k], LAMBDA k : at(k) # 0)
    IN  [n \in DOMAIN answered |->
            [avail[at(answered[n])] EXCEPT !.id = calls[answered[n]].id, !.name = calls[answered[n]].name]]

pairToolResults(calls, avail) ==
    [k \in DOMAIN calls |->
        LET l == ResultAt(calls, avail, k, DOMAIN avail)
            result == IF l = 0 THEN Message("tool", <<>>) ELSE avail[l]
        IN  [result EXCEPT !.id = calls[k].id, !.name = calls[k].name]]

\* What one round of the loop appends to out.  A tool message is appended with
\* the reply it belongs to, or not at all.
Piece(ms, i) ==
    IF IsHead(ms, i)
    THEN LET calls == backfillToolCallNames(ms[i].calls, Results(ms, i))
         IN  <<[ms[i] EXCEPT !.calls = repairToolCallArgs(calls)]>>
                \o pairToolResults(calls, Results(ms, i))
    ELSE IF ms[i].role = "tool" THEN <<>> ELSE <<ms[i]>>

SlowPath(ms) == FlattenSeq([i \in DOMAIN ms |-> Piece(ms, i)])

toolTurnWellFormed(calls, results) ==
    /\ Len(calls) = Len(results)
    /\ \A k \in DOMAIN calls :
        /\ calls[k].name # "" /\ calls[k].id # ""
        /\ results[k].id = calls[k].id /\ results[k].name = calls[k].name

needsArgRepair(calls) == \E k \in DOMAIN calls : calls[k].args = CutShort

\* Mutant of tryFastPath: it looks at the calls only, not at their results.
tryFastPathCalls(ms) ==
    \A i \in DOMAIN ms : ~IsOrphan(ms, i) /\ (IsHead(ms, i) => ~needsArgRepair(ms[i].calls))

tryFastPath(ms) ==
    \A i \in DOMAIN ms :
        /\ ~IsOrphan(ms, i)
        /\ IsHead(ms, i) => /\ toolTurnWellFormed(ms[i].calls, Results(ms, i))
                            /\ ~needsArgRepair(ms[i].calls)

NormalizeMessages(ms) == IF tryFastPath(ms) THEN ms ELSE SlowPath(ms)

-----------------------------------------------------------------------------
(* Requests *)

\* Mutant of MessageRewriter: it keeps one message less.
MessageRewriterShort(ms) ==
    IF Len(ms) <= window THEN ms ELSE SubSeq(ms, Len(ms) - window + 2, Len(ms))

MessageRewriter(ms) ==
    IF Len(ms) <= window THEN ms ELSE SubSeq(ms, Len(ms) - window + 1, Len(ms))

\* What the provider is sent while a request is out: MessageModifier puts the
\* prompt first, buildBody normalises.
Request == NormalizeMessages(<<System>> \o msgs)

NoStream == acc' = <<>> /\ order' = <<>> /\ toolCalls' = <<>>

Ask(ms) ==
    /\ msgs' = MessageRewriter(ms)
    /\ phase' = "stream"

Init ==
    /\ phase = "idle" /\ handler = "none"
    /\ history = <<>> /\ msgs = <<>>
    /\ acc = <<>> /\ order = <<>> /\ toolCalls = <<>> /\ seen = 0
    /\ ran = <<>> /\ rounds = 0 /\ turns = 0
    /\ window \in Windows

NewTurn(h) ==
    /\ phase = "idle" /\ turns < MaxTurns
    /\ turns' = turns + 1
    /\ handler' = h
    /\ Ask(Append(history, User))
    /\ UNCHANGED <<history, stream, seen, ran, rounds, window>>

-----------------------------------------------------------------------------
(* Replies *)

\* A tool call delta of index i, with any of an id, a name and a part of the
\* arguments.  The call is started when its name is known, with the id it has
\* by then.
Delta(i, id, name, part) ==
    LET old == IF i \in DOMAIN acc THEN acc[i] ELSE [id |-> "", name |-> "", args |-> None]
        new == [id   |-> IF id = "" THEN old.id ELSE id,
                name |-> IF name = "" THEN old.name ELSE name,
                args |-> old.args + part]
        of == <<turns, rounds, i>>
    IN  /\ phase = "stream" /\ seen < MaxDeltas
        /\ new.args <= Whole
        /\ seen' = seen + 1
        /\ acc' = [k \in DOMAIN acc \cup {i} |-> IF k = i THEN new ELSE acc[k]]
        /\ order' = IF i \in DOMAIN acc THEN order ELSE Append(order, i)
        /\ toolCalls' =
            IF new.name # "" /\ \A k \in DOMAIN toolCalls : toolCalls[k].of # of
            THEN Append(toolCalls, [id |-> new.id, name |-> new.name, args |-> None, of |-> of])
            ELSE toolCalls
        /\ UNCHANGED <<phase, handler, history, msgs, ran, window, rounds, turns>>

\* The id of call i at the finish reason.
FinalId(i) == IF acc[i].id = "" THEN CallId(i) ELSE acc[i].id

\* Mutant of SetArguments: the call is found by its name.
SetArgumentsByName(calls, i) ==
    LET K == {k \in DOMAIN calls : calls[k].name = acc[i].name}
    IN  IF K = {} THEN calls ELSE [calls EXCEPT ![Min(K)].args = acc[i].args]

\* The bridge's case ChunkToolCall: the first started call with that id.
SetArguments(calls, i) ==
    LET K == {k \in DOMAIN calls : calls[k].id = FinalId(i)}
    IN  IF K = {} THEN calls ELSE [calls EXCEPT ![Min(K)].args = acc[i].args]

\* The run is over: its locals are gone.
EndTurn ==
    /\ phase' = "idle" /\ handler' = "none"
    /\ msgs' = <<>> /\ ran' = <<>> /\ rounds' = 0 /\ seen' = 0
    /\ NoStream

\* Manager.Append: the user message and the answer.
Store(answer) ==
    /\ history' = history \o <<User, answer>>
    /\ EndTurn

\* The bridge's message: eino runs its calls, or it is the answer.
Reply(calls) ==
    /\ phase = "stream"
    /\ \/ /\ calls = <<>>
          /\ Store(Assistant(<<>>))
       \/ /\ calls # <<>>
          /\ msgs' = Append(msgs, Assistant(calls))
          /\ phase' = "tools"
          /\ NoStream
          /\ UNCHANGED <<handler, history, seen, ran, rounds>>
    /\ UNCHANGED <<window, turns>>

\* A finish reason: one ChunkToolCall per index, then ChunkDone.
Finish ==
    LET set[n \in 0..Len(order)] ==
            IF n = 0 THEN toolCalls ELSE SetArguments(set[n - 1], order[n])
    IN  Reply(set[Len(order)])

\* [DONE], or the end of the body, without a finish reason: the calls stay as
\* they were started.
Stop == Reply(toolCalls)

\* The stream breaks: the bridge sends a notice and, if Chat answers, the whole
\* reply.  eino looks at the first message for calls, so the turn ends here;
\* HandleChat stores the last message, HandleChatStream the texts.
Recover ==
    /\ phase = "stream"
    /\ \E n \in 0..MaxCalls : \E ids \in [1..n -> Ids \cup {""}] :
        LET calls == [k \in 1..n |->
                        [id |-> ids[k], name |-> "tool", args |-> Whole, of |-> <<turns, rounds, k>>]]
        IN  Store(Assistant(IF handler = "chat" THEN calls ELSE <<>>))
    /\ UNCHANGED <<window, turns>>

\* Mutant of Result: the role that tools had in an earlier API.
ResultFunction(call) == [Message("function", <<>>) EXCEPT !.id = call.id, !.of = call.of]

\* eino's message for the result of a call: it has no name.
Result(call) == [Message("tool", <<>>) EXCEPT !.id = call.id, !.of = call.of]

RunTools ==
    LET calls == Last(msgs).calls
    IN  /\ phase = "tools" /\ rounds < MaxRounds
        /\ rounds' = rounds + 1
        /\ ran' = [k \in DOMAIN calls |-> calls[k].of]
        /\ Ask(msgs \o [k \in DOMAIN calls |-> Result(calls[k])])
        /\ UNCHANGED <<handler, history, stream, seen, window, turns>>

\* A tool fails or does not exist, the steps are used up, the model's reply is
\* an error: the run ends and the handler stores nothing.
Fail ==
    /\ phase \in {"stream", "tools"}
    /\ EndTurn
    /\ UNCHANGED <<history, window, turns>>

Next ==
    \/ \E h \in {"chat", "stream"} : NewTurn(h)
    \/ \E i \in Index, id \in Ids \cup {""}, name \in {"", "tool"}, part \in {0, 1} :
        Delta(i, id, name, part)
    \/ Finish \/ Stop \/ Recover
    \/ RunTools \/ Fail

Spec == Init /\ [][Next]_vars

-----------------------------------------------------------------------------
Of == (1..MaxTurns) \X (0..MaxRounds) \X Index
Call == [id : Ids \cup {""}, name : {"", "tool"}, args : None..Closed, of : Of]
Msg == [role : {"system", "user", "assistant", "tool"}, calls : Seq(Call),
        id : Ids \cup {""}, name : {"", "tool"}, of : Of \cup {Interrupted}]

TypeOK ==
    /\ phase \in {"idle", "stream", "tools"} /\ handler \in {"none", "chat", "stream"}
    /\ history \in Seq(Msg) /\ msgs \in Seq(Msg)
    /\ Len(history) <= 2 * MaxTurns
    /\ DOMAIN acc \subseteq Index
    /\ \A i \in DOMAIN acc :
        acc[i] \in [id : Ids \cup {""}, name : {"", "tool"}, args : None..Whole]
    /\ order \in Seq(Index) /\ toolCalls \in Seq(Call)
    /\ ran \in Seq(Of) /\ window \in Windows
    /\ seen \in 0..MaxDeltas /\ rounds \in 0..MaxRounds /\ turns \in 0..MaxTurns

\* A request has just been sent.
Asked == phase = "stream" /\ order = <<>>

(* README.detail.md:27: "Broken JSON repair, orphan tool message removal,    *)
(* missing result backfill".  Wherever the window cuts the conversation, and *)
(* whatever a broken stream left in the session, every request sent pairs    *)
(* each tool call with one result of the same id and name, in order, has no  *)
(* other tool message, and no arguments that do not parse.                   *)
RequestPaired ==
    Asked => LET req == Request IN
        \A i \in DOMAIN req :
            /\ ~IsOrphan(req, i)
            /\ IsHead(req, i) =>
                LET calls == req[i].calls
                    results == Results(req, i)
                IN  /\ Len(results) = Len(calls)
                    /\ \A k \in DOMAIN calls :
                        /\ results[k].id = calls[k].id /\ results[k].name = calls[k].name
                        /\ calls[k].args # CutShort

(* NormalizeMessages pairs by id, or by position when ids are missing or     *)
(* repeated.  Either way no request gives a call the result of another one.  *)
ResultsTruthful ==
    Asked => LET req == Request IN
        \A i \in DOMAIN req :
            IsHead(req, i) =>
                \A k \in DOMAIN req[i].calls \cap DOMAIN Results(req, i) :
                    Results(req, i)[k].of \in {req[i].calls[k].of, Interrupted}

(* MessageRewriter may cut the reply whose calls were just run, and its      *)
(* results are then dropped as orphans.  With fewer calls than the window    *)
(* holds messages the next request ends with the results, all of them.       *)
LastRoundReported ==
    Asked /\ Len(ran) < window => LET req == Request IN
        /\ Len(req) > Len(ran)
        /\ \A k \in DOMAIN ran : req[Len(req) - Len(ran) + k].of = ran[k]

(* tryFastPath lets through only what the slow path would not change, and    *)
(* normalising twice is normalising once.                                    *)
NormalizeStable ==
    Asked => LET req == Request IN NormalizeMessages(req) = req /\ SlowPath(req) = req

\* Every started call was started under an id, and no other call has it.
Identified ==
    /\ \A k \in DOMAIN toolCalls : toolCalls[k].id = acc[toolCalls[k].of[3]].id /\ toolCalls[k].id # ""
    /\ \A i, j \in DOMAIN acc : FinalId(i) = FinalId(j) => i = j

(* When the provider gives every call an id, no two the same, and each no    *)
(* later than the name, a reply that ends with a finish reason has every     *)
(* named call with all the arguments that came for it.                       *)
ArgumentsKept ==
    [][Finish /\ Identified =>
        \A k \in DOMAIN toolCalls :
            Last(msgs').calls[k] = [toolCalls[k] EXCEPT !.args = acc[toolCalls[k].of[3]].args]]_vars
=============================================================================
