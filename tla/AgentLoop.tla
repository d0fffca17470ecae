------------------------------ MODULE AgentLoop ------------------------------
(***************************************************************************)
(* One session's turns as the agent loop runs them: the opening row, the   *)
(* iterations of a turn, the request each one sends, the batch of tool     *)
(* calls it may answer with, steering, and the rows all of this leaves in  *)
(* the session store                                                       *)
(* (crates/agent: agent_loop.rs, dispatch.rs, history_window.rs,           *)
(* length_cut.rs, steering.rs; crates/core: session_store.rs, history.rs). *)
(*                                                                         *)
(* The transport that starts turns, one at a time, is seen from the loop:  *)
(* it opens the steering queue, hands the loop a message or the question   *)
(* of a cut history, and takes back what was never read.  Everything the   *)
(* loop cannot foresee is a choice: the completion, the permissions read   *)
(* before each call, what a tool answers, a stop, a failed write, a crash. *)
(***************************************************************************)
EXTENDS Integers, FiniteSets, Sequences, SequencesExt, FiniteSetsExt

CONSTANTS
    Messages,       \* what users send, each once
    Batches,        \* the sequences of tools a completion may call
    Reads,          \* the tools whose risk is safe: they may run side by side
    Delegates,      \* the tools that run another agent's turn
    Cap,            \* DEFAULT_MAX_HISTORY_MESSAGES
    Budget,         \* the rows the history may take: history_budget, a row costing one
    MaxParallel,    \* MAX_PARALLEL_TOOL_CALLS
    MaxIterations,  \* max_tool_iterations
    None,           \* no message
    MaxFaults       \* bound: failed writes, crashes, rewinds

Tools == UNION {ToSet(b) : b \in Batches}

ASSUME LoopAssumption ==
    /\ {Cap, Budget, MaxParallel, MaxIterations} \subseteq Nat \ {0}
    /\ MaxFaults \in Nat
    /\ None \notin Messages
    /\ Batches \subseteq Seq(Tools)
    /\ \A b \in Batches : Len(b) > 0

VARIABLES
    rows,       \* the stored rows of the session, oldest first
    unsent,     \* messages nobody has sent yet
    waiting,    \* the transport's queue
    steering,   \* the steering queue of the turn
    lost,       \* messages a crash, a rewind or a refused turn took
    token,      \* whether the turn has been told to stop
    turn,       \* the turn in hand
    faults

vars == <<rows, unsent, waiting, steering, lost, token, turn, faults>>

\* What a model may answer: calls, of which only those that parsed are looked
\* at; an answer; a call written out as text; or nothing but calls cut at the
\* token limit, with text beside them or without.
Answers     == {"answer", "written", "cutText", "cut"}
Completions == [kind : {"calls"}, calls : Batches] \cup [kind : Answers, calls : {<<>>}]

\* TurnState and TurnContext, with the batch dispatch is working on.
Idle ==
    [at |-> "idle", id |-> 0, message |-> None, again |-> FALSE, first |-> 0, iteration |-> 0,
     corrected |-> FALSE, spent |-> 0, pending |-> 0, sent |-> 1, asked |-> 0, heard |-> 0,
     stop |-> "none", answer |-> [kind |-> "cut", calls |-> <<>>],
     next |-> 1, flying |-> {}, landed |-> <<>>, results |-> <<>>,
     cancelled |-> FALSE, gone |-> FALSE]

Init ==
    /\ rows = <<>> /\ unsent = Messages /\ waiting = <<>> /\ steering = <<>>
    /\ lost = {} /\ token = FALSE /\ turn = Idle /\ faults = 0

-----------------------------------------------------------------------------
\* Rows

User(m, steer) == [role |-> "user", of |-> turn.id, message |-> m, steer |-> steer]
Assistant(n)   == [role |-> "assistant", of |-> turn.id, calls |-> n, cost |-> turn.pending]
Result(i)      == [role |-> "tool", of |-> turn.id, call |-> i]

IsUser(r) == r.role = "user"
Written   == {rows[i].message : i \in {j \in DOMAIN rows : IsUser(rows[j])}}

\* The calls one pass over a history knows of after row r; a result that lacks
\* its call makes it start again.  Call ids come from the model and repeat from
\* one completion to the next.
LegalPass(known, r) ==
    CASE r.role = "assistant" -> known \cup (1 .. r.calls)
      [] r.role = "tool"      -> IF r.call \in known THEN known ELSE {}
      [] OTHER                -> known

\* How many rows to drop from the front so that no result lacks its call.
LegalStart(s) ==
    LET known[n \in 0 .. Len(s)] == IF n = 0 THEN {} ELSE LegalPass(known[n - 1], s[n])
        orphans == {n \in DOMAIN s : s[n].role = "tool" /\ s[n].call \notin known[n - 1]}
    IN  Max({0} \cup orphans)

\* The largest cut at or below n that leaves no call unanswered (legal_seq).
Answered(s, i) == \A c \in 1 .. s[i].calls : \E j \in i + 1 .. Len(s) : s[j].role = "tool" /\ s[j].call = c
LegalEnd(n) ==
    LET good(k) == \A i \in 1 .. k : rows[i].role = "assistant" => Answered(SubSeq(rows, 1, k), i)
    IN  Max({k \in 0 .. n : good(k)})

-----------------------------------------------------------------------------
\* The window a request carries

\* The newest Cap rows, from the first user row among them, legally.
HistoryStart ==
    LET low   == Max({1, Len(rows) - Cap + 1})
        users == {i \in low .. Len(rows) : IsUser(rows[i])}
        start == IF users = {} THEN low ELSE Min(users)
    IN  start + LegalStart(SubSeq(rows, start, Len(rows)))

OpensTurn(low, i) == IsUser(rows[i]) /\ (i = low \/ rows[i - 1].of # rows[i].of)

\* Slip: The budget cuts at any user row, and a turn's own opening is no floor.
WindowAnywhere(first) ==
    LET fits == {i \in HistoryStart .. Len(rows) : Len(rows) - i + 1 <= Budget}
    IN  Min(fits \cup {Len(rows)})

\* Older turns are added whole, newest first, while the budget holds them.
WindowStart(first) ==
    LET low  == HistoryStart
        fits == {i \in low .. first - 1 : OpensTurn(low, i) /\ Len(rows) - i + 1 <= Budget}
        cut  == Min(fits \cup {first})
    IN  IF first < low \/ cut = low THEN low
        ELSE cut + LegalStart(SubSeq(rows, cut, Len(rows)))

-----------------------------------------------------------------------------
\* How a turn goes on and how it ends

Goes(at)   == turn' = [turn EXCEPT !.at = at]
Ends(stop) == turn' = [turn EXCEPT !.at = "close", !.stop = stop]

\* The turn with no completion in hand.
NoBatch == [turn EXCEPT !.answer = Idle.answer, !.next = 1, !.flying = {}, !.landed = <<>>,
                        !.results = <<>>, !.cancelled = FALSE, !.gone = FALSE]

\* A failed store call ends the turn with an error and no turn.end.
Broken == turn' = [NoBatch EXCEPT !.at = "ended", !.stop = "broken"]
Fault  == faults < MaxFaults /\ faults' = faults + 1

At(phase) == turn.at = phase

\* The message of a turn that has not written it.
InHand == IF At("open") THEN {turn.message} \ {None} ELSE {}

\* Rows of one step land in one transaction, and its figures on the first.
WriteStep(added) == rows' = rows \o added

-----------------------------------------------------------------------------
\* The transport

Runs(m, steer, first) ==
    turn' = [Idle EXCEPT !.at = "open", !.id = turn.id + 1, !.message = m,
                         !.again = steer, !.first = first]

Start(m) ==
    /\ At("idle")
    /\ \/ waiting # <<>> /\ m = Head(waiting) /\ waiting' = Tail(waiting) /\ UNCHANGED unsent
       \/ waiting = <<>> /\ m \in unsent /\ unsent' = unsent \ {m} /\ UNCHANGED waiting
    /\ Runs(m, FALSE, 0)
    /\ UNCHANGED <<rows, steering, lost, token, faults>>

\* A regenerate: the row at i and what follows goes, the cut legal; then the
\* question is asked again, or the loop carries on from what is left.
Rewind(i) ==
    /\ At("idle") /\ Fault
    /\ rows[i].role # "tool"
    /\ LET kept == SubSeq(rows, 1, LegalEnd(i - 1))
           cut  == {rows[j].message : j \in {k \in Len(kept) + 1 .. Len(rows) : IsUser(rows[k])}}
           asks == {j \in DOMAIN kept : IsUser(kept[j]) /\ ~kept[j].steer}
       IN  /\ rows' = kept
           /\ IF IsUser(rows[i])
                THEN Runs(rows[i].message, rows[i].steer, 0) /\ lost' = lost \cup (cut \ {rows[i].message})
                ELSE asks # {} /\ Runs(None, FALSE, Max(asks)) /\ lost' = lost \cup cut
    /\ UNCHANGED <<unsent, waiting, steering, token>>

Steer(m) ==
    /\ ~At("idle") /\ m \in unsent
    /\ unsent' = unsent \ {m} /\ steering' = Append(steering, m)
    /\ UNCHANGED <<rows, waiting, lost, token, turn, faults>>

Stop ==
    /\ ~At("idle") /\ ~token /\ token' = TRUE
    /\ UNCHANGED <<rows, unsent, waiting, steering, lost, turn, faults>>

\* The turn's task is done: what was steered and never read runs next.
CloseQueue ==
    /\ At("ended")
    /\ waiting' = steering \o waiting /\ steering' = <<>>
    /\ token' = FALSE /\ turn' = [Idle EXCEPT !.id = turn.id]
    /\ UNCHANGED <<rows, unsent, lost, faults>>

Crash ==
    /\ ~At("idle") /\ Fault
    /\ lost' = lost \cup ((ToSet(waiting) \cup ToSet(steering) \cup InHand) \ Written)
    /\ waiting' = <<>> /\ steering' = <<>> /\ token' = FALSE
    /\ turn' = [Idle EXCEPT !.id = turn.id]
    /\ UNCHANGED <<rows, unsent>>

-----------------------------------------------------------------------------
\* The turn

\* A continuation answers a question already in history and writes none.  A
\* store call may fail before the question is written, or after it, where the
\* session is given its name.
Open ==
    /\ At("open")
    /\ \/ /\ turn.message = None /\ Goes("top")
          /\ UNCHANGED <<rows, lost, faults>>
       \/ /\ turn.message # None
          /\ WriteStep(<<User(turn.message, turn.again)>>)
          /\ turn' = [turn EXCEPT !.at = "top", !.first = Len(rows) + 1]
          /\ UNCHANGED <<lost, faults>>
       \/ /\ Fault /\ Broken
          /\ lost' = lost \cup InHand
          /\ UNCHANGED rows
       \/ /\ turn.message # None
          /\ WriteStep(<<User(turn.message, turn.again)>>)
          /\ Fault /\ Broken
          /\ UNCHANGED lost
    /\ UNCHANGED <<unsent, waiting, steering, token>>

\* The stop checks; the wall clock may have run out at any of them.
Top ==
    /\ At("top")
    /\ \/ turn.iteration >= MaxIterations /\ Ends("iterations")
       \/ turn.iteration < MaxIterations /\ token /\ Ends("aborted")
       \/ turn.iteration < MaxIterations /\ ~token /\ (Ends("timeout") \/ Goes("drain"))
    /\ UNCHANGED <<rows, unsent, waiting, steering, lost, token, faults>>

\* Slip: The steer is popped before its write is known to have landed.
DrainEagerly ==
    /\ At("drain") /\ steering # <<>>
    /\ \/ WriteStep(<<User(Head(steering), TRUE)>>) /\ UNCHANGED <<turn, faults>>
       \/ Fault /\ Broken /\ UNCHANGED rows
    /\ steering' = Tail(steering)
    /\ UNCHANGED <<unsent, waiting, lost, token>>

\* A steer is written, then popped: a failed write leaves it queued.
Drain ==
    /\ At("drain") /\ steering # <<>>
    /\ \/ WriteStep(<<User(Head(steering), TRUE)>>) /\ Goes("pop") /\ UNCHANGED faults
       \/ Fault /\ Broken /\ UNCHANGED rows
    /\ UNCHANGED <<unsent, waiting, steering, lost, token>>

Pop ==
    /\ At("pop")
    /\ steering' = Tail(steering) /\ Goes("drain")
    /\ UNCHANGED <<rows, unsent, waiting, lost, token, faults>>

\* Slip: The wall clock is looked at after the steers were written.
RequestUnlessLate ==
    /\ At("drain") /\ steering = <<>>
    /\ \/ Ends("timeout")
       \/ turn' = [turn EXCEPT !.at = "stream", !.iteration = @ + 1,
                               !.sent = WindowStart(turn.first), !.asked = Len(rows)]
    /\ UNCHANGED <<rows, unsent, waiting, steering, lost, token, faults>>

\* The history is read again and windowed for every request, which a stop
\* may still keep from being sent.
Request ==
    /\ At("drain") /\ steering = <<>>
    /\ \/ /\ turn' = [turn EXCEPT !.at = "stream", !.iteration = @ + 1,
                                  !.sent = WindowStart(turn.first), !.asked = Len(rows)]
          /\ UNCHANGED faults
       \/ Fault /\ Broken
    /\ UNCHANGED <<rows, unsent, waiting, steering, lost, token>>

\* Slip: The figures of a call that wrote nothing are overwritten by the next.
NoteStepFresh == [turn EXCEPT !.spent = @ + 1, !.pending = 1, !.heard = turn.asked]

\* The request was answered; its figures wait for the next rows written.
NoteStep == [turn EXCEPT !.spent = @ + 1, !.pending = @ + 1, !.heard = turn.asked]

\* A batch as dispatch begins on it.
Begun(t, c) ==
    [t EXCEPT !.at = "batch", !.answer = c, !.next = 1, !.flying = {}, !.landed = <<>>,
              !.results = <<>>, !.cancelled = token, !.gone = FALSE]

\* Calls that were cut are dropped; those that parsed run.
Reply(c) ==
    /\ At("stream")
    /\ turn' = CASE c.kind = "calls" -> Begun(NoteStep, c)
                 [] c.kind = "cut"   -> [NoteStep EXCEPT !.at = "top"]
                 [] OTHER            -> [NoteStep EXCEPT !.at = "answer", !.answer = c]
    /\ UNCHANGED <<rows, unsent, waiting, steering, lost, token, faults>>

StreamStops ==
    /\ At("stream")
    /\ (token /\ Ends("aborted")) \/ Ends("error")
    /\ UNCHANGED <<rows, unsent, waiting, steering, lost, token, faults>>

\* Text beside cut calls is kept and the model asked again; a call written as
\* text is corrected once; an answer ends the turn unless a steer waits.
Finish ==
    /\ At("answer")
    /\ \/ LET stays == \/ turn.answer.kind = "cutText"
                       \/ turn.answer.kind = "written" /\ ~turn.corrected
                       \/ steering # <<>> /\ turn.iteration < MaxIterations
          IN  /\ WriteStep(<<Assistant(0)>>)
              /\ turn' = [NoBatch EXCEPT !.pending = 0,
                            !.corrected = @ \/ turn.answer.kind = "written",
                            !.at = IF stays THEN "top" ELSE "close",
                            !.stop = IF stays THEN @ ELSE "complete"]
              /\ UNCHANGED faults
       \/ Fault /\ Broken /\ UNCHANGED rows
    /\ UNCHANGED <<unsent, waiting, steering, lost, token>>

-----------------------------------------------------------------------------
\* The batch

Calls == turn.answer.calls
Rest  == turn.next .. Len(Calls)

\* The run of calls in front that may be in flight together, or the first
\* alone.  A delegation is never one of them.
Eligible(i, allowed) == Calls[i] \in (Reads \cap allowed) \ Delegates
NextGroup(allowed) ==
    LET runs == {n \in 1 .. Min({MaxParallel, Len(Calls) - turn.next + 1}) :
                    \A i \in turn.next .. turn.next + n - 1 : Eligible(i, allowed)}
    IN  turn.next .. turn.next + Max(runs \cup {1}) - 1

Ascending(S) ==
    CHOOSE f \in [1 .. Cardinality(S) -> S] : \A i, j \in DOMAIN f : i < j => f[i] < f[j]
Answer(t, S) == [t EXCEPT !.results = @ \o Ascending(S)]

BatchOnly == UNCHANGED <<rows, unsent, waiting, steering, lost, token, faults>>

\* The agent no longer resolves: every call left is answered, none runs.
RefuseRest ==
    /\ At("batch") /\ turn.flying = {} /\ Rest # {}
    /\ turn' = [Answer(turn, Rest) EXCEPT !.gone = TRUE, !.next = Len(Calls) + 1, !.at = "write"]
    /\ BatchOnly

\* The settings are read before each group: `allowed` runs unasked, `denied`
\* is answered, the rest is asked about.
Dispatch(allowed, denied) ==
    /\ At("batch") /\ turn.flying = {} /\ Rest # {}
    /\ LET group == NextGroup(allowed)
           call  == Calls[turn.next]
           t     == [turn EXCEPT !.cancelled = @ \/ token, !.next = Max(group) + 1]
       IN  turn' = IF t.cancelled \/ call \in denied THEN Answer(t, group)
                   ELSE [t EXCEPT !.flying = group, !.landed = <<>>,
                                  !.at = IF call \in allowed THEN "batch" ELSE "asking"]
    /\ BatchOnly

\* An approval: given, refused or timed out, or cut short by a stop.
Decide ==
    /\ At("asking")
    /\ \/ Goes("batch")
       \/ turn' = [Answer(turn, turn.flying) EXCEPT !.at = "batch", !.flying = {}]
       \/ /\ token
          /\ turn' = [Answer(turn, turn.flying) EXCEPT !.at = "batch", !.flying = {}, !.cancelled = TRUE]
    /\ BatchOnly

\* Slip: The results of a group are stored in the order they landed.
LandUnsorted(i) ==
    /\ At("batch") /\ i \in turn.flying
    /\ LET t == [turn EXCEPT !.flying = @ \ {i}, !.landed = Append(@, i)]
       IN  turn' = IF t.flying = {} THEN [t EXCEPT !.results = @ \o t.landed] ELSE t
    /\ BatchOnly

\* Slip: Once one call of a group was cut short the others are not waited for.
LandUntilStopped(i) ==
    /\ ~turn.cancelled
    /\ At("batch") /\ i \in turn.flying
    /\ \E aborted \in {FALSE} \cup (IF token THEN {TRUE} ELSE {}) :
         LET t == [turn EXCEPT !.flying = @ \ {i}, !.landed = Append(@, i),
                               !.cancelled = @ \/ aborted]
         IN  turn' = IF t.flying = {} THEN Answer(t, ToSet(t.landed)) ELSE t
    /\ BatchOnly

\* A call in flight ends.  Only a tool reports a stop as one: a delegation
\* that was stopped answers that it was cut short.
Land(i) ==
    /\ At("batch") /\ i \in turn.flying
    /\ \E aborted \in {FALSE} \cup (IF token /\ Calls[i] \notin Delegates THEN {TRUE} ELSE {}) :
         LET t == [turn EXCEPT !.flying = @ \ {i}, !.landed = Append(@, i),
                               !.cancelled = @ \/ aborted]
         IN  turn' = IF t.flying = {} THEN [Answer(t, ToSet(t.landed)) EXCEPT !.landed = <<>>] ELSE t
    /\ BatchOnly

\* A delegation's session cannot be created: the turn fails, its batch unwritten.
DelegationFails(i) ==
    /\ At("batch") /\ i \in turn.flying /\ Calls[i] \in Delegates
    /\ Fault /\ Broken
    /\ UNCHANGED <<rows, unsent, waiting, steering, lost, token>>

\* The assistant row and one row per call, together.
RunTools ==
    /\ At("write") \/ (At("batch") /\ turn.flying = {} /\ Rest = {})
    /\ \/ /\ WriteStep(<<Assistant(Len(Calls))>> \o [k \in DOMAIN turn.results |-> Result(turn.results[k])])
          /\ LET t == [NoBatch EXCEPT !.pending = 0]
             IN  turn' = IF turn.cancelled \/ turn.gone
                           THEN [t EXCEPT !.at = "close", !.stop = "aborted"]
                           ELSE [t EXCEPT !.at = "top"]
          /\ UNCHANGED faults
       \/ Fault /\ Broken /\ UNCHANGED rows
    /\ UNCHANGED <<unsent, waiting, steering, lost, token>>

\* A turn that ran out of iterations or time says so in its history.
Close ==
    /\ At("close")
    /\ \/ /\ turn.stop \in {"iterations", "timeout"}
          /\ \/ /\ WriteStep(<<Assistant(0)>>)
                /\ turn' = [turn EXCEPT !.at = "ended", !.pending = 0]
                /\ UNCHANGED faults
             \/ Fault /\ Broken /\ UNCHANGED rows
       \/ /\ turn.stop \notin {"iterations", "timeout"}
          /\ Goes("ended") /\ UNCHANGED <<rows, faults>>
    /\ UNCHANGED <<unsent, waiting, steering, lost, token>>

-----------------------------------------------------------------------------
\* What the turn does by itself.
OwnStep ==
    \/ Open \/ Top \/ Drain \/ Pop \/ Request
    \/ Finish \/ RefuseRest
    \/ \E allowed \in SUBSET Tools : \E denied \in SUBSET (Tools \ allowed) : Dispatch(allowed, denied)
    \/ RunTools \/ Close

\* What it waits for: the model, a person, a tool, another agent.
AwaitedStep ==
    \/ StreamStops
    \/ \E c \in Completions : Reply(c)
    \/ Decide
    \/ \E i \in turn.flying : Land(i)

LoopStep == OwnStep \/ AwaitedStep \/ \E i \in turn.flying : DelegationFails(i)

Next ==
    \/ \E m \in Messages : Start(m)
    \/ \E i \in DOMAIN rows : Rewind(i)
    \/ \E m \in Messages : Steer(m)
    \/ Stop \/ CloseQueue \/ Crash
    \/ LoopStep

Spec == Init /\ [][Next]_vars

\* The turn's task is scheduled, and each of its waits is select!ed against
\* the token.  Until a stop nothing is owed: by default a tool has no time
\* limit, a prompt's can be switched off, and a stream may go on and on.
Fairness == WF_vars(OwnStep) /\ WF_vars(token /\ AwaitedStep) /\ WF_vars(CloseQueue)

FairSpec == Spec /\ Fairness

-----------------------------------------------------------------------------
\* Properties

\* What is stored is always a history a provider accepts: after every
\* assistant row come the results of its calls, each one, in the order they
\* were asked for, and there is no other result; whatever was stopped, failed,
\* landed out of order, was rewound or died on the way.
HistoryIsLegal ==
    \A i \in DOMAIN rows :
        /\ rows[i].role = "assistant" =>
             \A c \in 1 .. rows[i].calls :
                i + c \in DOMAIN rows /\ rows[i + c].role = "tool" /\ rows[i + c].call = c
        /\ rows[i].role = "tool" =>
             LET a == i - rows[i].call
             IN  a \in DOMAIN rows /\ rows[a].role = "assistant" /\ rows[i].call <= rows[a].calls

\* What is sent is legal however the two limits cut it: no result without its
\* call and no call without its result; the question being answered is in it
\* while it is among the newest rows, and older turns only if all of it fits.
\* It is empty only after a batch so long that the newest rows are all results.
RequestIsLegal ==
    At("stream") =>
        LET sent == SubSeq(rows, turn.sent, turn.asked)
        IN  /\ sent = <<>> =>
                 \A i \in Max({1, turn.asked - Cap + 1}) .. turn.asked : rows[i].role = "tool"
            /\ LegalStart(sent) = 0
            /\ \A i \in DOMAIN sent : sent[i].role = "assistant" => Answered(sent, i)
            /\ turn.first > turn.asked - Cap => turn.sent <= turn.first
            /\ turn.sent < turn.first => Len(sent) <= Budget

\* Every message is in one place: to come, queued, steered, in hand, in
\* history, or reported lost.  A steer is never written twice, never both
\* written and handed back, and never dropped between the two.
Count(s, m) == Cardinality({i \in DOMAIN s : s[i] = m})
MessagesOnce ==
    \A m \in Messages :
        LET written == Cardinality({i \in DOMAIN rows : IsUser(rows[i]) /\ rows[i].message = m})
            popping == IF At("pop") /\ Head(steering) = m THEN 1 ELSE 0
            set(S)  == IF m \in S THEN 1 ELSE 0
        IN  set(unsent) + set(lost) + set(InHand) + Count(waiting, m)
                + Count(steering, m) + written - popping = 1

\* The figures on a turn's rows and those still to be written sum to what the
\* turn's requests reported, also when a call left no row of its own; a turn
\* that ends without an error or a stop has them all on its rows.
Cost(r) == IF r.role = "assistant" /\ r.of = turn.id THEN r.cost ELSE 0
Stored ==
    LET sum[n \in 0 .. Len(rows)] == IF n = 0 THEN 0 ELSE sum[n - 1] + Cost(rows[n])
    IN  sum[Len(rows)]
StepsSumToTurn ==
    /\ ~At("idle") /\ turn.stop # "broken" => Stored + turn.pending = turn.spent
    /\ At("ended") /\ turn.stop \in {"complete", "iterations", "timeout"} => turn.pending = 0

\* A turn that ends with an answer, or because its iterations or its time ran
\* out, has had the model's answer to every steer it put into history: one it
\* would not answer is left for the next turn.  Only a stop, or a request that
\* fails, can come between a steer and its answer.
SteersAreAnswered ==
    At("ended") /\ turn.stop \in {"complete", "iterations", "timeout"} =>
        \A i \in DOMAIN rows :
            rows[i].of = turn.id /\ IsUser(rows[i]) /\ i # turn.first => i <= turn.heard

\* The same of a turn that was stopped.  It does not hold: a stop
\* that falls between the check and the request leaves a steer in history that
\* the model was never sent (LoopStopped.cfg).
EverySteerIsAnswered ==
    At("ended") /\ turn.stop \notin {"broken", "error"} =>
        \A i \in DOMAIN rows :
            rows[i].of = turn.id /\ IsUser(rows[i]) /\ i # turn.first => i <= turn.heard

\* A turn that is told to stop ends, whatever it waits for and whatever comes
\* of it: a call of a group that was cut short does not keep the others open.
StoppedTurnEnds == token ~> At("idle")

=============================================================================
