------------------------------- MODULE Replay -------------------------------
(***************************************************************************)
(* One session's stream of events and the web pages that follow it: the    *)
(* ring and the log of the running turn the hub keeps                      *)
(* (src/crates/server/src/replay.rs, turn_log.rs, resume and emit of       *)
(* hub.rs), and the page's cursor and transcript                           *)
(* (src/packages/web/src: lib/connection.ts, state/turn.ts,                *)
(* state/transcript/live.ts, chat/use-connection.ts).  Of the rows that    *)
(* storage holds the model has only when a turn's last one was written and *)
(* when a page asks for them: a turn's rows go in step by step, and what a *)
(* request brings, and when, and whether, is not this module's.            *)
(*                                                                         *)
(* A frame's payload is the set of pieces it carries: piece <<t, i>> is    *)
(* the i-th thing turn t said, <<t, 0>> its ending.  A frame of no turn (a *)
(* status) carries none.  Sizes are counted in units: one for the frame,   *)
(* and what its kind adds.                                                 *)
(***************************************************************************)
EXTENDS Naturals, Sequences, FiniteSets, SequencesExt

CONSTANTS
  Pages,       \* web pages that open the session
  RingFrames,  \* DEFAULT_REPLAY_FRAMES
  RingBytes,   \* MAX_REPLAY_BYTES
  LogBytes,    \* DEFAULT_TURN_LOG_BYTES
  LiveBytes,   \* DEFAULT_MAX_BUFFERED_BYTES, of one connection
  MaxTurns,    \* bound: turns of this instance
  Script,      \* bound: turn -> the kinds of frame it may say, in order
  MaxSeq,      \* bound: the counter, for frames of no turn
  MaxForgets,  \* bound: times the server forgets the session
  Inputs       \* "evict", "restart"

ASSUME ReplayAssumption ==
  /\ RingFrames \in Nat /\ RingBytes \in Nat /\ LogBytes \in Nat
  /\ LiveBytes \in Nat
  /\ MaxTurns \in Nat /\ MaxSeq \in Nat
  /\ Script \in [1..MaxTurns -> Seq({"text", "call"})]
  /\ MaxForgets \in Nat

Turns  == 1..MaxTurns
Pieces == Turns \X Nat

Kinds == {"start", "text", "call", "end", "status"}
Frame == [type : {"event"}, kind : Kinds, seq : Nat, turn : 0..MaxTurns,
          pieces : SUBSET Pieces]

VARIABLES
  seq,        \* SessionState.seq
  ring,       \* ReplayBuffer.entries
  lastAppended, \* ReplayBuffer.last_appended_seq
  turnLog,    \* TurnLog: the open turn, whether it is retained, its frames
  clients,    \* pages attached to the session
  turns,      \* turns started so far
  open,       \* the last of them is running
  said,       \* turn -> pieces it has said, its ending aside
  stored,     \* turns whose last row is written
  lost,       \* turns a restart cut short
  epoch,      \* times the server has forgotten the session
  link,       \* page -> its socket: down, greeted, live
  asked,      \* page -> the session.resume it opened with: lastSeq, its epoch
  pipe,       \* page -> frames on their way to it
  cursor,     \* page -> lastSeq, the last frame it applied
  held,       \* page -> pieces frames have brought, and it has not dropped
  sought,     \* page -> turns stored whole when it last asked for the rows
  earned,     \* page -> the epoch a frame or a replay last set its cursor in
  patchy,     \* page -> turns it kept although pieces of them are missing
  torn,       \* pages whose socket dropped halfway through their replay
  owing       \* pages told "complete" for a cursor of another epoch

serverVars == <<seq, ring, lastAppended, turnLog>>
turnVars   == <<turns, open, said, stored, lost>>
pageVars   == <<cursor, held, sought, earned, patchy, torn, owing>>
vars == <<serverVars, clients, turnVars, epoch, link, asked, pipe, pageVars>>

-----------------------------------------------------------------------------
(* The ring *)

Payload(kind) == CASE kind = "text" -> 1 [] kind = "call" -> 3 [] OTHER -> 0

\* A merged delta weighs what its parts weigh.
Size(f) == IF f.kind = "text" THEN 1 + Cardinality(f.pieces)
           ELSE 1 + Payload(f.kind)

Bytes(frames) == FoldLeft(LAMBDA n, f : n + Size(f), 0, frames)

Fits(entries) == Len(entries) <= RingFrames /\ Bytes(entries) <= RingBytes

From(entries, k) == SubSeq(entries, k, Len(entries))

\* Slip: a full ring keeps what it has.
PushUntilFull(f) ==
  /\ lastAppended' = f.seq
  /\ ring' = IF Fits(Append(ring, f)) THEN Append(ring, f) ELSE ring

\* push: the oldest go until both limits hold, the new one too if it must.
\* With no room at all nothing is kept.
PushRing(f) ==
  /\ lastAppended' = f.seq
  /\ LET all == Append(ring, f) IN
     \E k \in 1..(Len(all) + 1) :
       /\ Fits(From(all, k))
       /\ \A j \in 1..(k - 1) : ~Fits(From(all, j))
       /\ ring' = From(all, k)

\* Slip: any retained frame past the cursor will do.
CoversLoosely(last) ==
  IF last >= lastAppended THEN last = lastAppended
  ELSE \E i \in 1..Len(ring) : ring[i].seq > last

\* Does the ring hold everything after last?  Equal: nothing was missed.
\* Greater: a number this ring never gave out.
Covers(last) ==
  IF last >= lastAppended THEN last = lastAppended
  ELSE \E i \in 1..Len(ring) :
         /\ ring[i].seq = last + 1
         /\ \A j \in 1..(i - 1) : ring[j].seq <= last

\* Slip: the frame the page already has is sent again.
AfterOrAt(last) == SelectSeq(ring, LAMBDA f : f.seq >= last)

\* after: the retained frames past last, in order.
After(last) ==
  LET kept[n \in 0..Len(ring)] ==
        IF n = 0 THEN <<>>
        ELSE IF ring[n].seq > last THEN Append(kept[n - 1], ring[n])
        ELSE kept[n - 1]
  IN  kept[Len(ring)]

-----------------------------------------------------------------------------
(* The log of the running turn *)

NoLog == [turn |-> 0, retaining |-> FALSE, entries |-> <<>>, bytes |-> 0]

Overhead == 1

\* charge: a log past its budget keeps nothing more of this turn.
Charged(log, n) ==
  IF log.bytes + n > LogBytes
    THEN [log EXCEPT !.retaining = FALSE, !.entries = <<>>, !.bytes = 0]
    ELSE [log EXCEPT !.bytes = @ + n]

\* A delta joins the delta before it, under the later number.
Joined(g, f) == [g EXCEPT !.seq = f.seq, !.pieces = @ \cup f.pieces]

\* append: of two deltas one entry, of anything else its own.
Appended(log, f) ==
  IF f.kind = "text" /\ log.entries # <<>> /\ Last(log.entries).kind = "text"
    THEN Charged([log EXCEPT !.entries[Len(log.entries)] = Joined(Last(log.entries), f)],
                 Payload("text"))
    ELSE Charged([log EXCEPT !.entries = Append(@, f)],
                 Payload(f.kind) + Overhead)

\* TurnLog.push: a start begins, the open turn's end clears, and of what is
\* between only the open turn's own frames are kept.
Logged(log, f) ==
  CASE f.kind = "start" ->
         LET begun == [NoLog EXCEPT !.turn = f.turn, !.retaining = LogBytes > 0]
         IN IF begun.retaining THEN Appended(begun, f) ELSE begun
    [] f.kind = "end" /\ f.turn = log.turn -> NoLog
    [] f.kind \in {"text", "call"} /\ log.retaining /\ f.turn = log.turn ->
         Appended(log, f)
    [] OTHER -> log

LogIsWhole == turnLog.turn # 0 /\ turnLog.retaining

-----------------------------------------------------------------------------
(* What the server sends *)

\* A frame on its way to a page: live counts against the live budget, epoch
\* is the count that its number stands for having seen.
Event(f, live) ==
  [type |-> "event", kind |-> f.kind, seq |-> f.seq, turn |-> f.turn,
   pieces |-> f.pieces, live |-> live, epoch |-> epoch]

\* What counts against a connection's live budget, not yet on its socket.
Buffered(frames) ==
  Bytes(SelectSeq(frames, LAMBDA f : f.type = "event" /\ f.live))

StatusAt(n) ==
  [type |-> "event", kind |-> "status", seq |-> n, turn |-> 0, pieces |-> {}]

Behind(p, f) == Buffered(pipe[p]) + Size(f) > LiveBytes

\* send_to_session: a page that has fallen too far behind is sent a close
\* instead, and detached.
SendToSession(f) ==
  /\ pipe' = [p \in Pages |->
       IF p \notin clients THEN pipe[p]
       ELSE IF Behind(p, f) THEN Append(pipe[p], [type |-> "close"])
       ELSE Append(pipe[p], Event(f, TRUE))]
  /\ clients' = {p \in clients : ~Behind(p, f)}

\* emit: one lock numbers the frame, logs it, keeps it and sends it.
Emit(kind, t, pieces) ==
  LET f == [type |-> "event", kind |-> kind, seq |-> seq + 1, turn |-> t,
            pieces |-> pieces]
  IN
  /\ seq' = seq + 1
  /\ turnLog' = Logged(turnLog, f)
  /\ PushRing(f)
  /\ SendToSession(f)
  /\ UNCHANGED <<epoch, link, asked, pageVars>>

Init ==
  /\ seq = 0 /\ ring = <<>> /\ lastAppended = 0 /\ turnLog = NoLog
  /\ clients = {}
  /\ turns = 0 /\ open = FALSE /\ said = [t \in Turns |-> 0]
  /\ stored = {} /\ lost = {} /\ epoch = 0
  /\ link = [p \in Pages |-> "down"]
  /\ asked = [p \in Pages |-> [last |-> 0, epoch |-> 0]]
  /\ pipe = [p \in Pages |-> <<>>]
  /\ cursor = [p \in Pages |-> 0]
  /\ held = [p \in Pages |-> {}]
  /\ sought = [p \in Pages |-> {}]
  /\ earned = [p \in Pages |-> 0]
  /\ patchy = [p \in Pages |-> {}]
  /\ torn = {} /\ owing = {}

-----------------------------------------------------------------------------
(* The session's turns, as the agent's loop drives them *)

TurnStart ==
  /\ ~open /\ turns < MaxTurns
  /\ turns' = turns + 1 /\ open' = TRUE
  /\ said' = [said EXCEPT ![turns'] = 1]
  /\ Emit("start", turns', {<<turns', 1>>})
  /\ UNCHANGED <<stored, lost>>

\* A delta, a tool call or its result.
Say ==
  /\ open /\ said[turns] <= Len(Script[turns])
  /\ said' = [said EXCEPT ![turns] = @ + 1]
  /\ Emit(Script[turns][said[turns]], turns, {<<turns, said[turns] + 1>>})
  /\ UNCHANGED <<turns, open, stored, lost>>

\* Each step's rows were written as it ended, the last before turn.end goes out.
TurnEnd ==
  /\ open
  /\ open' = FALSE
  /\ stored' = stored \cup {turns}
  /\ Emit("end", turns, {<<turns, 0>>})
  /\ UNCHANGED <<turns, said, lost>>

\* session.status, approvals.pending, notifications: announced to everyone.
Announce ==
  /\ seq < MaxSeq
  /\ Emit("status", 0, {})
  /\ UNCHANGED turnVars

-----------------------------------------------------------------------------
(* A page joins *)

\* The socket opens: the page asks from its cursor, first thing, and greet
\* sends connected, and the status of a running turn under the number the
\* session has reached.  A page that names its session is attached by the
\* resume, not by this.
Connect(p) ==
  /\ link[p] = "down"
  /\ link' = [link EXCEPT ![p] = "greeted"]
  /\ asked' = [asked EXCEPT ![p] = [last |-> cursor[p], epoch |-> earned[p]]]
  /\ pipe' = [pipe EXCEPT ![p] =
       <<[type |-> "connected", lastSeq |-> seq]>>
         \o IF open THEN <<[Event(StatusAt(seq), TRUE) EXCEPT !.epoch = earned[p]]>>
            ELSE <<>>]
  /\ UNCHANGED <<serverVars, clients, turnVars, epoch, pageVars>>

\* resume: attached and answered under one lock, so no live frame overtakes
\* its replay.
Resume(p) ==
  /\ link[p] = "greeted"
  /\ link' = [link EXCEPT ![p] = "live"]
  /\ clients' = clients \cup {p}
  /\ LET last     == asked[p].last
         complete == last > 0 /\ Covers(last)
         resuming == IF complete \/ ~LogIsWhole THEN 0 ELSE turnLog.turn
         frames   == IF complete THEN After(last)
                     ELSE IF resuming # 0 THEN turnLog.entries ELSE <<>>
     IN
     /\ pipe' = [pipe EXCEPT ![p] =
          Append(@, [type |-> "replay", seq |-> seq, complete |-> complete,
                     resuming |-> resuming, epoch |-> epoch])
            \o [i \in 1..Len(frames) |-> Event(frames[i], FALSE)]]
     /\ owing' = IF complete /\ asked[p].epoch # epoch THEN owing \cup {p}
                 ELSE owing
  /\ UNCHANGED <<serverVars, turnVars, epoch, asked, cursor, held, sought,
                 earned, patchy, torn>>

-----------------------------------------------------------------------------
(* A page applies what arrives *)

Next1(p, type) == pipe[p] # <<>> /\ Head(pipe[p]).type = type

Take(p) == pipe' = [pipe EXCEPT ![p] = Tail(@)]

Of(p, t) == {x \in held[p] : x[1] = t}

Watched(p, t)  == <<t, 1>> \in held[p]
Finished(p, t) == <<t, 0>> \in held[p]

\* The cursor never goes back for a frame.
Advance(p, n, era) ==
  /\ cursor' = [cursor EXCEPT ![p] = IF n > @ THEN n ELSE @]
  /\ earned' = [earned EXCEPT ![p] = IF n >= cursor[p] THEN era ELSE @]

\* apply: the cursor, then the transcript.  A start rebuilds a turn the page
\* did not watch; a finished turn never grows.  At the end of a turn it did not
\* watch the page asks for the rows (refillJoinedTurn).
ApplyEvent(p) ==
  /\ Next1(p, "event")
  /\ LET f == Head(pipe[p])
         joined == ~Watched(p, f.turn)
     IN
     /\ Advance(p, f.seq, f.epoch)
     /\ held' = [held EXCEPT ![p] =
          IF f.kind = "start" /\ joined THEN (@ \ Of(p, f.turn)) \cup f.pieces
          ELSE IF Finished(p, f.turn) THEN @
          ELSE @ \cup f.pieces]
     /\ sought' = [sought EXCEPT ![p] =
          IF f.kind = "start" /\ joined THEN @ \ {f.turn}
          ELSE IF f.kind = "end" /\ joined THEN stored
          ELSE @]
  /\ Take(p)
  /\ UNCHANGED <<serverVars, clients, turnVars, epoch, link, asked, patchy, torn,
                 owing>>

\* A server that restarted counts from zero again.
ApplyConnected(p) ==
  /\ Next1(p, "connected")
  /\ LET last == Head(pipe[p]).lastSeq IN
     cursor' = [cursor EXCEPT ![p] = IF last < @ THEN last ELSE @]
  /\ Take(p)
  /\ UNCHANGED <<serverVars, clients, turnVars, epoch, link, asked, held,
                 sought, earned, patchy, torn, owing>>

\* Not complete: only an unfinished turn stays, unless its frames follow in
\* full, and the page asks for the rows of the rest (mergeStoredHistory).
ApplyReplay(p) ==
  /\ Next1(p, "replay")
  /\ LET r     == Head(pipe[p])
         stays == {x \in held[p] : <<x[1], 0>> \notin held[p] /\ x[1] # r.resuming}
     IN
     /\ Advance(p, r.seq, r.epoch)
     /\ IF r.complete THEN UNCHANGED <<held, sought, patchy, torn, owing>>
        ELSE /\ held' = [held EXCEPT ![p] = stays]
             /\ sought' = [sought EXCEPT ![p] = stored]
             /\ patchy' = [patchy EXCEPT ![p] = {x[1] : x \in stays}]
             /\ torn' = torn \ {p} /\ owing' = owing \ {p}
  /\ Take(p)
  /\ UNCHANGED <<serverVars, clients, turnVars, epoch, link, asked>>

-----------------------------------------------------------------------------
(* Sockets drop, the server forgets *)

\* The page's cursor has gone past frames the replay was still to bring: a
\* status or the replay's own header moved it.
InReplay(p) ==
  LET types == {pipe[p][i].type : i \in 1..Len(pipe[p])} IN
  IF link[p] = "greeted" \/ "replay" \in types
    THEN cursor[p] > asked[p].last
    ELSE \E i \in 1..Len(pipe[p]) : pipe[p][i].type = "event" /\ ~pipe[p][i].live

Unlink(ps) ==
  /\ link' = [p \in Pages |-> IF p \in ps THEN "down" ELSE link[p]]
  /\ pipe' = [p \in Pages |-> IF p \in ps THEN <<>> ELSE pipe[p]]
  /\ clients' = clients \ ps
  /\ torn' = torn \cup {p \in ps : InReplay(p)}

\* The socket drops with whatever was on it, or delivers its close.
Drop(p) ==
  /\ link[p] # "down"
  /\ Unlink({p})
  /\ UNCHANGED <<serverVars, turnVars, epoch, asked, cursor, held, sought,
                 earned, patchy, owing>>

\* The state of a session made again: its counter starts over.
Forgotten ==
  /\ epoch' = epoch + 1
  /\ seq' = 0 /\ ring' = <<>> /\ lastAppended' = 0 /\ turnLog' = NoLog

\* evict: nobody watches and nothing runs.
Evict ==
  /\ "evict" \in Inputs /\ epoch < MaxForgets
  /\ clients = {} /\ ~open
  /\ Forgotten
  /\ UNCHANGED <<clients, turnVars, link, asked, pipe, pageVars>>

\* The server goes and comes back: every socket with it, and the turn that ran.
Restart ==
  /\ "restart" \in Inputs /\ epoch < MaxForgets
  /\ Forgotten
  /\ Unlink(Pages)
  /\ open' = FALSE
  /\ lost' = IF open THEN lost \cup {turns} ELSE lost
  /\ UNCHANGED <<turns, said, stored, asked, cursor, held, sought, earned,
                 patchy, owing>>

PageStep(p) == Resume(p) \/ ApplyEvent(p) \/ ApplyConnected(p) \/ ApplyReplay(p)

Next ==
  \/ TurnStart \/ Say \/ TurnEnd \/ Announce
  \/ \E p \in Pages : PageStep(p) \/ Connect(p) \/ Drop(p)
  \/ Evict \/ Restart

Spec == Init /\ [][Next]_vars

-----------------------------------------------------------------------------
(* Properties *)

Outbound ==
  [type : {"event"}, kind : Kinds, seq : Nat, turn : 0..MaxTurns,
   pieces : SUBSET Pieces, live : BOOLEAN, epoch : Nat]
    \cup [type : {"connected"}, lastSeq : Nat]
    \cup [type : {"replay"}, seq : Nat, complete : BOOLEAN, resuming : 0..MaxTurns,
         epoch : Nat]
    \cup [type : {"close"}]

TypeOK ==
  /\ seq \in Nat /\ lastAppended \in Nat
  /\ ring \in Seq(Frame)
  /\ turnLog \in [turn : 0..MaxTurns, retaining : BOOLEAN,
                  entries : Seq(Frame), bytes : 0..LogBytes]
  /\ clients \subseteq Pages
  /\ turns \in 0..MaxTurns /\ open \in BOOLEAN
  /\ said \in [Turns -> Nat]
  /\ stored \subseteq Turns /\ lost \subseteq Turns
  /\ epoch \in Nat
  /\ link \in [Pages -> {"down", "greeted", "live"}]
  /\ asked \in [Pages -> [last : Nat, epoch : Nat]]
  /\ pipe \in [Pages -> Seq(Outbound)]
  /\ cursor \in [Pages -> Nat]
  /\ held \in [Pages -> SUBSET Pieces]
  /\ sought \in [Pages -> SUBSET Turns]
  /\ earned \in [Pages -> Nat]
  /\ patchy \in [Pages -> SUBSET Turns]
  /\ torn \subseteq Pages /\ owing \subseteq Pages

\* What a turn has said so far, its ending with it.
Content(t) ==
  {<<t, i>> : i \in 1..said[t]} \cup (IF t \in stored THEN {<<t, 0>>} ELSE {})

\* A page that has resumed and read all it was sent.
Settled(p) == p \in clients /\ pipe[p] = <<>>

\* Page p was told all of t, or asked for its rows when the last was written.
\* But a turn that a restart cut short has no last row, and two a page may show
\* in part: one it kept although frames of it are gone (patchy), and one that
\* runs on, joined when its log had overrun.
ToldOrAsked(p, t) ==
  \/ Content(t) \subseteq held[p]
  \/ t \in sought[p]
  \/ t \in lost
  \/ t \in patchy[p]
  \/ t = turns /\ open /\ ~Watched(p, t) /\ ~turnLog.retaining

\* No gap goes unnoticed: what frames did not bring a page that has caught up it
\* knows to ask storage for, whatever dropped, was re-sent, overran a limit or
\* was forgotten (resume, covers, push, emit; refillJoinedTurn).  It does not
\* speak of pages whose socket went down inside a replay, nor of those told
\* "complete" for a number of an earlier count: both do miss frames unnoticed
\* (ReconnectFillsTheGap, RestartIsNoticed).
NoGapUnnoticed ==
  \A p \in Pages : Settled(p) /\ p \notin torn \cup owing =>
    \A t \in 1..turns : ToldOrAsked(p, t)

\* No frame brings a page a piece that frames have brought it already: deltas
\* accumulate, so a piece sent twice is a sentence shown twice (after,
\* TurnLog.append, session.replay).  Of rows it says nothing.
NothingTwice ==
  \A p \in Pages : Next1(p, "event") => Head(pipe[p]).pieces \cap held[p] = {}

\* The numbers in the ring are consecutive and end at the session's counter.
RingIsTail ==
  /\ lastAppended = seq
  /\ \A i \in 1..Len(ring) : ring[i].seq = seq - Len(ring) + i

Retained(n) == \E i \in 1..Len(ring) : ring[i].seq = n

\* covers looks at one frame and speaks for all that follow it: it says yes
\* exactly when every frame after last is still there to send.
CoversIsExact ==
  \A last \in 0..seq : Covers(last) <=> \A n \in (last + 1)..seq : Retained(n)

\* "lastSeq is the last frame the page applied: a reconnect asks for its gap"
\* (docs/api.md): while the server keeps its count no gap goes unnoticed however
\* often a socket drops.
ReconnectFillsTheGap ==
  \A p \in Pages : Settled(p) /\ p \notin owing =>
    \A t \in 1..turns : ToldOrAsked(p, t)

\* "Greater means this client saw a sequence this buffer never emitted - a
\* restart, or another server" (replay.rs): nor when it counts anew.
RestartIsNoticed ==
  \A p \in Pages : Settled(p) /\ p \notin torn =>
    \A t \in 1..turns : ToldOrAsked(p, t)

=============================================================================
