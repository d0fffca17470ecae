----------------------------- MODULE SessionHub -----------------------------
(***************************************************************************)
(* The session hub of the server (src/crates/server/src/hub.rs): which     *)
(* turns run on which session and when.  One lock guards all sessions; a   *)
(* handler takes it several times and awaits in between, so every region   *)
(* under the lock is one action here and everything else interleaves.      *)
(*                                                                         *)
(*   connection  one task, serving its client's frames one at a time       *)
(*   turn        one task per started turn, in a slot of Slots             *)
(*   summary     one task per session being compacted                      *)
(*   post        a background job handing its result to a session          *)
(*                                                                         *)
(* A message is its client's id for it (clientMessageId); the words, the   *)
(* attachments, the route of a turn and the events sent are left out.      *)
(***************************************************************************)
EXTENDS Naturals, Sequences, FiniteSets

CONSTANTS
  Keys,           \* session keys; those outside Home are minted by summaries
  Home,           \* the sessions clients open first
  Conns,          \* connections of clients
  Unattended,     \* those nobody watches: a scheduled run, one message each
  Msgs,           \* ids of user.message frames
  Steers,         \* ids of turn.steer frames
  Posts,          \* results of background jobs
  Slots,          \* places for turn tasks
  MaxQueueDepth,  \* DEFAULT_MAX_QUEUE_DEPTH
  Inputs,         \* the frames and events of this instance
  None            \* no session, connection, slot or message

AllInputs == {"rewind", "compact", "stop", "switch", "leave", "evict",
              "close", "overlap"}

ASSUME HubAssumption ==
  /\ Home \subseteq Keys /\ Home # {}
  /\ Unattended \subseteq Conns
  /\ Keys \cap Conns = {}
  /\ None \notin Keys \cup Conns \cup Slots \cup Msgs \cup Steers \cup Posts
  /\ Msgs \cap Steers = {} /\ (Msgs \cup Steers) \cap Posts = {}
  /\ MaxQueueDepth \in Nat \ {0}
  /\ Inputs \subseteq AllInputs

Ids == Msgs \cup Steers \cup Posts

VARIABLES
  live,       \* sessions the hub holds a SessionState for
  minted,     \* keys in use; a summary's continuation takes a fresh one
  queue,      \* session -> turns waiting, SessionState.queue
  running,    \* session -> slot of its RunningTurn, or None
  acked,      \* session -> ids SessionState.acked answers for
  rewinding,  \* session -> the claim of a rewind or a summary
  opened,     \* sessions the steering queue is open for
  steering,   \* session -> steers waiting in it
  where,      \* connection -> session it is attached to, or None
  conn,       \* connection -> what its task is doing
  task,       \* slot -> what its turn task is doing
  summary,    \* fresh key -> the summary task that will continue there
  draining,   \* sessions a task that is otherwise done has still to drain
  closed,     \* the hub has been shut down
  sentTo,     \* id -> the session its frame names, once sent
  owed,       \* ids accepted: acknowledged, or taken by the steering queue
  runs,       \* id -> times it was started or read, at most 2
  withdrawn,  \* ids a stop took back
  forgotten,  \* ids an eviction made the hub forget
  moved       \* ids a summary moved to the continuation

sessionVars == <<live, minted, queue, running, acked, rewinding>>
steerVars   == <<opened, steering>>
ghostVars   == <<sentTo, owed, runs, withdrawn, forgotten, moved>>
vars == <<sessionVars, steerVars, where, conn, task, summary, draining, closed,
          ghostVars>>

-----------------------------------------------------------------------------
(* Shapes *)

\* A QueuedTurn: its message, who sent it, and whether it is a rewind's rerun.
\* An unread steer has the same shape.
Turn == [msg : Ids \cup {None}, from : Conns \cup {None}, redo : BOOLEAN]

\* A connection's task.  at says what it does at its next lock:
\*   off/gone  not connected yet / disconnected     ready  wait for a frame
\*   check     ask whether to summarise first       push   enqueue
\*   cut       look up and truncate the history     rerun  queue the rerun
\*   release   end_rewind after a refused rewind    drain  drain
Resting == {"off", "gone", "ready"}
Working == {"check", "push", "cut", "rerun", "release", "drain"}
\* claim is the continuation key of the summary it has claimed a session for.
Handler ==
  [at : Resting, key : {None}, msg : {None}, claim : {None},
   closing : BOOLEAN, sent : BOOLEAN]
    \cup [at : Working, key : Keys, msg : Ids \cup {None},
          claim : Keys \cup {None}, closing : BOOLEAN, sent : BOOLEAN]
NotConnected == [at |-> "off", key |-> None, msg |-> None, claim |-> None,
                 closing |-> FALSE, sent |-> FALSE]

\* A turn task: opening it, in the agent's loop, giving its marker back.
NoTask == [at |-> "idle", key |-> None, msg |-> None, from |-> None,
           cancelled |-> FALSE]
TurnTask ==
  [at : {"idle"}, key : {None}, msg : {None}, from : {None}, cancelled : BOOLEAN]
    \cup
  [at : {"opening", "loop", "settle"}, key : Keys, msg : Ids \cup {None},
   from : Conns \cup {None}, cancelled : BOOLEAN]

\* A summary task, by the key it continues under: its session is claimed for
\* it, the model is asked, the clients are moved.
NoSummary == [at |-> "idle", of |-> None, clients |-> {}]
Summary == {NoSummary} \cup
  [at : {"claimed", "asking", "moving"}, of : Keys, clients : SUBSET Conns]

\* Slip: the claim of another rewind is not looked at.
IdleButClaimed(k) == running[k] = None /\ queue[k] = <<>>

\* What begin_rewind and evict ask of a session.
Idle(k) == running[k] = None /\ queue[k] = <<>> /\ ~rewinding[k]

\* A session the hub holds no state for has nothing waiting, running, claimed
\* or remembered: eviction takes only what is idle, and no handler writes to a
\* session it did not open (evict, session).
Dormant == \A k \in Keys \ live : Idle(k) /\ acked[k] = {}

\* Everything has its shape, and what the hub holds no state for is dormant.
TypeOK ==
  /\ live \subseteq Keys
  /\ minted \subseteq Keys
  /\ queue \in [Keys -> Seq(Turn)]
  /\ running \in [Keys -> Slots \cup {None}]
  /\ acked \in [Keys -> SUBSET Ids]
  /\ rewinding \in [Keys -> BOOLEAN]
  /\ opened \subseteq Keys
  /\ steering \in [Keys -> Seq(Turn)]
  /\ where \in [Conns -> Keys \cup {None}]
  /\ conn \in [Conns -> Handler]
  /\ task \in [Slots -> TurnTask]
  /\ summary \in [Keys -> Summary]
  /\ draining \subseteq Keys
  /\ closed \in BOOLEAN
  /\ sentTo \in [Ids -> Keys \cup {None}]
  /\ owed \subseteq Ids
  /\ runs \in [Ids -> 0..2]
  /\ withdrawn \subseteq Ids
  /\ forgotten \subseteq Ids
  /\ moved \subseteq Ids
  /\ Dormant

Init ==
  /\ live = {}
  /\ minted = Home
  /\ queue = [k \in Keys |-> <<>>]
  /\ running = [k \in Keys |-> None]
  /\ acked = [k \in Keys |-> {}]
  /\ rewinding = [k \in Keys |-> FALSE]
  /\ opened = {}
  /\ steering = [k \in Keys |-> <<>>]
  /\ where = [c \in Conns |-> None]
  /\ conn = [c \in Conns |-> NotConnected]
  /\ task = [s \in Slots |-> NoTask]
  /\ summary = [k \in Keys |-> NoSummary]
  /\ draining = {}
  /\ closed = FALSE
  /\ sentTo = [m \in Ids |-> None]
  /\ owed = {}
  /\ runs = [m \in Ids |-> 0]
  /\ withdrawn = {}
  /\ forgotten = {}
  /\ moved = {}

-----------------------------------------------------------------------------
(* What the handlers share, each inside its caller's lock *)

\* The hub has a state for k from here on.  Eviction of another session to
\* make room is Evict: the sessions that fill the cache are not modelled.
Touch(k) == live' = live \cup {k}

\* Slip: a steer nobody has read is not counted.
WaitingInQueue(k) == Len(queue[k])

\* Messages waiting to run: the queue, and the steers nobody has read.
Waiting(k) == Len(queue[k]) + Len(steering[k])

Full(k) == Waiting(k) >= MaxQueueDepth

\* Slip: the id is not remembered.
PushUnacked(k, turn) ==
  /\ queue' = [queue EXCEPT ![k] = Append(@, turn)]
  /\ acked' = acked
  /\ owed' = owed \cup ({turn.msg} \ {None})

\* push_turn: the turn joins the back of the queue and its id is remembered.
PushTurn(k, turn) ==
  /\ queue' = [queue EXCEPT ![k] = Append(@, turn)]
  /\ acked' = [acked EXCEPT ![k] = @ \cup ({turn.msg} \ {None})]
  /\ owed' = owed \cup ({turn.msg} \ {None})

Started(m) == IF m = None \/ runs[m] = 2 THEN runs
              ELSE [runs EXCEPT ![m] = @ + 1]

\* Slip: the claim is not looked at.
CanDrainClaimed(k) == k \in live /\ running[k] = None /\ queue[k] # <<>>

CanDrain(k) == k \in live /\ running[k] = None /\ ~rewinding[k] /\ queue[k] # <<>>

\* drain: the session is marked busy and its steering opened in the region
\* that takes the turn off the queue.
Drain(k) ==
  \/ ~CanDrain(k) /\ UNCHANGED <<queue, running, opened, task, runs>>
  \/ /\ CanDrain(k)
     /\ \E s \in {x \in Slots : task[x].at = "idle"} :
          LET next == Head(queue[k]) IN
          /\ queue' = [queue EXCEPT ![k] = Tail(@)]
          /\ opened' = opened \cup {k}
          /\ running' = [running EXCEPT ![k] = s]
          /\ task' = [task EXCEPT ![s] =
               [at |-> "opening", key |-> k, msg |-> next.msg,
                from |-> next.from, cancelled |-> FALSE]]
          /\ runs' = Started(next.msg)

\* begin_rewind: the claim of an idle session, held across the store call or
\* the summary, so nothing starts in that gap.
BeginRewind(k) == rewinding' = [rewinding EXCEPT ![k] = TRUE]

Go(c, at, k, m) ==
  [conn EXCEPT ![c] = [@ EXCEPT !.at = at, !.key = k, !.msg = m, !.claim = None]]

Ready(c) == Go(c, "ready", None, None)

\* Keys a summary may mint.
Fresh == {n \in Keys \ minted : summary[n].at = "idle"}

\* The next frame of c is taken up: frames a client sent before it left are
\* still served, each after the one before it.
Serving(c) == conn[c].at = "ready"

\* A resend is the frame sent before, word for word, on whatever connection
\* the client has.  "overlap" allows two connections to serve it at once: the
\* old one's frames run on after its socket is gone.
MaySend(c, k, m) ==
  /\ k \in minted
  /\ sentTo[m] \in {None, k}
  /\ ("overlap" \in Inputs) \/ \A d \in Conns : conn[d].msg # m
  /\ c \in Unattended => ~conn[c].sent

-----------------------------------------------------------------------------
(* Connections *)

\* connect and greet: the connection joins its session.
Connect(c, k) ==
  /\ conn[c].at = "off" \/ (conn[c].at = "gone" /\ c \notin Unattended)
  /\ k \in minted
  /\ Touch(k)
  /\ where' = [where EXCEPT ![c] = k]
  /\ conn' = [conn EXCEPT ![c] = [NotConnected EXCEPT !.at = "ready"]]
  /\ UNCHANGED <<minted, queue, running, acked, rewinding, steerVars, task,
                 summary, draining, closed, ghostVars>>

\* close: the client is detached at once and its frames already sent run on.
Leave(c) ==
  /\ "leave" \in Inputs \/ c \in Unattended
  /\ conn[c].at \notin {"off", "gone"} /\ ~conn[c].closing
  /\ conn' = [conn EXCEPT ![c].closing = TRUE]
  /\ where' = [where EXCEPT ![c] = None]
  /\ UNCHANGED <<sessionVars, steerVars, task, summary, draining, closed,
                 ghostVars>>

\* disconnect: the last frame has run.
Disconnect(c) ==
  /\ Serving(c) /\ conn[c].closing
  /\ conn' = [conn EXCEPT ![c] = [NotConnected EXCEPT !.at = "gone"]]
  /\ UNCHANGED <<sessionVars, steerVars, where, task, summary, draining, closed,
                 ghostVars>>

\* move_to: session.switch and session.new.
Switch(c, k) ==
  /\ "switch" \in Inputs
  /\ Serving(c) /\ k \in minted
  /\ Touch(k)
  /\ where' = [where EXCEPT ![c] = IF conn[c].closing THEN @ ELSE k]
  /\ UNCHANGED <<minted, queue, running, acked, rewinding, steerVars, conn,
                 task, summary, draining, closed, ghostVars>>

-----------------------------------------------------------------------------
(* user.message *)

\* The first lock of submit: an id answered for before is acked again.
Submit(c, k, m) ==
  /\ Serving(c) /\ MaySend(c, k, m)
  /\ m \in Msgs
  /\ Touch(k)
  /\ sentTo' = [sentTo EXCEPT ![m] = k]
  /\ conn' = IF m \in acked[k] THEN conn
             ELSE [conn EXCEPT ![c] = [@ EXCEPT !.at = "check", !.key = k,
                                         !.msg = m, !.sent = TRUE]]
  /\ UNCHANGED <<minted, queue, running, acked, rewinding, steerVars, where,
                 task, summary, draining, closed, owed, runs, withdrawn,
                 forgotten, moved>>

\* needs_compacting, and begin_rewind when the session is nearly full.  The
\* test of the usage and the claim both ask for an idle session, so the claim
\* alone decides.
Check(c) ==
  /\ conn[c].at = "check"
  /\ LET k == conn[c].key IN
     \/ /\ conn' = [conn EXCEPT ![c].at = "push"]
        /\ UNCHANGED <<rewinding, summary>>
     \/ /\ "compact" \in Inputs /\ c \notin Unattended
        /\ k \in live /\ Idle(k)
        /\ BeginRewind(k)
        /\ \E n \in Fresh :
             /\ summary' = [summary EXCEPT ![n] =
                  [at |-> "claimed", of |-> k, clients |-> {}]]
             /\ conn' = [conn EXCEPT ![c] = [@ EXCEPT !.at = "push", !.claim = n]]
  /\ UNCHANGED <<live, minted, queue, running, acked, steerVars, where, task,
                 draining, closed, ghostVars>>

\* enqueue: refused when the session has no room, else queued and acked.
\* What follows is the drain, or the summary the message waits for.
Push(c) ==
  /\ conn[c].at = "push"
  /\ LET k == conn[c].key
         m == conn[c].msg
     IN
     /\ Touch(k)
     /\ \/ Full(k) /\ UNCHANGED <<queue, acked, owed>>
        \/ ~Full(k) /\ PushTurn(k, [msg |-> m, from |-> c, redo |-> FALSE])
     /\ conn' = IF Full(k) \/ running[k] # None
                  THEN Ready(c)
                  ELSE Go(c, "drain", k, None)
     /\ summary' = IF conn[c].claim = None THEN summary
                   ELSE [summary EXCEPT ![conn[c].claim] =
                           [at |-> "asking", of |-> k, clients |-> {}]]
  /\ UNCHANGED <<minted, running, rewinding, steerVars, where, task, draining,
                 closed, sentTo, runs, withdrawn, forgotten, moved>>

\* The drain a handler ends with.
DrainStep(c) ==
  /\ conn[c].at = "drain"
  /\ Drain(conn[c].key)
  /\ conn' = Ready(c)
  /\ UNCHANGED <<live, minted, acked, rewinding, steering, where, summary,
                 draining, closed, sentTo, owed, withdrawn, forgotten, moved>>

-----------------------------------------------------------------------------
(* turn.steer *)

\* The first lock of steer.  Taken by the running turn's queue, it counts
\* against the same bound as a message; with no turn it becomes a message.
Steer(c, k, m) ==
  /\ Serving(c) /\ c \notin Unattended /\ MaySend(c, k, m)
  /\ m \in Steers
  /\ sentTo' = [sentTo EXCEPT ![m] = k]
  /\ \/ /\ m \in acked[k] \/ (running[k] # None /\ Full(k))
        /\ UNCHANGED <<conn, steering, acked, owed>>
     \/ /\ m \notin acked[k] /\ running[k] # None /\ ~Full(k) /\ k \in opened
        /\ steering' = [steering EXCEPT ![k] =
             Append(@, [msg |-> m, from |-> c, redo |-> FALSE])]
        /\ acked' = [acked EXCEPT ![k] = @ \cup {m}]
        /\ owed' = owed \cup {m}
        /\ UNCHANGED conn
     \/ /\ m \notin acked[k]
        /\ running[k] = None \/ (~Full(k) /\ k \notin opened)
        /\ conn' = Go(c, "push", k, m)
        /\ UNCHANGED <<steering, acked, owed>>
  /\ UNCHANGED <<live, minted, queue, running, rewinding, opened, where, task,
                 summary, draining, closed, runs, withdrawn, forgotten, moved>>

-----------------------------------------------------------------------------
(* message.regenerate and message.edit *)

\* begin_rewind, refused unless the session is idle.
Rewind(c, k) ==
  /\ "rewind" \in Inputs
  /\ Serving(c) /\ c \notin Unattended /\ k \in minted
  /\ Touch(k)
  /\ IF Idle(k) THEN BeginRewind(k) /\ conn' = Go(c, "cut", k, None)
               ELSE UNCHANGED <<rewinding, conn>>
  /\ UNCHANGED <<minted, queue, running, acked, steerVars, where, task,
                 summary, draining, closed, ghostVars>>

\* The store call: the lookup and the truncation in one.  Its outcome is the
\* history's: something was cut, or there was nothing to rewind to.
Cut(c) ==
  /\ conn[c].at = "cut"
  /\ \E next \in {"rerun", "release"} : conn' = [conn EXCEPT ![c].at = next]
  /\ UNCHANGED <<sessionVars, steerVars, where, task, summary, draining, closed,
                 ghostVars>>

\* Slip: the rerun joins the back.
PushBack(k, turn) == queue' = [queue EXCEPT ![k] = Append(@, turn)]

PushFront(k, turn) == queue' = [queue EXCEPT ![k] = <<turn>> \o @]

\* rerun: ahead of whatever queued behind the claim, past the depth cap, and
\* the claim let go in the same region.
Rerun(c) ==
  /\ conn[c].at = "rerun"
  /\ LET k == conn[c].key IN
     IF k \in live
       THEN /\ PushFront(k, [msg |-> None, from |-> c, redo |-> TRUE])
            /\ rewinding' = [rewinding EXCEPT ![k] = FALSE]
       ELSE UNCHANGED <<queue, rewinding>>
  /\ conn' = [conn EXCEPT ![c].at = "drain"]
  /\ UNCHANGED <<live, minted, running, acked, steerVars, where, task, summary,
                 draining, closed, ghostVars>>

\* end_rewind after a refusal; the drain is for what queued behind the claim.
Release(c) ==
  /\ conn[c].at = "release"
  /\ rewinding' = [rewinding EXCEPT ![conn[c].key] = FALSE]
  /\ conn' = [conn EXCEPT ![c].at = "drain"]
  /\ UNCHANGED <<live, minted, queue, running, acked, steerVars, where, task,
                 summary, draining, closed, ghostVars>>

-----------------------------------------------------------------------------
(* session.compact, and the summary a message waits for *)

Compact(c, k) ==
  /\ "compact" \in Inputs
  /\ Serving(c) /\ c \notin Unattended /\ k \in minted
  /\ Touch(k)
  /\ \/ ~Idle(k) /\ UNCHANGED <<rewinding, summary>>
     \/ /\ Idle(k)
        /\ BeginRewind(k)
        /\ \E n \in Fresh : summary' = [summary EXCEPT ![n] =
             [at |-> "asking", of |-> k, clients |-> {}]]
  /\ UNCHANGED <<minted, queue, running, acked, steerVars, where, conn, task,
                 draining, closed, ghostVars>>

\* Slip: a failed summary does not look at the queue.
SummaryGivesUp(n) ==
  /\ summary[n].at = "asking"
  /\ rewinding' = [rewinding EXCEPT ![summary[n].of] = FALSE]
  /\ summary' = [summary EXCEPT ![n] = NoSummary]
  /\ UNCHANGED <<live, minted, queue, running, acked, steerVars, where, conn,
                 task, draining, closed, ghostVars>>

\* The summary failed or was stopped: the claim is let go, and what queued
\* behind it runs where it is.
SummaryFails(n) ==
  /\ summary[n].at = "asking"
  /\ LET k == summary[n].of IN
     /\ rewinding' = [rewinding EXCEPT ![k] = FALSE]
     /\ draining' = draining \cup {k}
     /\ summary' = [summary EXCEPT ![n] = NoSummary]
  /\ UNCHANGED <<live, minted, queue, running, acked, steerVars, where, conn,
                 task, closed, ghostVars>>

MoveQueue(k, n) == queue' = [queue EXCEPT ![n] = @ \o queue[k], ![k] = <<>>]

\* The summary is stored under n: one region moves the queue and the acks and
\* lets the claim go.
SummaryMoves(n) ==
  /\ summary[n].at = "asking"
  /\ LET k == summary[n].of IN
     /\ live' = live \cup {n}
     /\ minted' = minted \cup {n}
     /\ rewinding' = [rewinding EXCEPT ![k] = FALSE]
     /\ MoveQueue(k, n)
     /\ acked' = [acked EXCEPT ![k] = {}, ![n] = @ \cup acked[k]]
     /\ moved' = moved \cup acked[k]
     /\ summary' = [summary EXCEPT ![n] =
          [at |-> "moving", of |-> k, clients |-> {c \in Conns : where[c] = k}]]
  /\ UNCHANGED <<running, steerVars, where, conn, task, draining, closed,
                 sentTo, owed, runs, withdrawn, forgotten>>

\* move_to for one client of the list taken under the lock before.
MoveClient(n) ==
  /\ summary[n].at = "moving"
  /\ \E c \in summary[n].clients :
       /\ summary' = [summary EXCEPT ![n].clients = @ \ {c}]
       /\ where' = [where EXCEPT ![c] =
            IF conn[c].at \in {"off", "gone"} \/ conn[c].closing THEN @ ELSE n]
  /\ live' = live \cup {n}
  /\ UNCHANGED <<minted, queue, running, acked, rewinding, steerVars, conn,
                 task, draining, closed, ghostVars>>

\* The clients are all moved; what moved with them is drained next.
SummaryEnds(n) ==
  /\ summary[n].at = "moving" /\ summary[n].clients = {}
  /\ summary' = [summary EXCEPT ![n] = NoSummary]
  /\ draining' = draining \cup {n}
  /\ UNCHANGED <<sessionVars, steerVars, where, conn, task, closed, ghostVars>>

-----------------------------------------------------------------------------
(* turn.stop *)

\* A connection nobody watches may touch only what it submitted.
Owns(c, sender) == c \notin Unattended \/ sender = c

\* The running turn's token is cancelled; the turn ends in its own time.  A
\* summary's token is too, which ends it as SummaryFails.
StopRunning(c, k) ==
  /\ "stop" \in Inputs
  /\ Serving(c) /\ running[k] # None
  /\ Owns(c, task[running[k]].from)
  /\ task' = [task EXCEPT ![running[k]].cancelled = TRUE]
  /\ UNCHANGED <<sessionVars, steerVars, where, conn, summary, draining, closed,
                 ghostVars>>

\* A queued turn the frame names, or an unattended run's own, is withdrawn.
StopQueued(c, k) ==
  /\ "stop" \in Inputs
  /\ Serving(c)
  /\ \E i \in 1..Len(queue[k]) :
       /\ Owns(c, queue[k][i].from)
       /\ queue' = [queue EXCEPT ![k] =
            SubSeq(@, 1, i - 1) \o SubSeq(@, i + 1, Len(@))]
       /\ withdrawn' = withdrawn \cup ({queue[k][i].msg} \ {None})
  /\ UNCHANGED <<live, minted, running, acked, rewinding, steerVars, where,
                 conn, task, summary, draining, closed, sentTo, owed, runs,
                 forgotten, moved>>

-----------------------------------------------------------------------------
(* The turn task *)

\* open_turn: the loop takes over, or no model is configured, or the agent
\* cannot be built and fail_turn closes the turn.
OpenTurn(s) ==
  /\ task[s].at = "opening"
  /\ \E next \in {"loop", "settle"} : task' = [task EXCEPT ![s].at = next]
  /\ UNCHANGED <<sessionVars, steerVars, where, conn, summary, draining, closed,
                 ghostVars>>

\* The loop writes the oldest waiting steer at the top of an iteration.  A
\* stop may have landed since it last looked at its token.
ReadSteer(s) ==
  /\ task[s].at = "loop"
  /\ LET k == task[s].key IN
     /\ k \in opened /\ steering[k] # <<>>
     /\ runs' = Started(Head(steering[k]).msg)
     /\ steering' = [steering EXCEPT ![k] = Tail(@)]
  /\ UNCHANGED <<sessionVars, opened, where, conn, task, summary, draining,
                 closed, sentTo, owed, withdrawn, forgotten, moved>>

\* The turn completes, is cancelled, fails or hits a cap, with or without
\* steers it has not read.
EndLoop(s) ==
  /\ task[s].at = "loop"
  /\ task' = [task EXCEPT ![s].at = "settle"]
  /\ UNCHANGED <<sessionVars, steerVars, where, conn, summary, draining, closed,
                 ghostVars>>

Messages(turns) == {turns[i].msg : i \in 1..Len(turns)}

\* Slips: any marker will do; a cancelled turn leaves its own.
AnyMarker(s) == running[task[s].key] # None
MarkerIfUncancelled(s) == running[task[s].key] = s /\ ~task[s].cancelled

\* Only this turn's marker: a close may have taken it, and what holds the
\* slot now is somebody else's.
OwnMarker(s) == running[task[s].key] = s

CloseSteering(k) ==
  opened' = opened \ {k} /\ steering' = [steering EXCEPT ![k] = <<>>]

\* Slip: what the turn never read goes with it.
DropUnread(k) == UNCHANGED <<queue, acked>>

\* A steer nobody read joins the queue, under the lock that ends the turn.
QueueUnread(k) ==
  /\ queue' = [queue EXCEPT ![k] = @ \o steering[k]]
  /\ acked' = [acked EXCEPT ![k] = @ \cup (Messages(steering[k]) \ {None})]

\* The last lock of run_turn.
Settle(s) ==
  /\ task[s].at = "settle"
  /\ LET k == task[s].key IN
     IF OwnMarker(s)
       THEN /\ running' = [running EXCEPT ![k] = None]
            /\ CloseSteering(k)
            /\ QueueUnread(k)
       ELSE UNCHANGED <<running, opened, queue, acked, steering>>
  /\ task' = [task EXCEPT ![s] = NoTask]
  /\ draining' = draining \cup {task[s].key}
  /\ UNCHANGED <<live, minted, rewinding, where, conn, summary, closed,
                 ghostVars>>

\* The drain a turn, a summary and a post end with, a lock of its own after
\* the one that let the session go.  Several on their way to one session are
\* as good as one: on a busy or empty session a drain does nothing, and what
\* frees the session brings its own.
TaskDrains(k) ==
  /\ k \in draining
  /\ Drain(k)
  /\ draining' = draining \ {k}
  /\ UNCHANGED <<live, minted, acked, rewinding, steering, where, conn, summary,
                 closed, sentTo, owed, withdrawn, forgotten, moved>>

-----------------------------------------------------------------------------
(* post, eviction and shutdown *)

\* A job's result: read by the running turn, or a turn of its own, past the
\* depth cap, since nobody would send it again.
Post(p, k) ==
  /\ k \in minted /\ sentTo[p] = None
  /\ Touch(k)
  /\ sentTo' = [sentTo EXCEPT ![p] = k]
  /\ LET result == [msg |-> p, from |-> None, redo |-> FALSE] IN
     IF running[k] # None /\ k \in opened
       THEN /\ steering' = [steering EXCEPT ![k] = Append(@, result)]
            /\ owed' = owed \cup {p}
            /\ UNCHANGED <<queue, acked, draining>>
       ELSE /\ PushTurn(k, result)
            /\ draining' = IF running[k] = None THEN draining \cup {k} ELSE draining
            /\ UNCHANGED steering
  /\ UNCHANGED <<minted, running, rewinding, opened, where, conn, task, summary,
                 closed, runs, withdrawn, forgotten, moved>>

Evictable(k) == k \in live /\ Idle(k) /\ \A c \in Conns : where[c] # k

\* The cache is over its cap and k is its idle session used longest ago.
Evict(k) ==
  /\ "evict" \in Inputs
  /\ Evictable(k)
  /\ live' = live \ {k}
  /\ acked' = [acked EXCEPT ![k] = {}]
  /\ forgotten' = forgotten \cup acked[k]
  /\ UNCHANGED <<minted, queue, running, rewinding, steerVars, where, conn,
                 task, summary, draining, closed, sentTo, owed, runs, withdrawn,
                 moved>>

\* Shutdown: every turn is cancelled, every session dropped.  The tasks run
\* on, and so do the connections, which are the transport's to close.
Close ==
  /\ "close" \in Inputs /\ ~closed
  /\ closed' = TRUE
  /\ task' = [s \in Slots |->
       [task[s] EXCEPT !.cancelled = @ \/ \E k \in Keys : running[k] = s]]
  /\ live' = {}
  /\ queue' = [k \in Keys |-> <<>>]
  /\ running' = [k \in Keys |-> None]
  /\ acked' = [k \in Keys |-> {}]
  /\ rewinding' = [k \in Keys |-> FALSE]
  /\ where' = [c \in Conns |-> None]
  /\ forgotten' = forgotten \cup UNION {acked[k] : k \in Keys}
  /\ UNCHANGED <<minted, steerVars, conn, summary, draining, sentTo, owed, runs,
                 withdrawn, moved>>

-----------------------------------------------------------------------------
(* What a task does by itself, and what arrives from outside *)

HandlerStep(c) == Check(c) \/ Push(c) \/ Cut(c) \/ Rerun(c) \/ Release(c)
                  \/ DrainStep(c)

TurnStep(s) == OpenTurn(s) \/ EndLoop(s) \/ Settle(s)

SummaryStep(n) == SummaryFails(n) \/ SummaryMoves(n) \/ MoveClient(n)
                  \/ SummaryEnds(n)

Frame(c) ==
  \/ Leave(c) \/ Disconnect(c)
  \/ \E k \in Keys :
       \/ Connect(c, k) \/ Switch(c, k) \/ Rewind(c, k) \/ Compact(c, k)
       \/ StopRunning(c, k) \/ StopQueued(c, k)
       \/ \E m \in Msgs : Submit(c, k, m)
       \/ \E m \in Steers : Steer(c, k, m)

Next ==
  \/ \E c \in Conns : HandlerStep(c) \/ Frame(c)
  \/ \E s \in Slots : TurnStep(s) \/ ReadSteer(s)
  \/ \E k \in Keys : SummaryStep(k) \/ TaskDrains(k) \/ Evict(k)
  \/ \E p \in Posts, k \in Keys : Post(p, k)
  \/ Close

\* Tasks are scheduled: a handler under way, a turn (its loop is bounded), a
\* summary (it has a time limit) and a drain all get on.  Nothing from outside
\* need ever happen.
Fairness ==
  /\ \A c \in Conns : WF_vars(HandlerStep(c))
  /\ \A s \in Slots : WF_vars(TurnStep(s))
  /\ \A k \in Keys : WF_vars(SummaryStep(k)) /\ WF_vars(TaskDrains(k))

Spec == Init /\ [][Next]_vars

FairSpec == Spec /\ Fairness

-----------------------------------------------------------------------------
(* Properties *)

Busy(s) == task[s].at \in {"opening", "loop"}

\* A turn in progress that nobody cancelled holds its session's marker, so a
\* session never runs two turns side by side, not even across a shutdown that
\* races a new message (drain marks under its lock; run_turn clears only its
\* own marker).
TurnHoldsItsSession ==
  \A s \in Slots : Busy(s) /\ ~task[s].cancelled => running[task[s].key] = s

\* A busy marker always has a task behind it that will clear it: the session
\* is not left busy for good (drain spawns run_turn; run_turn settles).
MarkerHasItsTurn ==
  \A k \in Keys : running[k] # None =>
    /\ task[running[k]].key = k
    /\ task[running[k]].at \in {"opening", "loop", "settle"}

\* While a rewind or a summary holds a session no turn runs on it, so none
\* reads a history that is about to be cut (begin_rewind against drain).
NoTurnUnderClaim == \A k \in Keys : rewinding[k] => running[k] = None

\* Everyone who believes to hold the claim of k.
Holders(k) ==
  {c \in Conns : conn[c].key = k /\ conn[c].at \in {"cut", "rerun", "release"}}
    \cup {n \in Keys : summary[n].of = k /\ summary[n].at \in {"claimed", "asking"}}

\* A claim is held by exactly one handler or summary and is let go with it:
\* two rewinds never cut one history, and no session stays claimed with
\* nobody to release it (regenerate, edit, submit, compact_claimed).
ClaimHasOneHolder ==
  ~closed => \A k \in Keys :
    /\ rewinding[k] <=> Holders(k) # {}
    /\ \A x, y \in Holders(k) : x = y

\* A rerun is queued first and nothing runs between the cut of the history
\* and its start, until a shutdown frees the claim under its holder (rerun).
RerunIsNext ==
  ~closed => \A k \in Keys : \A i \in 1..Len(queue[k]) :
    queue[k][i].redo => i = 1 /\ running[k] = None

\* The steering queue takes corrections exactly while a turn runs, so one is
\* never taken with no turn to hand it back (drain, run_turn).
SteeringFollowsTurn ==
  ~closed => \A k \in Keys :
    /\ k \in opened <=> running[k] # None
    /\ k \notin opened => steering[k] = <<>>

Drains(k) ==
  \/ k \in draining
  \/ \E c \in Conns : conn[c].at = "drain" /\ conn[c].key = k
  \/ summary[k].at = "moving"

\* A queue with nothing in front of it has somebody on the way to drain it:
\* every path that lets go of a session looks at the queue again.
NoStrandedQueue ==
  \A k \in Keys :
    queue[k] # <<>> /\ running[k] = None /\ ~rewinding[k] => Drains(k)

IsWaiting(m) ==
  \E k \in Keys : \/ m \in Messages(queue[k])
                  \/ k \in opened /\ m \in Messages(steering[k])

\* What was accepted is waiting, was run or read, or was taken back by a
\* stop.  No turn end, refusal, rewind, summary or eviction drops it.
AcceptedIsKept ==
  ~closed => \A m \in owed : IsWaiting(m) \/ runs[m] > 0 \/ m \in withdrawn

\* A message is started once however often its frame is resent, unless the
\* session that remembered it is gone (submit, steer, push_turn).
RunsOnce == \A m \in Ids : runs[m] > 1 => m \in forgotten \cup moved

\* "So a resend of a message that moved is acked, not run twice"
\* (compact_claimed).
MovedRunsOnce == \A m \in moved \ forgotten : runs[m] <= 1

\* What clients have waiting never exceeds the depth cap, wherever a turn end
\* or a summary has put it (enqueue, steer, run_turn).
FromClients(turns) == {i \in 1..Len(turns) : turns[i].from # None /\ ~turns[i].redo}
DepthIsBounded ==
  \A k \in Keys :
    Cardinality(FromClients(queue[k])) + Cardinality(FromClients(steering[k]))
      <= MaxQueueDepth

\* Every accepted message is run, read or withdrawn in the end, as long as
\* the tasks are scheduled and the hub is not shut down.
AcceptedRuns ==
  \A m \in Ids : m \in owed ~> (runs[m] > 0 \/ m \in withdrawn \/ closed)

=============================================================================
