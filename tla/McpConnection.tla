---------------------------- MODULE McpConnection ----------------------------
(***************************************************************************)
(* One configured MCP server (src/crates/mcp/src/manager.rs) and the       *)
(* connections it has in turn (connection.rs): dials, the session a dial   *)
(* adopts, the watcher of its events, failures that arm the next dial, and *)
(* the close of a connection whose transport was edited.                   *)
(*                                                                         *)
(* Each section under a connection's lock is a step, and so is each        *)
(* publish, which comes after its section: between the two, and between a  *)
(* look at the generation (stale) and what follows it, other tasks run.    *)
(* An abort takes a task at its next await.                                *)
(*                                                                         *)
(* Left out: which tools a server lists and how they are named, the        *)
(* backoff's times, and what an authorization exchanges.                   *)
(***************************************************************************)
EXTENDS Naturals, FiniteSets

CONSTANTS
  MaxConns,   \* bound: connections made for the server
  MaxDials,   \* bound: generations of a connection
  MaxEdits,   \* bound: edits of the server's settings
  MaxFaults   \* bound: refused dials and lists, dropped sessions

Conns == 1 .. MaxConns
Gens  == 1 .. MaxDials
\* The tasks of a connection: a dial by its generation, and the watcher of the
\* session it adopted.
Tasks == Conns \X Gens \X {"dial", "watch"}

ASSUME McpAssumption ==
  /\ MaxConns \in Nat \ {0} /\ MaxDials \in Nat \ {0} /\ MaxEdits \in Nat /\ MaxFaults \in Nat

VARIABLES
  conn,     \* connection -> its Inner
  task,     \* task -> where it is, and what it took along
  session,  \* <<connection, generation>> -> the session that dial opened
  fired,    \* attempts whose token was cancelled
  current,  \* the connection in the manager's map, or 0
  made,     \* connections made so far
  retiring, \* connection -> its close: "no", "due", "unpublish", "done"
  operator, \* the connection whose tools an edit is about to publish, or 0
  sink,     \* the connection whose tools are registered, or 0
  shut,     \* the manager was closed
  edits, faults

manager == <<current, made, retiring, operator, shut, edits>>
vars == <<conn, task, session, fired, manager, sink, faults>>

-----------------------------------------------------------------------------
(* Shapes *)

\* session, token, watcher name the generation they came with; 0 is none. overtaken
\* is a history for the properties: a dial began while a task was between two awaits.
Inner == [state : {"connecting", "ready", "auth", "failed", "disabled"}, closed : BOOLEAN,
          gen : 0 .. MaxDials, session : 0 .. MaxDials, token : 0 .. MaxDials,
          watcher : 0 .. MaxDials, timer : BOOLEAN, spawned : BOOLEAN, listed : BOOLEAN,
          overtaken : BOOLEAN]

\* with is the session a list was asked of, token the attempt it was asked under.
\* An auth failure is not retried.
Places == {"none", "connecting", "opened", "adopt", "waiting", "list", "listing", "listed", "write",
           "publish", "failed", "drop", "unpublish", "arm", "done"}
TaskRecord == [at : Places, with : 0 .. MaxDials, token : 0 .. MaxDials,
               auth : BOOLEAN, aborted : BOOLEAN]

\* "heard" ended where its watcher will hear of it, "lost" before it had one.
Sessions == {"none", "open", "heard", "lost", "closed"}

TypeOK ==
  /\ conn \in [Conns -> Inner]
  /\ task \in [Tasks -> TaskRecord]
  /\ session \in [Conns \X Gens -> Sessions]
  /\ fired \subseteq Conns \X Gens
  /\ current \in 0 .. MaxConns /\ made \in 0 .. MaxConns /\ operator \in 0 .. MaxConns
  /\ retiring \in [Conns -> {"no", "due", "unpublish", "done"}]
  /\ sink \in 0 .. MaxConns /\ shut \in BOOLEAN
  /\ edits \in 0 .. MaxEdits /\ faults \in 0 .. MaxFaults

New == [state |-> "connecting", closed |-> FALSE, gen |-> 0, session |-> 0, token |-> 0,
        watcher |-> 0, timer |-> FALSE, spawned |-> FALSE, listed |-> FALSE, overtaken |-> FALSE]

Idle(at)    == [at |-> at, with |-> 0, token |-> 0, auth |-> FALSE, aborted |-> FALSE]

Init ==
  /\ conn = [c \in Conns |-> New]
  /\ task = [t \in Tasks |-> Idle("none")]
  /\ session = [s \in Conns \X Gens |-> "none"]
  /\ fired = {}
  /\ current = 0 /\ made = 0 /\ operator = 0
  /\ retiring = [c \in Conns |-> "no"]
  /\ sink = 0 /\ shut = FALSE /\ edits = 0 /\ faults = 0

-----------------------------------------------------------------------------
(* What the steps are built from *)

At(t, at)   == task[t].at = at
\* What a task took along is gone when it is done.
Goto(t, at) == task' = [task EXCEPT ![t] = IF at = "done" THEN Idle(at) ELSE [@ EXCEPT !.at = at]]
Watcher(c, g) == <<c, g, "watch">>

Stale(t) == conn[t[1]].gen # t[2] \/ conn[t[1]].closed

\* Where a task is when it has no more to do: a watcher waits for the next event.
Back(t) == IF t[3] = "watch" THEN "waiting" ELSE "done"

\* Cancelling an attempt ends the session opened under it.
Firing(c)   == fired' = fired \cup ({<<c, conn[c].token>>} \cap (Conns \X Gens))
Ending(c)   == session' = [s \in Conns \X Gens |->
                 IF s[1] = c /\ s[2] \in {conn[c].token, conn[c].session} /\ session[s] # "none"
                 THEN "closed" ELSE session[s]]
Aborting(tk, c, g) == [t \in Tasks |->
                 IF t = Watcher(c, g) /\ tk[t].at # "done" THEN [tk[t] EXCEPT !.aborted = TRUE] ELSE tk[t]]

Fault  == faults < MaxFaults /\ faults' = faults + 1
Still  == UNCHANGED <<manager, sink>>
InTask == UNCHANGED <<manager, conn, session, fired, sink, faults>>

-----------------------------------------------------------------------------
(* A dial *)

Dial(c) ==
  LET g == conn[c].gen + 1 IN
  IF conn[c].closed
  THEN UNCHANGED task
  ELSE g \in Gens /\ Goto(<<c, g, "dial">>, "connecting")
Dialling(c, inner) ==
  IF conn[c].closed THEN inner
  ELSE [inner EXCEPT !.gen = @ + 1, !.state = "connecting", !.token = conn[c].gen + 1]

\* The task start spawned, and the one arm left asleep.
Begin(c) ==
  /\ conn[c].spawned
  /\ conn' = [conn EXCEPT ![c] = Dialling(c, [@ EXCEPT !.spawned = FALSE])]
  /\ Dial(c)
  /\ UNCHANGED <<session, fired, faults>> /\ Still
\* The delay may be no time at all: the timer passes wherever other tasks are.
Running == {"opened", "adopt", "listed", "write", "publish", "failed", "drop", "unpublish", "arm"}
Overtakes(c) == conn[c].overtaken \/ \E t \in Tasks : t[1] = c /\ task[t].at \in Running
Redial(c) ==
  /\ conn[c].timer
  /\ conn' = [conn EXCEPT ![c] = Dialling(c, [@ EXCEPT !.timer = FALSE, !.overtaken = Overtakes(c)])]
  /\ Dial(c)
  /\ UNCHANGED <<session, fired, faults>> /\ Still

Connect(t) ==
  /\ At(t, "connecting")
  /\ <<t[1], t[2]>> \notin fired
  /\ session' = [session EXCEPT ![<<t[1], t[2]>>] = "open"]
  /\ Goto(t, "opened")
  /\ UNCHANGED <<conn, fired, faults>> /\ Still

\* A dial that is cancelled is refused, whatever the server would have said.
Refused(t) ==
  /\ At(t, "connecting")
  /\ \/ <<t[1], t[2]>> \in fired /\ UNCHANGED faults /\ Goto(t, "failed")
     \/ Fault /\ \E auth \in BOOLEAN : task' = [task EXCEPT ![t].at = "failed", ![t].auth = auth]
  /\ UNCHANGED <<conn, session, fired>> /\ Still

\* on_authorization_required: the link goes to whichever connection the map has
\* now.
Report(t) ==
  /\ At(t, "connecting") /\ t[3] = "dial"
  /\ current # 0 /\ Fault
  /\ conn' = [conn EXCEPT ![current].state = "auth"]
  /\ UNCHANGED <<task, session, fired>> /\ Still

Look(t) ==
  /\ At(t, "opened")
  /\ IF Stale(t)
     THEN session' = [session EXCEPT ![<<t[1], t[2]>>] = "closed"] /\ Goto(t, "done")
     ELSE UNCHANGED session /\ Goto(t, "adopt")
  /\ UNCHANGED <<conn, fired, faults>> /\ Still

\* The session is kept and a watcher takes the place of the last one.
Adopt(t) ==
  LET c == t[1] IN
  /\ At(t, "adopt")
  /\ conn' = [conn EXCEPT ![c].session = t[2], ![c].watcher = t[2]]
  /\ task' = [Aborting(task, c, conn[c].watcher)
                EXCEPT ![t].at = "list", ![Watcher(c, t[2])].at = "waiting"]
  /\ UNCHANGED <<session, fired, faults>> /\ Still

-----------------------------------------------------------------------------
(* Reading the list (refresh) *)

Ask(t) ==
  /\ At(t, "list")
  /\ IF conn[t[1]].session = 0 THEN Goto(t, Back(t))
     ELSE task' = [task EXCEPT ![t].at = "listing", ![t].with = conn[t[1]].session, ![t].token = conn[t[1]].token]
  /\ InTask

Lists(t) == /\ task[t].token # 0 /\ <<t[1], task[t].token>> \notin fired
            /\ session[<<t[1], task[t].with>>] = "open"
Answer(t) ==
  /\ At(t, "listing") /\ ~task[t].aborted
  /\ \/ Lists(t) /\ Goto(t, "listed") /\ UNCHANGED faults
     \/ Lists(t) /\ Goto(t, "failed") /\ Fault
     \/ ~Lists(t) /\ Goto(t, "failed") /\ UNCHANGED faults
  /\ UNCHANGED <<conn, session, fired>> /\ Still

Check(t) ==
  /\ At(t, "listed")
  /\ Goto(t, IF Stale(t) THEN Back(t) ELSE "write")
  /\ InTask

\* The connection is ready with what was listed, and then publishes it.
Write(t) ==
  /\ At(t, "write")
  /\ conn' = [conn EXCEPT ![t[1]].state = "ready", ![t[1]].listed = TRUE]
  /\ Goto(t, "publish")
  /\ UNCHANGED <<session, fired, faults>> /\ Still

Publish(t) ==
  /\ At(t, "publish")
  /\ sink' = t[1]
  /\ Goto(t, Back(t))
  /\ UNCHANGED <<manager, conn, session, fired, faults>>

-----------------------------------------------------------------------------
(* A session's events *)

\* The server has other tools, or has gone.
Change(t) ==
  /\ At(t, "waiting") /\ ~task[t].aborted
  /\ session[<<t[1], t[2]>>] = "open" /\ Fault
  /\ Goto(t, IF Stale(t) THEN "done" ELSE "list")
  /\ UNCHANGED <<conn, session, fired>> /\ Still
Hear(t) ==
  /\ At(t, "waiting") /\ ~task[t].aborted
  /\ session[<<t[1], t[2]>>] = "heard"
  /\ Goto(t, "failed")
  /\ InTask
\* Slip: a failure waits for its session to close, and the abort takes it there.
KilledInFail(t) ==
  /\ task[t].aborted /\ task[t].at \in {"waiting", "listing", "unpublish"}
  /\ Goto(t, "done")
  /\ InTask

Killed(t) ==
  /\ task[t].aborted /\ task[t].at \in {"waiting", "listing"}
  /\ Goto(t, "done")
  /\ InTask

\* A session ends by itself; whoever subscribes later does not hear of it.
Drops(s) ==
  /\ session[s] = "open" /\ Fault
  /\ session' = [session EXCEPT ![s] = IF task[Watcher(s[1], s[2])].at = "none" THEN "lost" ELSE "heard"]
  /\ UNCHANGED <<conn, task, fired>> /\ Still

-----------------------------------------------------------------------------
(* A failure *)

\* Slip: a failure does not count while a session is held.
JudgeHeld(t) ==
  /\ At(t, "failed")
  /\ Goto(t, IF Stale(t) \/ conn[t[1]].session # 0 THEN "done" ELSE "drop")
  /\ InTask

Judge(t) ==
  /\ At(t, "failed")
  /\ Goto(t, IF Stale(t) THEN "done" ELSE "drop")
  /\ InTask

\* The tools, the watcher, the attempt and the session go together.
Fail(t) ==
  LET c == t[1] IN
  /\ At(t, "drop")
  /\ conn' = [conn EXCEPT ![c].listed = FALSE, ![c].watcher = 0, ![c].token = 0, ![c].session = 0,
                          ![c].state = IF task[t].auth THEN "auth" ELSE "failed"]
  /\ task' = [Aborting(task, c, conn[c].watcher) EXCEPT ![t].at = "unpublish"]
  /\ Firing(c) /\ Ending(c)
  /\ UNCHANGED faults /\ Still

Unpublish(t) ==
  /\ At(t, "unpublish")
  /\ sink' = 0
  /\ Goto(t, IF task[t].auth THEN "done" ELSE "arm")
  /\ UNCHANGED <<manager, conn, session, fired, faults>>

\* One timer: the one before it is aborted.
Arm(t) ==
  /\ At(t, "arm")
  /\ conn' = [conn EXCEPT ![t[1]].timer = ~conn[t[1]].closed]
  /\ Goto(t, "done")
  /\ UNCHANGED <<session, fired, faults>> /\ Still

-----------------------------------------------------------------------------
(* The manager *)

Retired(c) == IF c = 0 THEN retiring ELSE [retiring EXCEPT ![c] = "due"]

\* apply: a transport that moved has its connection retired and another made.
Apply ==
  /\ ~shut /\ operator = 0 /\ made < MaxConns
  /\ made' = made + 1 /\ current' = made + 1
  /\ retiring' = Retired(current)
  /\ sink' = IF current = 0 THEN sink ELSE 0
  /\ conn' = [conn EXCEPT ![made + 1].spawned = TRUE]
  /\ edits < MaxEdits /\ edits' = edits + 1
  /\ UNCHANGED <<task, session, fired, operator, shut, faults>>

\* Switched off, removed, or the manager closed.
Retire ==
  /\ ~shut /\ operator = 0 /\ current # 0
  /\ \/ edits < MaxEdits /\ edits' = edits + 1 /\ UNCHANGED shut
     \/ shut' = TRUE /\ UNCHANGED edits
  /\ current' = 0
  /\ retiring' = Retired(current)
  /\ sink' = 0
  /\ UNCHANGED <<conn, task, session, fired, made, operator, faults>>

\* rebridge: only what it exposes has moved.
Rebridge ==
  /\ ~shut /\ operator = 0 /\ current # 0
  /\ edits < MaxEdits /\ edits' = edits + 1
  /\ conn[current].state = "ready" /\ conn[current].listed
  /\ operator' = current
  /\ UNCHANGED <<conn, task, session, fired, current, made, retiring, shut, sink, faults>>
Republish ==
  /\ operator # 0
  /\ sink' = operator /\ operator' = 0
  /\ UNCHANGED <<conn, task, session, fired, current, made, retiring, shut, edits, faults>>

\* close, on the task that retire spawned.
Close(c) ==
  /\ retiring[c] = "due" /\ conn[c].gen < MaxDials
  /\ conn' = [conn EXCEPT ![c].closed = TRUE, ![c].gen = @ + 1, ![c].timer = FALSE, ![c].watcher = 0,
                          ![c].token = 0, ![c].session = 0, ![c].state = "disabled", ![c].listed = FALSE]
  /\ task' = Aborting(task, c, conn[c].watcher)
  /\ Firing(c) /\ Ending(c)
  /\ retiring' = [retiring EXCEPT ![c] = "unpublish"]
  /\ UNCHANGED <<current, made, operator, shut, edits, sink, faults>>
Closed(c) ==
  /\ retiring[c] = "unpublish"
  /\ sink' = 0
  /\ retiring' = [retiring EXCEPT ![c] = "done"]
  /\ UNCHANGED <<conn, task, session, fired, current, made, operator, shut, edits, faults>>

-----------------------------------------------------------------------------

Step(t) ==
  \/ Connect(t) \/ Refused(t) \/ Look(t) \/ Adopt(t)
  \/ Ask(t) \/ Answer(t) \/ Check(t) \/ Write(t) \/ Publish(t)
  \/ Hear(t) \/ Killed(t)
  \/ Judge(t) \/ Fail(t) \/ Unpublish(t) \/ Arm(t)
Timed(c)  == Begin(c) \/ Redial(c)
Ends(c)   == Close(c) \/ Closed(c)

Next ==
  \/ \E t \in Tasks : Step(t) \/ Report(t) \/ Change(t)
  \/ \E c \in Conns : Timed(c) \/ Ends(c)
  \/ \E s \in Conns \X Gens : Drops(s)
  \/ Apply \/ Retire \/ Rebridge \/ Republish

Spec == Init /\ [][Next]_vars

\* Every await of a task ends: dials and lists are timed, a timer passes, a spawned
\* task runs.
FairSpec ==
  /\ Spec
  /\ \A t \in Tasks : WF_vars(Step(t))
  /\ \A c \in Conns : WF_vars(Timed(c)) /\ WF_vars(Ends(c))
  /\ WF_vars(Republish)

-----------------------------------------------------------------------------

Live(s) == session[s] = "open" /\ s \notin fired

\* While no dial has overtaken a task, no session is forgotten: one that is open is
\* held by its connection, about to be adopted or closed by the dial that opened it,
\* or was opened under a token that has fired, which ends it (dial, adopt, fail, close).
Calm == \A c \in Conns : ~conn[c].overtaken
SessionsHeld ==
  \A c \in Conns, g \in Gens : Live(<<c, g>>) =>
    \/ conn[c].session = g
    \/ task[<<c, g, "dial">>].at \in {"opened", "adopt"}
NoSessionForgotten == Calm => SessionsHeld

\* A connection that says it is connecting or has failed is never stranded: its start
\* or its timer is to come, its newest dial is on its way, or a failure is about to
\* arm the next one, whatever was overtaken, aborted or judged twice (fail, arm).
Coming == {"connecting", "opened", "adopt", "list", "listing", "listed", "write", "failed", "drop"}
Ahead(c) ==
  \/ conn[c].spawned \/ conn[c].timer
  \/ conn[c].gen # 0 /\ task[<<c, conn[c].gen, "dial">>].at \in Coming
  \/ \E t \in Tasks : t[1] = c /\ task[t].at \in {"unpublish", "arm"} /\ ~task[t].auth
NeverStranded ==
  \A c \in 1 .. made : (~conn[c].closed /\ conn[c].state \in {"connecting", "failed"}) => Ahead(c)

\* "There is no attempt cap: a laptop that was asleep for an hour has to come back
\* without an operator" (connection.rs): once the faults are over, a connection in
\* use, in which no dial overtook a task, is ready on a session that lives, or asks to
\* be authorized.
Serving(c) == conn[c].state = "ready" /\ conn[c].session # 0 /\ Live(<<c, conn[c].session>>)
ComesBack ==
  <>[](\A c \in 1 .. made :
         conn[c].closed \/ conn[c].overtaken \/ conn[c].state = "auth" \/ Serving(c))

\* "Bumped on every (re)connect so a slow attempt cannot publish over a new one"
\* (connection.rs, generation): what is about to be published is the newest dial's.
NewestPublishes == \A t \in Tasks : At(t, "publish") => conn[t[1]].gen = t[2]

\* "The tools go now rather than when the close resolves" (manager.rs, retire): no
\* tool of a connection that has left the map is registered once its close is over.
RetiredOffersNothing == \A c \in Conns : retiring[c] = "done" => sink # c
=============================================================================
