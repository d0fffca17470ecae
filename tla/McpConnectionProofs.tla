------------------------- MODULE McpConnectionProofs -------------------------
(* Theorems about McpConnection, for any number of connections, dials, edits *)
(* and faults.                                                               *)
EXTENDS McpConnection, TLAPS

-----------------------------------------------------------------------------
(* The inductive invariant. *)

Pending == {"connecting", "opened", "adopt"}
Leaving == {"drop", "unpublish", "arm"}

\* Generations are given out in order, to dials, and by connections that were made.
GenInv ==
  /\ \A t \in Tasks : task[t].at # "none" => t[2] <= conn[t[1]].gen
  /\ \A t \in Tasks : t[3] = "watch" => task[t].at \notin Pending
  /\ \A c \in Conns : conn[c].gen # 0 \/ conn[c].spawned \/ retiring[c] # "no" => c <= made
  /\ current <= made

\* A connection waits for its first dial, or for another, only with nothing held.
WaitInv ==
  \A c \in Conns :
    /\ conn[c].gen = 0 => conn[c].session = 0 /\ ~conn[c].timer /\ ~conn[c].closed
    /\ conn[c].spawned => conn[c].gen = 0 \/ conn[c].closed
    /\ conn[c].timer => conn[c].session = 0 /\ ~conn[c].closed
    /\ \A t \in Tasks : t[1] = c /\ task[t].at \in {"unpublish", "arm"}
                          => conn[c].session = 0 \/ conn[c].closed

\* One dial at a time: while it is out the connection holds no session, has no
\* timer, and no failure is on its way to arming one.
DialInv ==
  \A c \in Conns, g \in Gens : task[<<c, g, "dial">>].at \in Pending =>
    \/ conn[c].closed /\ <<c, g>> \in fired
    \/ /\ ~conn[c].closed /\ conn[c].gen = g /\ conn[c].token = g
       /\ conn[c].session = 0 /\ ~conn[c].timer
       /\ task[Watcher(c, g)].at = "none"
       /\ \A t \in Tasks : t[1] = c => task[t].at \notin Leaving

\* A closed connection has no session that lives.
ClosedInv == \A c \in Conns, g \in Gens : conn[c].closed => ~Live(<<c, g>>)

ConnInv == /\ TypeOK /\ GenInv /\ WaitInv /\ DialInv /\ ClosedInv /\ SessionsHeld

-----------------------------------------------------------------------------
(* Shapes. *)

\* A task is of one connection, of one of its generations.
LEMMA TaskIs ==
  ASSUME NEW t \in Tasks
  PROVE  /\ t[1] \in Conns /\ t[2] \in Gens /\ t[3] \in {"dial", "watch"}
         /\ t = <<t[1], t[2], t[3]>>
         /\ <<t[1], t[2]>> \in Conns \X Gens
BY DEF Tasks

\* Generations start at one.
LEMMA GenIs ==
  ASSUME NEW t \in Tasks
  PROVE  t[2] \in Nat /\ t[2] > 0
<1>1. t[2] \in 1 .. MaxDials
  BY TaskIs DEF Gens
<1>2. QED
  BY <1>1, McpAssumption

\* A dial and a watcher are tasks, and two different ones.
LEMMA DialIs ==
  ASSUME NEW c \in Conns, NEW g \in Gens
  PROVE  /\ <<c, g, "dial">> \in Tasks /\ Watcher(c, g) \in Tasks
         /\ Watcher(c, g) # <<c, g, "dial">>
         /\ Watcher(c, g)[1] = c /\ Watcher(c, g)[2] = g /\ Watcher(c, g)[3] = "watch"
BY DEF Tasks, Watcher

\* Moving a task on.
LEMMA GotoFacts ==
  ASSUME TypeOK, NEW t \in Tasks, NEW at \in Places, Goto(t, at)
  PROVE  /\ task' \in [Tasks -> TaskRecord]
         /\ task'[t].at = at
         /\ \A u \in Tasks : u # t => task'[u].at = task[u].at
<1> DEFINE new == IF at = "done" THEN Idle(at) ELSE [task[t] EXCEPT !.at = at]
<1>1. task[t] \in TaskRecord
  BY DEF TypeOK
<1>2. Idle(at) \in TaskRecord /\ Idle(at).at = at
  BY McpAssumption DEF Idle, TaskRecord
<1>3. [task[t] EXCEPT !.at = at] \in TaskRecord /\ [task[t] EXCEPT !.at = at].at = at
  BY <1>1 DEF TaskRecord
<1>4. new \in TaskRecord /\ new.at = at
  BY <1>2, <1>3
<1>5. task' = [task EXCEPT ![t] = new]
  BY DEF Goto
<1> HIDE DEF new
<1>6. QED
  BY <1>4, <1>5 DEF TypeOK

\* Aborting a task leaves it where it is until its next await.
LEMMA AbortingFacts ==
  ASSUME TypeOK, NEW c \in Conns, NEW g
  PROVE  /\ Aborting(task, c, g) \in [Tasks -> TaskRecord]
         /\ \A u \in Tasks : Aborting(task, c, g)[u].at = task[u].at
<1>1. \A u \in Tasks : /\ task[u] \in TaskRecord
                       /\ [task[u] EXCEPT !.aborted = TRUE] \in TaskRecord
                       /\ [task[u] EXCEPT !.aborted = TRUE].at = task[u].at
  BY DEF TypeOK, TaskRecord
<1>2. QED
  BY <1>1 DEF Aborting

\* Cancelling an attempt and ending its session leave the connection no session
\* that lives but those of other attempts, and revive none.
LEMMA EndingFacts ==
  ASSUME TypeOK, NEW c \in Conns, Firing(c), Ending(c)
  PROVE  /\ fired' \subseteq Conns \X Gens
         /\ session' \in [Conns \X Gens -> Sessions]
         /\ fired \subseteq fired'
         /\ \A s \in Conns \X Gens : session'[s] = "open" => session[s] = "open"
         /\ \A g \in Gens : g = conn[c].token => <<c, g>> \in fired'
         /\ \A g \in Gens : g = conn[c].session => session'[<<c, g>>] # "open"
<1>1. fired' \subseteq Conns \X Gens /\ fired \subseteq fired'
  BY DEF Firing, TypeOK
<1>2. \A g \in Gens : g = conn[c].token => <<c, g>> \in fired'
  BY DEF Firing
<1>3. session' \in [Conns \X Gens -> Sessions]
  BY DEF Ending, TypeOK, Sessions
<1>4. \A s \in Conns \X Gens : session'[s] = "open" => session[s] = "open"
  BY DEF Ending
<1>5. ASSUME NEW g \in Gens, g = conn[c].session PROVE session'[<<c, g>>] # "open"
  <2>1. <<c, g>> \in Conns \X Gens /\ <<c, g>>[1] = c /\ <<c, g>>[2] = g
    OBVIOUS
  <2>2. QED
    BY <1>5, <2>1 DEF Ending
<1>6. QED
  BY <1>1, <1>2, <1>3, <1>4, <1>5

\* A connection is a record.
LEMMA ConnIs ==
  ASSUME TypeOK, NEW c \in Conns
  PROVE  /\ conn[c] \in Inner /\ conn[c].gen \in 0 .. MaxDials
         /\ conn[c].session \in 0 .. MaxDials /\ conn[c].token \in 0 .. MaxDials
         /\ conn[c].closed \in BOOLEAN /\ conn[c].timer \in BOOLEAN
         /\ conn[c].spawned \in BOOLEAN
BY DEF TypeOK, Inner

-----------------------------------------------------------------------------
(* One step at a time. *)

\* What the invariant sees of the connections.
ConnsStay == \A c \in Conns :
  /\ conn'[c].gen = conn[c].gen /\ conn'[c].session = conn[c].session
  /\ conn'[c].token = conn[c].token /\ conn'[c].timer = conn[c].timer
  /\ conn'[c].spawned = conn[c].spawned /\ conn'[c].closed = conn[c].closed

\* It holds initially.
LEMMA ConnInit == Init => ConnInv
<1> SUFFICES ASSUME Init PROVE ConnInv
  OBVIOUS
<1>0. 0 \in 0 .. MaxDials /\ 0 \in 0 .. MaxConns /\ 0 \in 0 .. MaxEdits /\ 0 \in 0 .. MaxFaults
  BY McpAssumption
<1>1. New \in Inner
  BY <1>0 DEF New, Inner
<1>2. Idle("none") \in TaskRecord /\ Idle("none").at = "none"
  BY <1>0 DEF Idle, TaskRecord, Places
<1>3. TypeOK
  BY <1>0, <1>1, <1>2 DEF Init, TypeOK, Sessions
<1>4. \A t \in Tasks : task[t].at = "none"
  BY <1>2 DEF Init
<1>5. \A s \in Conns \X Gens : session[s] = "none"
  BY DEF Init
<1>6. \A c \in Conns : conn[c] = New
  BY DEF Init
<1>7. GenInv
  BY <1>0, <1>4, <1>6 DEF Init, GenInv, New, Pending
<1>8. WaitInv
  BY <1>4, <1>6 DEF WaitInv, New
<1>9. DialInv
  BY <1>4, DialIs DEF DialInv, Pending
<1>10. ClosedInv /\ SessionsHeld
  <2>1. \A c \in Conns, g \in Gens : ~Live(<<c, g>>)
    BY <1>5 DEF Live
  <2>2. QED
    BY <2>1 DEF ClosedInv, SessionsHeld
<1>11. QED
  BY <1>3, <1>7, <1>8, <1>9, <1>10 DEF ConnInv

\* A task moves on and what the invariant sees of its connection stays.  A dial
\* that opens a session has it in hand, and lets go of none that is open; a failure
\* that counts is the current generation's.
LEMMA MoveKeeps ==
  ASSUME ConnInv, TypeOK', NEW t \in Tasks, ConnsStay,
         UNCHANGED <<made, current, retiring, fired>>,
         \A u \in Tasks : u # t => task'[u].at = task[u].at,
         task[t].at # "none", task'[t].at # "none",
         task'[t].at \in Pending => task[t].at \in Pending,
         task'[t].at \in Leaving => task[t].at \in Leaving \/ (task[t].at = "failed" /\ ~Stale(t)),
         task'[t].at \in {"unpublish", "arm"} => task[t].at \in {"unpublish", "arm"},
         \A s \in Conns \X Gens : session'[s] = "open" =>
           session[s] = "open" \/ (task[t].at \in Pending /\ s = <<t[1], t[2]>> /\ s \notin fired),
         task[t].at \in Pending /\ task'[t].at \notin {"opened", "adopt"}
           => session'[<<t[1], t[2]>>] # "open" \/ (task[t].at = "connecting" /\ session' = session)
  PROVE  ConnInv'
<1>t. TypeOK /\ t[1] \in Conns /\ t[2] \in Gens
  BY TaskIs DEF ConnInv
<1>1. GenInv'
  <2>1. \A u \in Tasks : u[1] \in Conns
    BY TaskIs
  <2>2. \A u \in Tasks : /\ task'[u].at # "none" => task[u].at # "none"
                         /\ task'[u].at \in Pending => task[u].at \in Pending
    OBVIOUS
  <2>3. QED
    BY <2>1, <2>2 DEF ConnInv, GenInv, ConnsStay
<1>2. WaitInv'
  BY DEF ConnInv, WaitInv, ConnsStay
<1>3. DialInv'
  <2> SUFFICES ASSUME NEW c \in Conns, NEW g \in Gens, task'[<<c, g, "dial">>].at \in Pending
               PROVE  \/ conn'[c].closed /\ <<c, g>> \in fired'
                      \/ /\ ~conn'[c].closed /\ conn'[c].gen = g /\ conn'[c].token = g
                         /\ conn'[c].session = 0 /\ ~conn'[c].timer
                         /\ task'[Watcher(c, g)].at = "none"
                         /\ \A u \in Tasks : u[1] = c => task'[u].at \notin Leaving
    BY DEF DialInv
  <2>1. task[<<c, g, "dial">>].at \in Pending
    BY DialIs
  <2>2. CASE conn[c].closed /\ <<c, g>> \in fired
    BY <2>2 DEF ConnsStay
  <2>3. CASE ~(conn[c].closed /\ <<c, g>> \in fired)
    <3>1. /\ ~conn[c].closed /\ conn[c].gen = g /\ conn[c].token = g
          /\ conn[c].session = 0 /\ ~conn[c].timer
          /\ task[Watcher(c, g)].at = "none"
          /\ \A u \in Tasks : u[1] = c => task[u].at \notin Leaving
      BY <2>1, <2>3 DEF ConnInv, DialInv
    <3>2. t # Watcher(c, g) /\ task'[Watcher(c, g)].at = "none"
      BY <3>1, DialIs
    <3>3. ASSUME NEW u \in Tasks, u[1] = c, task'[u].at \in Leaving PROVE FALSE
      <4>1. u = t /\ task[t].at = "failed" /\ ~Stale(t)
        BY <3>1, <3>3
      <4>2. t[1] = c /\ t[2] = g /\ t[3] \in {"dial", "watch"}
        BY <3>1, <3>3, <4>1, TaskIs DEF Stale
      <4>3. t = <<c, g, "dial">> \/ t = Watcher(c, g)
        BY <4>2, TaskIs DEF Watcher
      <4>4. QED
        BY <2>1, <3>1, <4>1, <4>3 DEF Pending
    <3>4. QED
      BY <3>1, <3>2, <3>3 DEF ConnsStay
  <2>4. QED
    BY <2>2, <2>3
<1>4. ASSUME NEW c \in Conns, NEW g \in Gens, Live(<<c, g>>)'
      PROVE  /\ ~conn'[c].closed
             /\ conn'[c].session = g \/ task'[<<c, g, "dial">>].at \in {"opened", "adopt"}
  <2>1. session'[<<c, g>>] = "open" /\ <<c, g>> \notin fired
    BY <1>4 DEF Live
  <2>2. <<c, g>> \in Conns \X Gens
    OBVIOUS
  <2>3. CASE session[<<c, g>>] = "open"
    <3>1. Live(<<c, g>>)
      BY <2>1, <2>3 DEF Live
    <3>2. ~conn[c].closed
      BY <3>1 DEF ConnInv, ClosedInv
    <3>3. CASE conn[c].session = g
      BY <3>2, <3>3 DEF ConnsStay
    <3>4. CASE task[<<c, g, "dial">>].at \in {"opened", "adopt"}
      <4>1. CASE t # <<c, g, "dial">>
        BY <3>2, <3>4, <4>1, DialIs DEF ConnsStay
      <4>2. CASE t = <<c, g, "dial">>
        <5>1. t[1] = c /\ t[2] = g
          BY <4>2
        <5>2. task'[t].at \in {"opened", "adopt"}
          BY <2>1, <3>4, <4>2, <5>1 DEF Pending
        <5>3. QED
          BY <3>2, <4>2, <5>2 DEF ConnsStay
      <4>3. QED
        BY <4>1, <4>2
    <3>5. QED
      BY <3>1, <3>3, <3>4 DEF ConnInv, SessionsHeld
  <2>4. CASE session[<<c, g>>] # "open"
    <3>1. task[t].at \in Pending /\ <<c, g>> = <<t[1], t[2]>> /\ <<c, g>> \notin fired
      BY <2>1, <2>2, <2>4
    <3>2. t[1] = c /\ t[2] = g
      BY <3>1
    <3>3. t[3] = "dial"
      BY <3>1, TaskIs DEF ConnInv, GenInv
    <3>4. t = <<c, g, "dial">>
      BY <3>2, <3>3, TaskIs
    <3>5. ~conn[c].closed
      BY <3>1, <3>4 DEF ConnInv, DialInv
    <3>6. task'[t].at \in {"opened", "adopt"}
      BY <2>1, <2>4, <3>1
    <3>7. QED
      BY <3>4, <3>5, <3>6 DEF ConnsStay
  <2>5. QED
    BY <2>3, <2>4
<1>5. ClosedInv' /\ SessionsHeld'
  BY <1>4 DEF ClosedInv, SessionsHeld
<1>6. QED
  BY <1>1, <1>2, <1>3, <1>5 DEF ConnInv

\* No task moves, and no session is opened.
LEMMA RestKeeps ==
  ASSUME ConnInv, TypeOK', ConnsStay, UNCHANGED <<made, fired>>, current' <= made,
         \A u \in Tasks : task'[u].at = task[u].at,
         \A c \in Conns : retiring'[c] # "no" => c <= made,
         \A s \in Conns \X Gens : session'[s] = "open" => session[s] = "open"
  PROVE  ConnInv'
<1>1. GenInv'
  <2>1. \A u \in Tasks : u[1] \in Conns
    BY TaskIs
  <2>2. QED
    BY <2>1 DEF ConnInv, GenInv, ConnsStay
<1>2. WaitInv'
  BY DEF ConnInv, WaitInv, ConnsStay
<1>3. DialInv'
  BY DialIs DEF ConnInv, DialInv, ConnsStay
<1>4. \A c \in Conns, g \in Gens : Live(<<c, g>>)' => Live(<<c, g>>)
  BY DEF Live
<1>5. ClosedInv' /\ SessionsHeld'
  BY <1>4, DialIs DEF ConnInv, ClosedInv, SessionsHeld, ConnsStay
<1>6. QED
  BY <1>1, <1>2, <1>3, <1>5 DEF ConnInv

\* A change of one connection leaves the others.
LEMMA OneConn ==
  ASSUME TypeOK, NEW c \in Conns, NEW new \in Inner, conn' = [conn EXCEPT ![c] = new]
  PROVE  /\ conn' \in [Conns -> Inner] /\ conn'[c] = new
         /\ \A d \in Conns : d # c => conn'[d] = conn[d]
BY DEF TypeOK

\* A dial of generation g is spawned or woken: the connection has nothing.
LEMMA DialKeeps ==
  ASSUME ConnInv, NEW c \in Conns, NEW g \in Gens, g = conn[c].gen + 1, ~conn[c].closed, c <= made,
         conn[c].session = 0,
         \A t \in Tasks : t[1] = c => task[t].at \notin Leaving \cup Pending,
         conn' \in [Conns -> Inner],
         conn'[c].gen = g, conn'[c].token = g, conn'[c].session = 0,
         ~conn'[c].timer, ~conn'[c].closed, ~conn'[c].spawned,
         \A d \in Conns : d # c => conn'[d] = conn[d],
         Goto(<<c, g, "dial">>, "connecting"),
         UNCHANGED <<session, fired, manager, sink, faults>>
  PROVE  ConnInv'
<1> DEFINE t == <<c, g, "dial">>
<1>t. TypeOK /\ t \in Tasks /\ conn[c].gen \in Nat /\ g \in Nat
  BY DialIs, ConnIs, McpAssumption DEF ConnInv, Gens
<1>1. /\ task' \in [Tasks -> TaskRecord] /\ task'[t].at = "connecting"
      /\ \A u \in Tasks : u # t => task'[u].at = task[u].at
  <2>1. "connecting" \in Places
    BY DEF Places
  <2>2. QED
    BY <2>1, <1>t, GotoFacts
<1> HIDE DEF t
<1>2. TypeOK'
  BY <1>1, <1>t DEF TypeOK, manager
<1>3. t[1] = c /\ t[2] = g /\ t[3] = "dial"
  BY DEF t
<1>4. \A u \in Tasks : task[u].at # "none" /\ u[1] = c => u[2] # g
  BY <1>t DEF ConnInv, GenInv
<1>5. GenInv'
  <2>1. ASSUME NEW u \in Tasks, task'[u].at # "none" PROVE u[2] <= conn'[u[1]].gen
    <3>1. CASE u = t
      BY <3>1, <1>3, <1>t
    <3>2. CASE u # t /\ u[1] = c
      <4>1. u[2] <= conn[c].gen
        BY <3>2, <2>1, <1>1 DEF ConnInv, GenInv
      <4>0. u[2] \in Nat
        BY GenIs
      <4>2. QED
        BY <3>2, <4>0, <4>1, <1>t
    <3>3. CASE u # t /\ u[1] # c
      BY <3>3, <2>1, <1>1, TaskIs DEF ConnInv, GenInv
    <3>4. QED
      BY <3>1, <3>2, <3>3
  <2>2. ASSUME NEW u \in Tasks, u[3] = "watch" PROVE task'[u].at \notin Pending
    BY <2>2, <1>1, <1>3 DEF ConnInv, GenInv
  <2>3. \A d \in Conns : conn'[d].gen # 0 \/ conn'[d].spawned \/ retiring'[d] # "no" => d <= made'
    BY <1>t DEF ConnInv, GenInv, manager
  <2>4. current' <= made'
    BY DEF ConnInv, GenInv, manager
  <2>5. QED
    BY <2>1, <2>2, <2>3, <2>4 DEF GenInv
<1>6. WaitInv'
  <2> SUFFICES ASSUME NEW d \in Conns
               PROVE  /\ conn'[d].gen = 0 => conn'[d].session = 0 /\ ~conn'[d].timer /\ ~conn'[d].closed
                      /\ conn'[d].spawned => conn'[d].gen = 0 \/ conn'[d].closed
                      /\ conn'[d].timer => conn'[d].session = 0 /\ ~conn'[d].closed
                      /\ \A u \in Tasks : u[1] = d /\ task'[u].at \in {"unpublish", "arm"}
                                            => conn'[d].session = 0 \/ conn'[d].closed
    BY DEF WaitInv
  <2>1. CASE d = c
    BY <2>1
  <2>2. CASE d # c
    BY <2>2, <1>1, <1>3 DEF ConnInv, WaitInv
  <2>3. QED
    BY <2>1, <2>2
<1>7. DialInv'
  <2> SUFFICES ASSUME NEW d \in Conns, NEW h \in Gens, task'[<<d, h, "dial">>].at \in Pending
               PROVE  \/ conn'[d].closed /\ <<d, h>> \in fired'
                      \/ /\ ~conn'[d].closed /\ conn'[d].gen = h /\ conn'[d].token = h
                         /\ conn'[d].session = 0 /\ ~conn'[d].timer
                         /\ task'[Watcher(d, h)].at = "none"
                         /\ \A u \in Tasks : u[1] = d => task'[u].at \notin Leaving
    BY DEF DialInv
  <2>1. CASE d = c
    <3>1. <<d, h, "dial">> = t
      BY <2>1, <1>1, DialIs DEF t
    <3>2. h = g
      BY <3>1 DEF t
    <3>3. task'[Watcher(c, g)].at = "none"
      BY <1>1, <1>3, <1>4, DialIs
    <3>4. \A u \in Tasks : u[1] = c => task'[u].at \notin Leaving
      BY <1>1 DEF Leaving
    <3>5. QED
      BY <2>1, <3>2, <3>3, <3>4
  <2>2. CASE d # c
    <3>1. \A u \in Tasks : u[1] = d => task'[u].at = task[u].at
      BY <2>2, <1>1, <1>3
    <3>2. QED
      BY <2>2, <3>1, DialIs DEF ConnInv, DialInv
  <2>3. QED
    BY <2>1, <2>2
<1>8. ASSUME NEW d \in Conns, NEW h \in Gens, Live(<<d, h>>)'
      PROVE  /\ ~conn'[d].closed
             /\ conn'[d].session = h \/ task'[<<d, h, "dial">>].at \in {"opened", "adopt"}
  <2>1. Live(<<d, h>>)
    BY <1>8 DEF Live
  <2>2. ~conn[d].closed /\ (conn[d].session = h \/ task[<<d, h, "dial">>].at \in {"opened", "adopt"})
    BY <2>1 DEF ConnInv, ClosedInv, SessionsHeld
  <2>3. h \in Nat \ {0}
    BY McpAssumption DEF Gens
  <2>4. d # c
    BY <2>2, <2>3, DialIs DEF Pending
  <2>5. <<d, h, "dial">> # t /\ <<d, h, "dial">> \in Tasks
    BY <2>4, DialIs DEF t
  <2>6. QED
    BY <2>2, <2>4, <2>5, <1>1
<1>9. ClosedInv' /\ SessionsHeld'
  BY <1>8 DEF ClosedInv, SessionsHeld
<1>10. QED
  BY <1>2, <1>5, <1>6, <1>7, <1>9 DEF ConnInv

\* What a dial that its timer began says of the tasks it overtook.
LEMMA HastyIs ==
  ASSUME NEW c \in Conns, conn[c] \in Inner, conn \in [Conns -> Inner], Redial(c), ~conn[c].closed, ~conn'[c].overtaken
  PROVE  \A t \in Tasks : t[1] = c => task[t].at \notin Running
BY DEF Redial, Dialling, Inner, Overtakes

\* The first dial, and each later one.
LEMMA TimedKeeps ==
  ASSUME ConnInv, NEW c \in Conns, Timed(c), Calm'
  PROVE  ConnInv'
<1>t. TypeOK /\ conn[c] \in Inner /\ conn[c].gen \in Nat
  BY ConnIs, McpAssumption DEF ConnInv
<1>0. UNCHANGED <<session, fired, manager, sink, faults>>
  BY DEF Timed, Begin, Redial, Still
<1>1. CASE conn[c].closed
  <2>1. task' = task
    BY <1>1 DEF Timed, Begin, Redial, Dial
  <2>2. conn[c].timer = FALSE
    BY <1>1, <1>t, ConnIs DEF ConnInv, WaitInv
  <2>3. conn' = [conn EXCEPT ![c] = [conn[c] EXCEPT !.spawned = FALSE]]
    BY <1>1, <2>2 DEF Timed, Begin, Redial, Dialling
  <2>4. [conn[c] EXCEPT !.spawned = FALSE] \in Inner
    BY <1>t DEF Inner
  <2> DEFINE new == [conn[c] EXCEPT !.spawned = FALSE]
  <2>5. /\ new.gen = conn[c].gen /\ new.session = conn[c].session /\ new.token = conn[c].token
        /\ new.timer = conn[c].timer /\ new.closed = conn[c].closed /\ new.spawned = FALSE
    BY <1>t DEF Inner
  <2> HIDE DEF new
  <2>6. conn' \in [Conns -> Inner] /\ conn'[c] = new /\ \A d \in Conns : d # c => conn'[d] = conn[d]
    BY <1>t, <2>3, <2>4, OneConn DEF new
  <2>7. TypeOK'
    BY <1>0, <1>t, <2>1, <2>6 DEF TypeOK, manager
  <2>8. GenInv' /\ DialInv'
    <3>0. \A d \in Conns : conn'[d].spawned => conn[d].spawned
      BY <2>5, <2>6
    <3>1. \A d \in Conns : /\ conn'[d].gen = conn[d].gen /\ conn'[d].session = conn[d].session
                           /\ conn'[d].token = conn[d].token /\ conn'[d].timer = conn[d].timer
                           /\ conn'[d].closed = conn[d].closed
      BY <2>5, <2>6
    <3>2. \A u \in Tasks : u[1] \in Conns
      BY TaskIs
    <3>3. QED
      BY <1>0, <2>1, <3>0, <3>1, <3>2 DEF ConnInv, GenInv, DialInv, manager
  <2>9. WaitInv'
    BY <2>1, <2>5, <2>6 DEF ConnInv, WaitInv
  <2>10. ClosedInv' /\ SessionsHeld'
    BY <1>0, <2>1, <2>5, <2>6 DEF ConnInv, ClosedInv, SessionsHeld, Live
  <2>11. QED
    BY <2>7, <2>8, <2>9, <2>10 DEF ConnInv
<1>2. CASE ~conn[c].closed
  <2> DEFINE g == conn[c].gen + 1
  <2>1. g \in Gens /\ Goto(<<c, g, "dial">>, "connecting")
    BY <1>2 DEF Timed, Begin, Redial, Dial
  <2>2. PICK inner \in Inner :
          /\ conn' = [conn EXCEPT ![c] = [inner EXCEPT !.gen = @ + 1, !.state = "connecting",
                                                       !.token = conn[c].gen + 1]]
          /\ inner.gen = conn[c].gen /\ inner.session = conn[c].session /\ inner.closed = conn[c].closed
          /\ ~inner.timer /\ ~inner.spawned
    <3>1. CASE Begin(c)
      <4>1. conn[c].spawned /\ conn[c].timer = FALSE
        BY <3>1, <1>2, <1>t, ConnIs DEF Begin, ConnInv, WaitInv
      <4> DEFINE inner == [conn[c] EXCEPT !.spawned = FALSE]
      <4>2. inner \in Inner
        BY <1>t DEF Inner
      <4>3. inner.gen = conn[c].gen /\ inner.session = conn[c].session /\ inner.closed = conn[c].closed
            /\ ~inner.timer /\ ~inner.spawned
        BY <4>1, <1>t DEF Inner
      <4>4. conn' = [conn EXCEPT ![c] = [inner EXCEPT !.gen = @ + 1, !.state = "connecting",
                                                      !.token = conn[c].gen + 1]]
        BY <3>1, <1>2, <1>t DEF Begin, Dialling, TypeOK
      <4>5. QED
        BY <4>2, <4>3, <4>4
    <3>2. CASE Redial(c)
      <4>1. conn[c].timer /\ conn[c].gen # 0
        BY <3>2, <1>2 DEF Redial, ConnInv, WaitInv
      <4>2. conn[c].spawned = FALSE
        BY <4>1, <1>2, <1>t, ConnIs DEF ConnInv, WaitInv
      <4> DEFINE inner == [conn[c] EXCEPT !.timer = FALSE, !.overtaken = Overtakes(c)]
      <4>3. inner \in Inner
        <5>1. Overtakes(c) \in BOOLEAN
          BY <1>t DEF Inner, Overtakes
        <5>2. QED
          BY <5>1, <1>t DEF Inner
      <4>4. inner.gen = conn[c].gen /\ inner.session = conn[c].session /\ inner.closed = conn[c].closed
            /\ ~inner.timer /\ ~inner.spawned
        BY <4>2, <1>t DEF Inner
      <4>5. conn' = [conn EXCEPT ![c] = [inner EXCEPT !.gen = @ + 1, !.state = "connecting",
                                                      !.token = conn[c].gen + 1]]
        <5>1. conn' = [conn EXCEPT ![c] = Dialling(c, inner)]
          BY <3>2 DEF Redial
        <5>2. Dialling(c, inner) = [inner EXCEPT !.gen = @ + 1, !.state = "connecting",
                                                 !.token = conn[c].gen + 1]
          BY <1>2 DEF Dialling
        <5>3. QED
          BY ONLY <5>1, <5>2
      <4>6. QED
        BY <4>3, <4>4, <4>5
    <3>3. QED
      BY <3>1, <3>2 DEF Timed
  <2>3. /\ conn' \in [Conns -> Inner] /\ \A d \in Conns : d # c => conn'[d] = conn[d]
        /\ conn'[c].gen = g /\ conn'[c].token = g /\ conn'[c].session = conn[c].session
        /\ ~conn'[c].timer /\ ~conn'[c].closed /\ ~conn'[c].spawned
    <3> DEFINE new == [inner EXCEPT !.gen = @ + 1, !.state = "connecting", !.token = conn[c].gen + 1]
    <3>1. g \in 0 .. MaxDials
      BY <2>1, McpAssumption DEF Gens
    <3>2. new \in Inner /\ new.gen = g /\ new.token = g /\ new.session = conn[c].session
          /\ new.closed = conn[c].closed /\ ~new.timer /\ ~new.spawned
      BY <2>2, <3>1 DEF Inner
    <3> HIDE DEF new, g
    <3>3. conn' = [conn EXCEPT ![c] = new]
      BY <2>2 DEF new
    <3>4. QED
      BY <1>2, <1>t, <3>2, <3>3, OneConn
  <2>4. /\ conn[c].session = 0
        /\ \A t \in Tasks : t[1] = c => task[t].at \notin Leaving \cup Pending
    <3>1. CASE Begin(c)
      <4>1. conn[c].gen = 0 /\ conn[c].session = 0
        BY <3>1, <1>2 DEF Begin, ConnInv, WaitInv
      <4>2. \A t \in Tasks : t[1] = c => task[t].at = "none"
        <5>1. \A t \in Tasks : t[2] \in Nat /\ t[2] > 0
          BY GenIs
        <5>2. \A t \in Tasks : task[t].at # "none" => t[2] <= conn[t[1]].gen
          BY DEF ConnInv, GenInv
        <5>4. QED
          BY <4>1, <5>1, <5>2
      <4>3. QED
        BY <4>1, <4>2 DEF Leaving, Pending
    <3>2. CASE Redial(c)
      <4>1. conn[c].timer /\ conn[c].session = 0
        BY <3>2 DEF Redial, ConnInv, WaitInv
      <4>0. \A t \in Tasks : t[1] = c => task[t].at \notin Running
        <5>1. conn[c] \in Inner /\ conn \in [Conns -> Inner] /\ ~conn'[c].overtaken
          BY <1>t DEF Calm, TypeOK
        <5>2. QED
          BY <3>2, <1>2, <5>1, HastyIs
      <4>2. ASSUME NEW t \in Tasks, t[1] = c, task[t].at = "connecting" PROVE FALSE
        <5>1. t = <<c, t[2], "dial">> /\ t[2] \in Gens
          BY <4>2, TaskIs DEF ConnInv, GenInv, Pending
        <5>2. task[<<c, t[2], "dial">>].at \in Pending
          BY <4>2, <5>1 DEF Pending
        <5>3. QED
          BY <1>2, <4>1, <5>1, <5>2 DEF ConnInv, DialInv
      <4>3. QED
        BY <4>0, <4>1, <4>2 DEF Leaving, Pending, Running
    <3>3. QED
      BY <3>1, <3>2 DEF Timed
  <2>5. c <= made
    <3>1. conn[c].gen # 0 \/ conn[c].spawned
      BY <1>2 DEF Timed, Begin, Redial, ConnInv, WaitInv
    <3>2. QED
      BY <3>1 DEF ConnInv, GenInv
  <2>6. QED
    BY <1>0, <1>2, <2>1, <2>3, <2>4, <2>5, DialKeeps
<1>3. QED
  BY <1>1, <1>2

\* A session is kept: the connection has none, or is closed and the attempt fired.
LEMMA AdoptKeeps ==
  ASSUME ConnInv, NEW t \in Tasks, Adopt(t)
  PROVE  ConnInv'
<1> DEFINE c == t[1]
           g == t[2]
           new == [conn[c] EXCEPT !.session = g, !.watcher = g]
<1>t. TypeOK /\ c \in Conns /\ g \in Gens /\ g \in 0 .. MaxDials /\ conn[c] \in Inner
  <2>1. TypeOK /\ c \in Conns /\ g \in Gens
    BY TaskIs DEF ConnInv
  <2>2. conn[c] \in Inner
    BY <2>1 DEF TypeOK
  <2>3. g \in 0 .. MaxDials
    BY <2>1, McpAssumption DEF Gens
  <2>4. QED
    BY <2>1, <2>2, <2>3
<1>0. t = <<c, g, "dial">> /\ task[t].at = "adopt"
  BY TaskIs DEF Adopt, At, ConnInv, GenInv, Pending
<1> HIDE DEF c, g
<1>1. /\ UNCHANGED <<session, fired, faults, manager, sink>>
      /\ conn' = [conn EXCEPT ![c] = new]
      /\ task' = [Aborting(task, c, conn[c].watcher)
                    EXCEPT ![t].at = "list", ![Watcher(c, g)].at = "waiting"]
  BY <1>t DEF Adopt, Still, c, g, TypeOK
<1>2. /\ new \in Inner /\ new.session = g /\ new.gen = conn[c].gen /\ new.token = conn[c].token
      /\ new.timer = conn[c].timer /\ new.closed = conn[c].closed /\ new.spawned = conn[c].spawned
  BY <1>t DEF Inner
<1> HIDE DEF new
<1>3. /\ conn' \in [Conns -> Inner] /\ conn'[c] = new
      /\ \A d \in Conns : d # c => conn'[d] = conn[d]
  BY <1>t, <1>1, <1>2, OneConn
<1>4. /\ task' \in [Tasks -> TaskRecord] /\ task'[t].at = "list"
      /\ task'[Watcher(c, g)].at = "waiting"
      /\ \A u \in Tasks : u # t /\ u # Watcher(c, g) => task'[u].at = task[u].at
  <2> DEFINE tk == Aborting(task, c, conn[c].watcher)
             w == Watcher(c, g)
  <2>1. tk \in [Tasks -> TaskRecord] /\ \A u \in Tasks : tk[u].at = task[u].at
    BY <1>t, AbortingFacts
  <2>2. w \in Tasks /\ w # t
    BY <1>t, <1>0, DialIs
  <2>3. task' = [tk EXCEPT ![t].at = "list", ![w].at = "waiting"]
    BY <1>1
  <2> HIDE DEF tk, w
  <2>4. /\ [tk[t] EXCEPT !.at = "list"] \in TaskRecord /\ [tk[w] EXCEPT !.at = "waiting"] \in TaskRecord
        /\ [tk[t] EXCEPT !.at = "list"].at = "list" /\ [tk[w] EXCEPT !.at = "waiting"].at = "waiting"
    BY <2>1, <2>2 DEF TaskRecord, Places
  <2>5. /\ task'[t] = [tk[t] EXCEPT !.at = "list"] /\ task'[w] = [tk[w] EXCEPT !.at = "waiting"]
        /\ \A u \in Tasks : u # t /\ u # w => task'[u] = tk[u]
        /\ DOMAIN task' = Tasks /\ task' = [u \in Tasks |-> task'[u]]
    BY <2>1, <2>2, <2>3
  <2>6. \A u \in Tasks : task'[u] \in TaskRecord
    BY <2>1, <2>4, <2>5
  <2>7. task' \in [Tasks -> TaskRecord]
    BY <2>5, <2>6
  <2>8. QED
    BY <2>1, <2>4, <2>5, <2>7 DEF w
<1>5. TypeOK'
  BY <1>1, <1>3, <1>4, <1>t DEF TypeOK, manager
<1>6. /\ Watcher(c, g) \in Tasks /\ Watcher(c, g)[1] = c /\ Watcher(c, g)[2] = g
      /\ Watcher(c, g)[3] = "watch" /\ t[1] = c /\ t[2] = g /\ t[3] = "dial"
  BY <1>t, <1>0, DialIs DEF c, g
<1>7. \/ conn[c].closed /\ <<c, g>> \in fired
      \/ /\ ~conn[c].closed /\ conn[c].gen = g /\ conn[c].session = 0 /\ ~conn[c].timer
         /\ \A u \in Tasks : u[1] = c => task[u].at \notin Leaving
  <2>1. task[<<c, g, "dial">>].at \in Pending
    BY <1>0 DEF Pending
  <2>2. QED
    BY <2>1, <1>t DEF ConnInv, DialInv
<1>8. g <= conn[c].gen /\ conn[c].gen # 0
  <2>1. t[2] <= conn[t[1]].gen
    BY <1>0 DEF ConnInv, GenInv
  <2>2. t[2] \in Nat /\ t[2] > 0
    BY GenIs
  <2>3. QED
    BY <2>1, <2>2, <1>6
<1>9. GenInv'
  <2>1. \A u \in Tasks : u[1] \in Conns
    BY TaskIs
  <2>2. ASSUME NEW u \in Tasks, task'[u].at # "none" PROVE u[2] <= conn'[u[1]].gen
    <3>1. \A d \in Conns : conn'[d].gen = conn[d].gen
      BY <1>2, <1>3
    <3>2. CASE u = t \/ u = Watcher(c, g)
      BY <3>1, <3>2, <1>6, <1>8, <1>t
    <3>3. CASE u # t /\ u # Watcher(c, g)
      BY <3>1, <3>3, <2>1, <2>2, <1>4 DEF ConnInv, GenInv
    <3>4. QED
      BY <3>2, <3>3
  <2>3. ASSUME NEW u \in Tasks, u[3] = "watch" PROVE task'[u].at \notin Pending
    BY <2>3, <1>4, <1>6 DEF ConnInv, GenInv, Pending
  <2>4. \A d \in Conns : conn'[d].gen # 0 \/ conn'[d].spawned \/ retiring'[d] # "no" => d <= made'
    BY <1>1, <1>2, <1>3 DEF ConnInv, GenInv, manager
  <2>5. QED
    BY <2>2, <2>3, <2>4, <1>1 DEF ConnInv, GenInv, manager
<1>10. WaitInv'
  <2> SUFFICES ASSUME NEW d \in Conns
               PROVE  /\ conn'[d].gen = 0 => conn'[d].session = 0 /\ ~conn'[d].timer /\ ~conn'[d].closed
                      /\ conn'[d].spawned => conn'[d].gen = 0 \/ conn'[d].closed
                      /\ conn'[d].timer => conn'[d].session = 0 /\ ~conn'[d].closed
                      /\ \A u \in Tasks : u[1] = d /\ task'[u].at \in {"unpublish", "arm"}
                                            => conn'[d].session = 0 \/ conn'[d].closed
    BY DEF WaitInv
  <2>1. \A u \in Tasks : task'[u].at \in {"unpublish", "arm"} => task[u].at \in {"unpublish", "arm"}
    BY <1>4
  <2>2. CASE d = c
    <3>1. conn[c].timer => ~conn[c].closed
      BY <1>t DEF ConnInv, WaitInv
    <3>2. conn[c].spawned => conn[c].gen = 0 \/ conn[c].closed
      BY <1>t DEF ConnInv, WaitInv
    <3>3. QED
      BY <2>1, <2>2, <3>1, <3>2, <1>2, <1>3, <1>7, <1>8 DEF Leaving
  <2>3. CASE d # c
    BY <2>1, <2>3, <1>3 DEF ConnInv, WaitInv
  <2>4. QED
    BY <2>2, <2>3
<1>11. DialInv'
  <2> SUFFICES ASSUME NEW d \in Conns, NEW h \in Gens, task'[<<d, h, "dial">>].at \in Pending
               PROVE  \/ conn'[d].closed /\ <<d, h>> \in fired'
                      \/ /\ ~conn'[d].closed /\ conn'[d].gen = h /\ conn'[d].token = h
                         /\ conn'[d].session = 0 /\ ~conn'[d].timer
                         /\ task'[Watcher(d, h)].at = "none"
                         /\ \A u \in Tasks : u[1] = d => task'[u].at \notin Leaving
    BY DEF DialInv
  <2>1. <<d, h, "dial">> # t /\ <<d, h, "dial">> # Watcher(c, g) /\ <<d, h, "dial">> \in Tasks
    BY <1>4, DialIs DEF Pending, Watcher
  <2>2. task[<<d, h, "dial">>].at \in Pending
    BY <2>1, <1>4
  <2>3. CASE d = c
    <3>1. h # g
      BY <2>1, <2>3, <1>0
    <3>2. conn[c].closed /\ <<c, h>> \in fired
      BY <2>2, <2>3, <3>1, <1>7 DEF ConnInv, DialInv
    <3>3. QED
      BY <2>3, <3>2, <1>1, <1>2, <1>3
  <2>4. CASE d # c
    <3>1. \A u \in Tasks : u[1] = d => task'[u].at = task[u].at
      BY <2>4, <1>4, <1>6
    <3>2. Watcher(d, h) \in Tasks /\ Watcher(d, h)[1] = d
      BY DialIs
    <3>3. QED
      BY <2>2, <2>4, <3>1, <3>2, <1>1, <1>3 DEF ConnInv, DialInv
  <2>5. QED
    BY <2>3, <2>4
<1>12. ASSUME NEW d \in Conns, NEW h \in Gens, Live(<<d, h>>)'
       PROVE  /\ ~conn'[d].closed
              /\ conn'[d].session = h \/ task'[<<d, h, "dial">>].at \in {"opened", "adopt"}
  <2>1. Live(<<d, h>>)
    BY <1>12, <1>1 DEF Live
  <2>2. ~conn[d].closed /\ (conn[d].session = h \/ task[<<d, h, "dial">>].at \in {"opened", "adopt"})
    BY <2>1 DEF ConnInv, ClosedInv, SessionsHeld
  <2>3. <<d, h, "dial">> \in Tasks /\ <<d, h, "dial">> # Watcher(c, g)
    BY DialIs DEF Watcher
  <2>4. CASE d = c
    <3>1. conn[c].session = 0 /\ h # 0 /\ conn[c].gen = g
      BY <2>2, <2>4, <1>7, McpAssumption DEF Gens
    <3>2. task[<<c, h, "dial">>].at \in Pending
      BY <2>2, <2>4, <3>1 DEF Pending
    <3>3. h = g
      BY <2>2, <2>4, <3>1, <3>2 DEF ConnInv, DialInv
    <3>4. QED
      BY <2>2, <2>4, <3>3, <1>2, <1>3
  <2>5. CASE d # c
    <3>1. <<d, h, "dial">> # t
      BY <2>5, <1>0
    <3>2. QED
      BY <2>2, <2>3, <2>5, <3>1, <1>3, <1>4
  <2>6. QED
    BY <2>4, <2>5
<1>13. ClosedInv' /\ SessionsHeld'
  BY <1>12 DEF ClosedInv, SessionsHeld
<1>14. QED
  BY <1>5, <1>9, <1>10, <1>11, <1>13 DEF ConnInv

\* A failure that counts takes the attempt and its session with it, and a close
\* the connection's; neither meets a dial that is out and not cancelled by it.
LEMMA DropKeeps ==
  ASSUME ConnInv, NEW c \in Conns, NEW new \in Inner, Firing(c), Ending(c), TypeOK',
         conn' = [conn EXCEPT ![c] = new],
         new.session = 0, new.gen >= conn[c].gen, new.gen # 0,
         new.timer => conn[c].timer, new.spawned = conn[c].spawned,
         new.closed = conn[c].closed \/ (new.closed /\ ~new.timer),
         \A t \in Tasks : /\ task'[t].at # "none" <=> task[t].at # "none"
                          /\ task'[t].at \in Pending <=> task[t].at \in Pending
                          /\ task'[t].at \in Pending => task'[t].at = task[t].at
                          /\ t[1] # c => task'[t].at = task[t].at,
         new.closed \/ \A g \in Gens : task[<<c, g, "dial">>].at \notin Pending,
         ~new.closed => new.gen = conn[c].gen,
         made' = made, current' = current, c <= made,
         \A d \in Conns : d # c => retiring'[d] = retiring[d]
  PROVE  ConnInv'
<1>t. TypeOK /\ conn[c].gen \in Nat /\ new.gen \in Nat
  BY ConnIs, McpAssumption DEF ConnInv, Inner
<1>1. conn'[c] = new /\ \A d \in Conns : d # c => conn'[d] = conn[d]
  BY <1>t, OneConn
<1>2. /\ fired \subseteq fired'
      /\ \A s \in Conns \X Gens : session'[s] = "open" => session[s] = "open"
      /\ \A g \in Gens : g = conn[c].token => <<c, g>> \in fired'
      /\ \A g \in Gens : g = conn[c].session => session'[<<c, g>>] # "open"
  BY <1>t, EndingFacts
<1>3. GenInv'
  <2>1. ASSUME NEW u \in Tasks, task'[u].at # "none" PROVE u[2] <= conn'[u[1]].gen
    <3>1. u[2] <= conn[u[1]].gen /\ u[2] \in Nat /\ u[1] \in Conns
      BY <2>1, TaskIs, GenIs DEF ConnInv, GenInv
    <3>2. QED
      BY <3>1, <1>1, <1>t
  <2>2. \A u \in Tasks : u[3] = "watch" => task'[u].at \notin Pending
    BY DEF ConnInv, GenInv
  <2>3. \A d \in Conns : conn'[d].gen # 0 \/ conn'[d].spawned \/ retiring'[d] # "no" => d <= made'
    BY <1>1 DEF ConnInv, GenInv
  <2>4. QED
    BY <2>1, <2>2, <2>3 DEF ConnInv, GenInv
<1>4. WaitInv'
  <2> SUFFICES ASSUME NEW d \in Conns
               PROVE  /\ conn'[d].gen = 0 => conn'[d].session = 0 /\ ~conn'[d].timer /\ ~conn'[d].closed
                      /\ conn'[d].spawned => conn'[d].gen = 0 \/ conn'[d].closed
                      /\ conn'[d].timer => conn'[d].session = 0 /\ ~conn'[d].closed
                      /\ \A u \in Tasks : u[1] = d /\ task'[u].at \in {"unpublish", "arm"}
                                            => conn'[d].session = 0 \/ conn'[d].closed
    BY DEF WaitInv
  <2>1. CASE d = c
    <3>1. conn[c].spawned => conn[c].gen = 0 \/ conn[c].closed
      BY DEF ConnInv, WaitInv
    <3>2. conn[c].timer => ~conn[c].closed
      BY DEF ConnInv, WaitInv
    <3>3. new.spawned => new.closed
      <4>1. ASSUME new.spawned, ~new.closed PROVE FALSE
        BY <3>1, <4>1
      <4>2. QED
        BY <4>1
    <3>4. QED
      BY <2>1, <3>2, <3>3, <1>1
  <2>2. CASE d # c
    BY <2>2, <1>1 DEF ConnInv, WaitInv
  <2>3. QED
    BY <2>1, <2>2
<1>5. DialInv'
  <2> SUFFICES ASSUME NEW d \in Conns, NEW h \in Gens, task'[<<d, h, "dial">>].at \in Pending
               PROVE  \/ conn'[d].closed /\ <<d, h>> \in fired'
                      \/ /\ ~conn'[d].closed /\ conn'[d].gen = h /\ conn'[d].token = h
                         /\ conn'[d].session = 0 /\ ~conn'[d].timer
                         /\ task'[Watcher(d, h)].at = "none"
                         /\ \A u \in Tasks : u[1] = d => task'[u].at \notin Leaving
    BY DEF DialInv
  <2>1. task[<<d, h, "dial">>].at \in Pending
    BY DialIs
  <2>2. CASE d = c
    <3>1. new.closed
      BY <2>1, <2>2
    <3>2. <<c, h>> \in fired'
      BY <2>1, <2>2, <1>2 DEF ConnInv, DialInv
    <3>3. QED
      BY <2>2, <3>1, <3>2, <1>1
  <2>3. CASE d # c
    <3>1. Watcher(d, h) \in Tasks /\ Watcher(d, h)[1] = d
      BY DialIs
    <3>2. QED
      BY <2>1, <2>3, <3>1, <1>1, <1>2 DEF ConnInv, DialInv
  <2>4. QED
    BY <2>2, <2>3
<1>6. ASSUME NEW d \in Conns, NEW h \in Gens, Live(<<d, h>>)'
      PROVE  /\ ~conn'[d].closed
             /\ conn'[d].session = h \/ task'[<<d, h, "dial">>].at \in {"opened", "adopt"}
  <2>0. <<d, h>> \in Conns \X Gens
    OBVIOUS
  <2>1. Live(<<d, h>>) /\ session'[<<d, h>>] = "open" /\ <<d, h>> \notin fired'
    BY <1>6, <1>2, <2>0 DEF Live
  <2>2. ~conn[d].closed /\ (conn[d].session = h \/ task[<<d, h, "dial">>].at \in {"opened", "adopt"})
    BY <2>1 DEF ConnInv, ClosedInv, SessionsHeld
  <2>3. CASE d = c
    <3>1. task[<<c, h, "dial">>].at \in {"opened", "adopt"}
      BY <2>1, <2>2, <2>3, <1>2
    <3>2. task[<<c, h, "dial">>].at \in Pending
      BY <3>1 DEF Pending
    <3>3. conn[c].token = h
      BY <2>2, <2>3, <3>2 DEF ConnInv, DialInv
    <3>4. QED
      BY <2>1, <2>3, <3>3, <1>2
  <2>4. CASE d # c
    BY <2>2, <2>4, <1>1, DialIs
  <2>5. QED
    BY <2>3, <2>4
<1>7. ClosedInv' /\ SessionsHeld'
  BY <1>6 DEF ClosedInv, SessionsHeld
<1>8. QED
  BY <1>3, <1>4, <1>5, <1>7 DEF ConnInv

\* A failure of the current generation, or of a connection that was closed since.
LEMMA FailKeeps ==
  ASSUME ConnInv, NEW t \in Tasks, Fail(t)
  PROVE  ConnInv'
<1> DEFINE c == t[1]
           state == IF task[t].auth THEN "auth" ELSE "failed"
           new == [conn[c] EXCEPT !.listed = FALSE, !.watcher = 0, !.token = 0, !.session = 0,
                                  !.state = state]
<1>t. TypeOK /\ c \in Conns /\ conn[c] \in Inner /\ task[t].at = "drop" /\ conn[c].gen \in Nat
  <2>1. TypeOK /\ c \in Conns /\ task[t].at = "drop"
    BY TaskIs DEF ConnInv, Fail, At
  <2>2. conn[c] \in Inner /\ conn[c].gen \in 0 .. MaxDials
    BY <2>1, ConnIs
  <2>3. QED
    BY <2>1, <2>2, McpAssumption
<1>0. t[1] = c
  OBVIOUS
<1> HIDE DEF c
<1>1. /\ conn' = [conn EXCEPT ![c] = new] /\ Firing(c) /\ Ending(c)
      /\ task' = [Aborting(task, c, conn[c].watcher) EXCEPT ![t].at = "unpublish"]
      /\ UNCHANGED <<faults, manager, sink>>
  BY <1>t DEF Fail, Still, c, TypeOK
<1>2. /\ new \in Inner /\ new.session = 0 /\ new.gen = conn[c].gen
      /\ new.timer = conn[c].timer /\ new.closed = conn[c].closed /\ new.spawned = conn[c].spawned
  <2>1. state \in {"connecting", "ready", "auth", "failed", "disabled"}
    OBVIOUS
  <2>2. 0 \in 0 .. MaxDials
    BY McpAssumption
  <2> HIDE DEF state
  <2>3. QED
    BY <2>1, <2>2, <1>t DEF Inner
<1> HIDE DEF new
<1>3. /\ task' \in [Tasks -> TaskRecord] /\ task'[t].at = "unpublish"
      /\ \A u \in Tasks : u # t => task'[u].at = task[u].at
  <2> DEFINE tk == Aborting(task, c, conn[c].watcher)
  <2>1. tk \in [Tasks -> TaskRecord] /\ \A u \in Tasks : tk[u].at = task[u].at
    BY <1>t, AbortingFacts
  <2>2. task' = [tk EXCEPT ![t].at = "unpublish"]
    BY <1>1
  <2> HIDE DEF tk
  <2>3. [tk[t] EXCEPT !.at = "unpublish"] \in TaskRecord /\ [tk[t] EXCEPT !.at = "unpublish"].at = "unpublish"
    BY <2>1 DEF TaskRecord, Places
  <2>4. QED
    BY <2>1, <2>2, <2>3
<1>4. TypeOK'
  <2>1. conn' \in [Conns -> Inner]
    BY <1>t, <1>1, <1>2, OneConn
  <2>2. fired' \subseteq Conns \X Gens /\ session' \in [Conns \X Gens -> Sessions]
    BY <1>t, <1>1, EndingFacts
  <2>3. QED
    BY <1>t, <1>1, <1>3, <2>1, <2>2 DEF TypeOK, manager
<1>5. conn[c].gen # 0 /\ c <= made
  <2>1. t[2] <= conn[c].gen /\ t[2] \in Nat /\ t[2] > 0
    BY <1>t, <1>0, GenIs DEF ConnInv, GenInv
  <2>2. conn[c].gen # 0
    BY <2>1, <1>t
  <2>3. QED
    BY <2>2, <1>t DEF ConnInv, GenInv
<1>6. conn[c].closed \/ \A g \in Gens : task[<<c, g, "dial">>].at \notin Pending
  BY <1>t, <1>0 DEF ConnInv, DialInv, Leaving
<1>7. /\ new.gen >= conn[c].gen /\ new.gen # 0 /\ (new.timer => conn[c].timer)
      /\ new.closed = conn[c].closed \/ (new.closed /\ ~new.timer)
      /\ new.closed \/ \A g \in Gens : task[<<c, g, "dial">>].at \notin Pending
      /\ ~new.closed => new.gen = conn[c].gen
  <2>1. new.gen >= conn[c].gen /\ new.gen # 0
    BY <1>t, <1>2, <1>5
  <2>2. new.closed \/ \A g \in Gens : task[<<c, g, "dial">>].at \notin Pending
    BY <1>2, <1>6
  <2>3. (new.timer => conn[c].timer) /\ (~new.closed => new.gen = conn[c].gen)
    BY <1>2
  <2>4. new.closed = conn[c].closed
    BY <1>2
  <2>5. QED
    BY <2>1, <2>2, <2>3, <2>4
<1>8. \A u \in Tasks : /\ task'[u].at # "none" <=> task[u].at # "none"
                       /\ task'[u].at \in Pending <=> task[u].at \in Pending
                       /\ task'[u].at \in Pending => task'[u].at = task[u].at
                       /\ u[1] # c => task'[u].at = task[u].at
  BY <1>t, <1>0, <1>3 DEF Pending
<1>9. made' = made /\ current' = current /\ \A d \in Conns : d # c => retiring'[d] = retiring[d]
  BY <1>1 DEF manager
<1>10. c \in Conns /\ new \in Inner /\ new.session = 0 /\ new.spawned = conn[c].spawned /\ c <= made
  BY <1>t, <1>2, <1>5
<1>11. QED
  BY <1>1, <1>4, <1>7, <1>8, <1>9, <1>10, DropKeeps

\* The close of a connection that was retired.
LEMMA CloseKeeps ==
  ASSUME ConnInv, NEW c \in Conns, Close(c)
  PROVE  ConnInv'
<1> DEFINE new == [conn[c] EXCEPT !.closed = TRUE, !.gen = @ + 1, !.timer = FALSE, !.watcher = 0,
                          !.token = 0, !.session = 0, !.state = "disabled", !.listed = FALSE]
<1>t. TypeOK /\ conn[c] \in Inner /\ conn[c].gen \in Nat /\ conn[c].gen < MaxDials
  <2>1. TypeOK /\ conn[c].gen < MaxDials
    BY DEF ConnInv, Close
  <2>2. conn[c] \in Inner /\ conn[c].gen \in 0 .. MaxDials
    BY <2>1, ConnIs
  <2>3. QED
    BY <2>1, <2>2, McpAssumption
<1>1. /\ conn' = [conn EXCEPT ![c] = new] /\ Firing(c) /\ Ending(c)
      /\ task' = Aborting(task, c, conn[c].watcher)
      /\ retiring[c] = "due" /\ retiring' = [retiring EXCEPT ![c] = "unpublish"]
      /\ UNCHANGED <<current, made, operator, shut, edits, sink, faults>>
  BY <1>t DEF Close, TypeOK
<1>2. /\ new \in Inner /\ new.session = 0 /\ new.gen = conn[c].gen + 1
      /\ new.timer = FALSE /\ new.closed = TRUE /\ new.spawned = conn[c].spawned
  <2>1. 0 \in 0 .. MaxDials /\ conn[c].gen + 1 \in 0 .. MaxDials
    BY <1>t, McpAssumption
  <2>2. QED
    BY <2>1, <1>t DEF Inner
<1> HIDE DEF new
<1>3. task' \in [Tasks -> TaskRecord] /\ \A u \in Tasks : task'[u].at = task[u].at
  BY <1>t, <1>1, AbortingFacts
<1>4. TypeOK'
  <2>1. conn' \in [Conns -> Inner]
    BY <1>t, <1>1, <1>2, OneConn
  <2>2. fired' \subseteq Conns \X Gens /\ session' \in [Conns \X Gens -> Sessions]
    BY <1>t, <1>1, EndingFacts
  <2>3. retiring' \in [Conns -> {"no", "due", "unpublish", "done"}]
    BY <1>t, <1>1 DEF TypeOK
  <2>4. QED
    BY <1>t, <1>1, <1>3, <2>1, <2>2, <2>3 DEF TypeOK
<1>5. c <= made
  BY <1>1 DEF ConnInv, GenInv
<1>6. new.gen >= conn[c].gen /\ new.gen # 0
  BY <1>t, <1>2
<1>7. \A d \in Conns : d # c => retiring'[d] = retiring[d]
  BY <1>t, <1>1 DEF TypeOK
<1>8. QED
  BY <1>1, <1>2, <1>3, <1>4, <1>5, <1>6, <1>7, DropKeeps

\* The timer that is armed after a failure.
LEMMA ArmKeeps ==
  ASSUME ConnInv, NEW t \in Tasks, Arm(t)
  PROVE  ConnInv'
<1> DEFINE c == t[1]
           new == [conn[c] EXCEPT !.timer = ~conn[c].closed]
<1>t. TypeOK /\ c \in Conns /\ conn[c] \in Inner /\ task[t].at = "arm"
  <2>1. TypeOK /\ c \in Conns /\ task[t].at = "arm"
    BY TaskIs DEF ConnInv, Arm, At
  <2>2. QED
    BY <2>1, ConnIs
<1>0. t[1] = c
  OBVIOUS
<1> HIDE DEF c
<1>1. /\ conn' = [conn EXCEPT ![c] = new] /\ Goto(t, "done")
      /\ UNCHANGED <<session, fired, faults, manager, sink>>
  BY <1>t DEF Arm, Still, c, TypeOK
<1>2. /\ new \in Inner /\ new.session = conn[c].session /\ new.gen = conn[c].gen
      /\ new.token = conn[c].token /\ new.timer = ~conn[c].closed
      /\ new.closed = conn[c].closed /\ new.spawned = conn[c].spawned
  BY <1>t DEF Inner
<1> HIDE DEF new
<1>3. conn' \in [Conns -> Inner] /\ conn'[c] = new /\ \A d \in Conns : d # c => conn'[d] = conn[d]
  BY <1>t, <1>1, <1>2, OneConn
<1>4. /\ task' \in [Tasks -> TaskRecord] /\ task'[t].at = "done"
      /\ \A u \in Tasks : u # t => task'[u].at = task[u].at
  <2>1. "done" \in Places
    BY DEF Places
  <2>2. QED
    BY <1>t, <1>1, <2>1, GotoFacts
<1>5. TypeOK'
  BY <1>t, <1>1, <1>3, <1>4 DEF TypeOK, manager
<1>6. conn[c].gen # 0 /\ (conn[c].session = 0 \/ conn[c].closed)
  <2>1. t[2] <= conn[c].gen /\ t[2] \in Nat /\ t[2] > 0
    BY <1>t, <1>0, GenIs DEF ConnInv, GenInv
  <2>2. QED
    BY <2>1, <1>t, <1>0 DEF ConnInv, WaitInv
<1>7. \A g \in Gens : task[<<c, g, "dial">>].at \in Pending => conn[c].closed
  BY <1>t, <1>0 DEF ConnInv, DialInv, Leaving
<1>8. \A u \in Tasks : /\ u[1] \in Conns
                       /\ task'[u].at # "none" => task[u].at # "none"
                       /\ task'[u].at \in Pending \cup Leaving => task'[u].at = task[u].at
  BY <1>t, <1>4, TaskIs DEF Pending, Leaving
<1>9. GenInv'
  BY <1>1, <1>2, <1>3, <1>8 DEF ConnInv, GenInv, manager
<1>10. WaitInv'
  <2> SUFFICES ASSUME NEW d \in Conns
               PROVE  /\ conn'[d].gen = 0 => conn'[d].session = 0 /\ ~conn'[d].timer /\ ~conn'[d].closed
                      /\ conn'[d].spawned => conn'[d].gen = 0 \/ conn'[d].closed
                      /\ conn'[d].timer => conn'[d].session = 0 /\ ~conn'[d].closed
                      /\ \A u \in Tasks : u[1] = d /\ task'[u].at \in {"unpublish", "arm"}
                                            => conn'[d].session = 0 \/ conn'[d].closed
    BY DEF WaitInv
  <2>1. CASE d = c
    <3>1. conn[c].spawned => conn[c].gen = 0 \/ conn[c].closed
      BY <1>t DEF ConnInv, WaitInv
    <3>2. QED
      BY <2>1, <3>1, <1>2, <1>3, <1>6
  <2>2. CASE d # c
    BY <2>2, <1>3, <1>8 DEF ConnInv, WaitInv, Leaving
  <2>3. QED
    BY <2>1, <2>2
<1>11. DialInv'
  <2> SUFFICES ASSUME NEW d \in Conns, NEW h \in Gens, task'[<<d, h, "dial">>].at \in Pending
               PROVE  \/ conn'[d].closed /\ <<d, h>> \in fired'
                      \/ /\ ~conn'[d].closed /\ conn'[d].gen = h /\ conn'[d].token = h
                         /\ conn'[d].session = 0 /\ ~conn'[d].timer
                         /\ task'[Watcher(d, h)].at = "none"
                         /\ \A u \in Tasks : u[1] = d => task'[u].at \notin Leaving
    BY DEF DialInv
  <2>1. task[<<d, h, "dial">>].at \in Pending
    BY <1>8, DialIs
  <2>2. CASE d = c
    <3>1. conn[c].closed
      BY <2>1, <2>2, <1>7
    <3>2. <<c, h>> \in fired
      BY <2>1, <2>2, <3>1 DEF ConnInv, DialInv
    <3>3. QED
      BY <2>2, <3>1, <3>2, <1>1, <1>2, <1>3
  <2>3. CASE d # c
    <3>1. Watcher(d, h) \in Tasks /\ Watcher(d, h)[1] = d
      BY DialIs
    <3>2. Watcher(d, h) # t
      BY <2>3, <3>1, <1>0
    <3>3. QED
      BY <2>1, <2>3, <3>1, <3>2, <1>1, <1>3, <1>4, <1>8 DEF ConnInv, DialInv
  <2>4. QED
    BY <2>2, <2>3
<1>12. ClosedInv' /\ SessionsHeld'
  <2>1. \A d \in Conns, h \in Gens : Live(<<d, h>>)' => Live(<<d, h>>)
    BY <1>1 DEF Live
  <2>2. \A d \in Conns : conn'[d].closed = conn[d].closed /\ conn'[d].session = conn[d].session
    BY <1>2, <1>3
  <2>3. \A d \in Conns, h \in Gens : task[<<d, h, "dial">>].at \in {"opened", "adopt"}
                                       => task'[<<d, h, "dial">>].at \in {"opened", "adopt"}
    BY <1>t, <1>4, DialIs
  <2>4. QED
    BY <2>1, <2>2, <2>3 DEF ConnInv, ClosedInv, SessionsHeld
<1>13. QED
  BY <1>5, <1>9, <1>10, <1>11, <1>12 DEF ConnInv

\* A connection that is made has had no dial yet, and its start is spawned.
LEMMA ApplyKeeps ==
  ASSUME ConnInv, Apply
  PROVE  ConnInv'
<1> DEFINE c == made + 1
           new == [conn[c] EXCEPT !.spawned = TRUE]
<1>t. TypeOK /\ made \in Nat /\ c \in Conns /\ conn[c] \in Inner /\ current \in Nat
  <2>1. TypeOK /\ made \in 0 .. MaxConns /\ made < MaxConns /\ current \in 0 .. MaxConns
    BY DEF ConnInv, TypeOK, Apply
  <2>2. c \in Conns /\ made \in Nat /\ current \in Nat
    BY <2>1, McpAssumption DEF Conns
  <2>3. QED
    BY <2>1, <2>2, ConnIs
<1>0. c # current /\ ~(c <= made) /\ made' = made + 1 /\ c \in Nat
  BY <1>t DEF ConnInv, GenInv, Apply
<1>1. /\ conn' = [conn EXCEPT ![c] = new]
      /\ current' = made' /\ retiring' = Retired(current) /\ edits' = edits + 1 /\ edits < MaxEdits
      /\ sink' = (IF current = 0 THEN sink ELSE 0)
      /\ UNCHANGED <<task, session, fired, operator, shut, faults>>
  BY <1>t DEF Apply, TypeOK
<1>2. /\ new \in Inner /\ new.session = conn[c].session /\ new.gen = conn[c].gen
      /\ new.token = conn[c].token /\ new.timer = conn[c].timer
      /\ new.closed = conn[c].closed
  BY <1>t DEF Inner
<1>3. conn[c].gen = 0 /\ retiring[c] = "no"
  BY <1>t, <1>0 DEF ConnInv, GenInv
<1> HIDE DEF new, c
<1>4. conn' \in [Conns -> Inner] /\ conn'[c] = new /\ \A d \in Conns : d # c => conn'[d] = conn[d]
  BY <1>t, <1>1, <1>2, OneConn
<1>5. /\ retiring' \in [Conns -> {"no", "due", "unpublish", "done"}]
      /\ \A d \in Conns : retiring'[d] # "no" => d = current \/ retiring[d] # "no"
  BY <1>t, <1>1 DEF Retired, TypeOK
<1>6. TypeOK'
  <2>1. made' \in 0 .. MaxConns /\ current' \in 0 .. MaxConns /\ edits' \in 0 .. MaxEdits /\ sink' \in 0 .. MaxConns
    BY <1>t, <1>0, <1>1, McpAssumption DEF Apply, TypeOK
  <2>2. QED
    BY <1>t, <1>1, <1>4, <1>5, <2>1 DEF TypeOK
<1>7. \A u \in Tasks : u[1] \in Conns
  BY TaskIs
<1>8. \A d \in Conns : /\ conn'[d].gen = conn[d].gen /\ conn'[d].session = conn[d].session
                       /\ conn'[d].token = conn[d].token /\ conn'[d].timer = conn[d].timer
                       /\ conn'[d].closed = conn[d].closed
                       /\ d # c => conn'[d].spawned = conn[d].spawned
  BY <1>2, <1>4
<1>9. \A d \in Conns : conn'[d].gen # 0 \/ conn'[d].spawned \/ retiring'[d] # "no" => d <= made'
  <2> SUFFICES ASSUME NEW d \in Conns, conn'[d].gen # 0 \/ conn'[d].spawned \/ retiring'[d] # "no"
               PROVE  d <= made'
    OBVIOUS
  <2>0. d \in Nat /\ current <= made
    BY McpAssumption DEF Conns, ConnInv, GenInv
  <2>1. CASE d = c
    BY <2>1, <1>0, <1>t DEF c
  <2>2. CASE d # c
    <3>1. d <= made
      BY <2>0, <2>2, <1>5, <1>8 DEF ConnInv, GenInv
    <3>2. QED
      BY <3>1, <2>0, <1>0, <1>t
  <2>3. QED
    BY <2>1, <2>2
<1>10. GenInv'
  <2>1. current' <= made'
    BY <1>0, <1>1, <1>t
  <2>2. QED
    BY <2>1, <1>1, <1>7, <1>8, <1>9 DEF ConnInv, GenInv
<1>11. WaitInv'
  BY <1>1, <1>3, <1>8 DEF ConnInv, WaitInv
<1>12. DialInv'
  BY <1>1, <1>8 DEF ConnInv, DialInv
<1>13. ClosedInv' /\ SessionsHeld'
  BY <1>1, <1>8 DEF ConnInv, ClosedInv, SessionsHeld, Live
<1>14. QED
  BY <1>6, <1>10, <1>11, <1>12, <1>13 DEF ConnInv

\* The steps of a task that the connection's session, timer and generation do not
\* depend on.
LEMMA StepKeeps ==
  ASSUME ConnInv, NEW t \in Tasks, Step(t) \/ Report(t) \/ Change(t)
  PROVE  ConnInv'
<1>t. TypeOK /\ <<t[1], t[2]>> \in Conns \X Gens /\ task[t] \in TaskRecord
  BY TaskIs DEF ConnInv, TypeOK
<1>1. ASSUME NEW at \in Places \ ({"none"} \cup Leaving \cup Pending), Goto(t, at), conn' = conn, session' = session,
             UNCHANGED <<fired, manager>>, sink' \in 0 .. MaxConns, faults' \in 0 .. MaxFaults,
             task[t].at # "none", task[t].at \notin {"opened", "adopt"}
      PROVE  ConnInv'
  <2>1. /\ task' \in [Tasks -> TaskRecord] /\ task'[t].at = at
        /\ \A u \in Tasks : u # t => task'[u].at = task[u].at
    BY <1>1, <1>t, GotoFacts
  <2>2. TypeOK' /\ ConnsStay
    BY <1>1, <1>t, <2>1 DEF TypeOK, ConnsStay, manager
  <2>3. task[t].at \in Pending => task[t].at = "connecting"
    BY <1>1 DEF Pending
  <2>4. QED
    BY <1>1, <2>1, <2>2, <2>3, MoveKeeps DEF manager, Leaving
<1>2. CASE Connect(t)
  <2> DEFINE s == <<t[1], t[2]>>
  <2>1. /\ task[t].at = "connecting" /\ s \notin fired /\ session' = [session EXCEPT ![s] = "open"]
        /\ Goto(t, "opened") /\ UNCHANGED <<conn, fired, faults, manager, sink>>
    BY <1>2 DEF Connect, At, Still
  <2>2. /\ task' \in [Tasks -> TaskRecord] /\ task'[t].at = "opened"
        /\ \A u \in Tasks : u # t => task'[u].at = task[u].at
    BY <2>1, <1>t, GotoFacts DEF Places
  <2>3. TypeOK' /\ ConnsStay
    BY <2>1, <2>2, <1>t DEF TypeOK, ConnsStay, manager, Sessions
  <2>4. \A r \in Conns \X Gens : r # s => session'[r] = session[r]
    BY <2>1, <1>t DEF TypeOK
  <2>5. QED
    BY <2>1, <2>2, <2>3, <2>4, MoveKeeps DEF manager, Leaving, Pending
<1>3. CASE Refused(t)
  <2>1. /\ task[t].at = "connecting" /\ UNCHANGED <<conn, session, fired, manager, sink>>
        /\ faults' \in 0 .. MaxFaults
    BY <1>3, <1>t, McpAssumption DEF Refused, At, Still, Fault, TypeOK
  <2>2. /\ task' \in [Tasks -> TaskRecord] /\ task'[t].at = "failed"
        /\ \A u \in Tasks : u # t => task'[u].at = task[u].at
    <3>1. CASE Goto(t, "failed")
      BY <3>1, <1>t, GotoFacts DEF Places
    <3>2. ASSUME NEW auth \in BOOLEAN, task' = [task EXCEPT ![t].at = "failed", ![t].auth = auth]
          PROVE  /\ task' \in [Tasks -> TaskRecord] /\ task'[t].at = "failed"
                 /\ \A u \in Tasks : u # t => task'[u].at = task[u].at
      <4> DEFINE new == [task[t] EXCEPT !.at = "failed", !.auth = auth]
      <4>1. new \in TaskRecord /\ new.at = "failed"
        BY <1>t DEF TaskRecord, Places
      <4>2. task' = [task EXCEPT ![t] = new]
        BY <3>2, <1>t DEF TypeOK
      <4> HIDE DEF new
      <4>3. QED
        BY <4>1, <4>2, <1>t DEF TypeOK
    <3>3. QED
      BY <1>3, <3>1, <3>2 DEF Refused
  <2>3. TypeOK' /\ ConnsStay
    BY <2>1, <2>2, <1>t DEF TypeOK, ConnsStay, manager
  <2>4. QED
    BY <2>1, <2>2, <2>3, MoveKeeps DEF manager, Leaving, Pending
<1>4. CASE Look(t)
  <2> DEFINE s == <<t[1], t[2]>>
  <2>1. task[t].at = "opened" /\ UNCHANGED <<conn, fired, faults, manager, sink>>
    BY <1>4 DEF Look, At, Still
  <2>2. CASE Stale(t)
    <3>1. session' = [session EXCEPT ![s] = "closed"] /\ Goto(t, "done")
      BY <1>4, <2>2 DEF Look
    <3>2. /\ task' \in [Tasks -> TaskRecord] /\ task'[t].at = "done"
          /\ \A u \in Tasks : u # t => task'[u].at = task[u].at
      BY <3>1, <1>t, GotoFacts DEF Places
    <3>3. \A r \in Conns \X Gens : session'[r] = "open" => session[r] = "open"
      BY <3>1, <1>t DEF TypeOK
    <3>4. session'[s] # "open"
      BY <3>1, <1>t DEF TypeOK
    <3>5. TypeOK' /\ ConnsStay
      BY <2>1, <3>1, <3>2, <1>t DEF TypeOK, ConnsStay, manager, Sessions
    <3>6. QED
      BY <2>1, <3>2, <3>3, <3>4, <3>5, MoveKeeps DEF manager, Leaving, Pending
  <2>3. CASE ~Stale(t)
    <3>1. session' = session /\ Goto(t, "adopt")
      BY <1>4, <2>3 DEF Look
    <3>2. /\ task' \in [Tasks -> TaskRecord] /\ task'[t].at = "adopt"
          /\ \A u \in Tasks : u # t => task'[u].at = task[u].at
      BY <3>1, <1>t, GotoFacts DEF Places
    <3>3. TypeOK' /\ ConnsStay
      BY <2>1, <3>1, <3>2, <1>t DEF TypeOK, ConnsStay, manager
    <3>4. QED
      BY <2>1, <3>1, <3>2, <3>3, MoveKeeps DEF manager, Leaving, Pending
  <2>4. QED
    BY <2>2, <2>3
<1>5. CASE Adopt(t)
  BY <1>5, AdoptKeeps
<1>6. CASE Ask(t)
  <2>1. task[t].at = "list" /\ UNCHANGED <<manager, conn, session, fired, sink, faults>>
    BY <1>6 DEF Ask, At, InTask
  <2>2. CASE Goto(t, Back(t))
    <3>1. Back(t) \in Places \ ({"none"} \cup Leaving \cup Pending)
      BY DEF Back, Places, Leaving, Pending
    <3>2. QED
      BY <1>1, <1>t, <2>1, <2>2, <3>1 DEF TypeOK
  <2>3. CASE task' = [task EXCEPT ![t].at = "listing", ![t].with = conn[t[1]].session, ![t].token = conn[t[1]].token]
    <3> DEFINE new == [task[t] EXCEPT !.at = "listing", !.with = conn[t[1]].session, !.token = conn[t[1]].token]
    <3>1. conn[t[1]].session \in 0 .. MaxDials /\ conn[t[1]].token \in 0 .. MaxDials
      BY <1>t, TaskIs, ConnIs
    <3>2. new \in TaskRecord /\ new.at = "listing"
      BY <3>1, <1>t DEF TaskRecord, Places
    <3>3. task' = [task EXCEPT ![t] = new]
      BY <2>3, <1>t DEF TypeOK
    <3> HIDE DEF new
    <3>4. /\ task' \in [Tasks -> TaskRecord] /\ task'[t].at = "listing"
          /\ \A u \in Tasks : u # t => task'[u].at = task[u].at
      BY <3>2, <3>3, <1>t DEF TypeOK
    <3>5. TypeOK' /\ ConnsStay
      BY <2>1, <3>4, <1>t DEF TypeOK, ConnsStay, manager
    <3>6. QED
      BY <2>1, <3>4, <3>5, MoveKeeps DEF manager, Leaving, Pending
  <2>4. QED
    BY <1>6, <2>2, <2>3 DEF Ask
<1>7. CASE Answer(t) \/ Check(t) \/ Publish(t) \/ Hear(t) \/ Killed(t) \/ Change(t)
  <2>1. PICK at \in Places \ ({"none"} \cup Leaving \cup Pending) : Goto(t, at)
    BY <1>7 DEF Answer, Check, Publish, Hear, Killed, Change, Back, Places, Leaving, Pending
  <2>2. conn' = conn /\ session' = session /\ UNCHANGED <<fired, manager>>
    BY <1>7 DEF Answer, Check, Publish, Hear, Killed, Change, Still, InTask
  <2>3. task[t].at # "none" /\ task[t].at \notin {"opened", "adopt"}
    BY <1>7 DEF Answer, Check, Publish, Hear, Killed, Change, At
  <2>4. sink' \in 0 .. MaxConns
    <3>1. t[1] \in 0 .. MaxConns /\ sink \in 0 .. MaxConns
      BY <1>t, TaskIs, McpAssumption DEF Conns, TypeOK
    <3>2. QED
      BY <1>7, <3>1 DEF Answer, Check, Publish, Hear, Killed, Change, Still, InTask
  <2>5. faults' \in 0 .. MaxFaults
    BY <1>7, <1>t, McpAssumption DEF Answer, Check, Publish, Hear, Killed, Change, InTask, Fault, TypeOK
  <2>6. QED
    BY <1>1, <2>1, <2>2, <2>3, <2>4, <2>5
<1>8. CASE Write(t) \/ Report(t)
  <2>1. UNCHANGED <<session, fired, manager, sink>> /\ faults' \in 0 .. MaxFaults
    BY <1>8, <1>t, McpAssumption DEF Write, Report, Still, Fault, TypeOK
  <2>2. PICK c \in Conns : \E state \in {"ready", "auth"}, listed \in BOOLEAN :
          conn' = [conn EXCEPT ![c] = [conn[c] EXCEPT !.state = state, !.listed = listed]]
    <3>1. CASE Write(t)
      BY <3>1, <1>t, TaskIs DEF Write, TypeOK
    <3>2. CASE Report(t)
      <4>1. current \in Conns /\ conn' = [conn EXCEPT ![current].state = "auth"]
        BY <3>2, <1>t, McpAssumption DEF Report, TypeOK, Conns
      <4>2. conn[current] \in Inner /\ conn[current].listed \in BOOLEAN
        BY <4>1, <1>t DEF TypeOK, Inner
      <4>3. [conn[current] EXCEPT !.state = "auth"]
              = [conn[current] EXCEPT !.state = "auth", !.listed = conn[current].listed]
        BY <4>2 DEF Inner
      <4>4. conn' = [conn EXCEPT ![current] = [conn[current] EXCEPT !.state = "auth"]]
        BY <4>1, <1>t DEF TypeOK
      <4>5. QED
        BY <4>1, <4>2, <4>3, <4>4
    <3>3. QED
      BY <1>8, <3>1, <3>2
  <2>3. PICK state \in {"ready", "auth"}, listed \in BOOLEAN :
          conn' = [conn EXCEPT ![c] = [conn[c] EXCEPT !.state = state, !.listed = listed]]
    BY <2>2
  <2> DEFINE new == [conn[c] EXCEPT !.state = state, !.listed = listed]
  <2>4. /\ new \in Inner /\ new.gen = conn[c].gen /\ new.session = conn[c].session
        /\ new.token = conn[c].token /\ new.timer = conn[c].timer
        /\ new.spawned = conn[c].spawned /\ new.closed = conn[c].closed
    <3>1. conn[c] \in Inner
      BY <1>t DEF TypeOK
    <3>2. state \in {"connecting", "ready", "auth", "failed", "disabled"}
      OBVIOUS
    <3>3. QED
      BY <3>1, <3>2 DEF Inner
  <2>5. conn' = [conn EXCEPT ![c] = new]
    BY <2>3
  <2> HIDE DEF new
  <2>6. conn' \in [Conns -> Inner] /\ ConnsStay
    BY <1>t, <2>4, <2>5, OneConn DEF ConnsStay
  <2>7. CASE Write(t)
    <3>1. task[t].at = "write" /\ Goto(t, "publish")
      BY <2>7 DEF Write, At
    <3>2. /\ task' \in [Tasks -> TaskRecord] /\ task'[t].at = "publish"
          /\ \A u \in Tasks : u # t => task'[u].at = task[u].at
      BY <3>1, <1>t, GotoFacts DEF Places
    <3>3. TypeOK'
      BY <1>t, <2>1, <2>6, <3>2 DEF TypeOK, manager
    <3>4. QED
      BY <2>1, <2>6, <3>1, <3>2, <3>3, MoveKeeps DEF manager, Leaving, Pending
  <2>8. CASE Report(t)
    <3>1. task' = task /\ t \in Tasks
      BY <2>8 DEF Report
    <3>2. QED
      BY <1>t, <2>1, <2>6, <3>1, RestKeeps DEF TypeOK, manager, ConnInv, GenInv
  <2>9. QED
    BY <1>8, <2>7, <2>8
<1>9. CASE Judge(t)
  <2>1. task[t].at = "failed" /\ UNCHANGED <<manager, conn, session, fired, sink, faults>>
    BY <1>9 DEF Judge, At, InTask
  <2>2. PICK at \in {"done", "drop"} : Goto(t, at) /\ (at = "drop" => ~Stale(t))
    BY <1>9 DEF Judge
  <2>3. /\ task' \in [Tasks -> TaskRecord] /\ task'[t].at = at
        /\ \A u \in Tasks : u # t => task'[u].at = task[u].at
    BY <2>2, <1>t, GotoFacts DEF Places
  <2>4. TypeOK' /\ ConnsStay
    BY <1>t, <2>1, <2>3 DEF TypeOK, ConnsStay, manager
  <2>5. QED
    BY <2>1, <2>2, <2>3, <2>4, MoveKeeps DEF manager, Leaving, Pending
<1>10. CASE Fail(t)
  BY <1>10, FailKeeps
<1>11. CASE Unpublish(t)
  <2>1. task[t].at = "unpublish" /\ sink' = 0 /\ UNCHANGED <<manager, conn, session, fired, faults>>
    BY <1>11 DEF Unpublish, At
  <2>2. PICK at \in {"done", "arm"} : Goto(t, at)
    BY <1>11 DEF Unpublish
  <2>3. /\ task' \in [Tasks -> TaskRecord] /\ task'[t].at = at
        /\ \A u \in Tasks : u # t => task'[u].at = task[u].at
    BY <2>2, <1>t, GotoFacts DEF Places
  <2>4. TypeOK' /\ ConnsStay
    BY <1>t, <2>1, <2>3, McpAssumption DEF TypeOK, ConnsStay, manager
  <2>5. QED
    BY <2>1, <2>2, <2>3, <2>4, MoveKeeps DEF manager, Leaving, Pending
<1>12. CASE Arm(t)
  BY <1>12, ArmKeeps
<1>13. QED
  BY <1>2, <1>3, <1>4, <1>5, <1>6, <1>7, <1>8, <1>9, <1>10, <1>11, <1>12 DEF Step

\* Sessions that end, and what the manager does beside a connection's own steps.
LEMMA AsideKeeps ==
  ASSUME ConnInv,
         \/ \E s \in Conns \X Gens : Drops(s)
         \/ \E c \in Conns : Closed(c)
         \/ Retire \/ Rebridge \/ Republish \/ UNCHANGED vars
  PROVE  ConnInv'
<1>t. TypeOK /\ 0 \in 0 .. MaxConns /\ current <= made /\ made \in Nat
  BY McpAssumption DEF ConnInv, GenInv, TypeOK
<1>r. \A d \in Conns : retiring[d] # "no" => d <= made
  BY DEF ConnInv, GenInv
<1>1. ASSUME NEW s \in Conns \X Gens, Drops(s) PROVE ConnInv'
  <2>1. /\ UNCHANGED <<conn, task, fired, manager, sink>>
        /\ \E to \in {"lost", "heard"} : session' = [session EXCEPT ![s] = to]
        /\ faults' = faults + 1 /\ faults < MaxFaults
    BY <1>1 DEF Drops, Still, Fault
  <2>0. faults' \in 0 .. MaxFaults
    BY <2>1, <1>t, McpAssumption DEF TypeOK
  <2>2. /\ session' \in [Conns \X Gens -> Sessions]
        /\ \A r \in Conns \X Gens : session'[r] = "open" => session[r] = "open"
    BY <2>1, <1>t DEF TypeOK, Sessions
  <2>3. TypeOK' /\ ConnsStay
    BY <1>t, <2>0, <2>1, <2>2 DEF TypeOK, ConnsStay, manager
  <2>4. QED
    BY <1>t, <1>r, <2>1, <2>2, <2>3, RestKeeps DEF manager
<1>2. ASSUME NEW c \in Conns, Closed(c) PROVE ConnInv'
  <2>1. /\ UNCHANGED <<conn, task, session, fired, current, made, operator, shut, edits, faults>>
        /\ retiring[c] = "unpublish" /\ retiring' = [retiring EXCEPT ![c] = "done"] /\ sink' = 0
    BY <1>2 DEF Closed
  <2>2. /\ retiring' \in [Conns -> {"no", "due", "unpublish", "done"}]
        /\ \A d \in Conns : retiring'[d] # "no" => retiring[d] # "no"
    BY <2>1, <1>t DEF TypeOK
  <2>3. TypeOK' /\ ConnsStay
    BY <1>t, <2>1, <2>2 DEF TypeOK, ConnsStay
  <2>4. QED
    BY <1>t, <1>r, <2>1, <2>2, <2>3, RestKeeps
<1>3. CASE Retire
  <2>1. /\ UNCHANGED <<conn, task, session, fired, made, operator, faults>>
        /\ current' = 0 /\ retiring' = Retired(current) /\ sink' = 0
    BY <1>3 DEF Retire
  <2>0. shut' \in BOOLEAN /\ edits' \in 0 .. MaxEdits
    <3>1. shut' = shut \/ shut' = TRUE
      BY <1>3 DEF Retire
    <3>2. edits' = edits \/ (edits < MaxEdits /\ edits' = edits + 1)
      BY <1>3 DEF Retire
    <3>3. shut \in BOOLEAN /\ edits \in 0 .. MaxEdits
      BY <1>t DEF TypeOK
    <3>4. edits' \in 0 .. MaxEdits
      BY <3>2, <3>3, McpAssumption
    <3>5. shut' \in BOOLEAN
      BY <3>1, <3>3
    <3>6. QED
      BY <3>4, <3>5
  <2>2. /\ retiring' \in [Conns -> {"no", "due", "unpublish", "done"}]
        /\ \A d \in Conns : retiring'[d] # "no" => d = current \/ retiring[d] # "no"
    BY <2>1, <1>t DEF Retired, TypeOK
  <2>3. TypeOK' /\ ConnsStay
    BY <1>t, <2>0, <2>1, <2>2 DEF TypeOK, ConnsStay
  <2>4. current' <= made
    BY <2>1, <1>t
  <2>5. QED
    BY <1>t, <1>r, <2>1, <2>2, <2>3, <2>4, RestKeeps
<1>4. CASE Rebridge \/ Republish \/ UNCHANGED vars
  <2>1. UNCHANGED <<conn, task, session, fired, current, made, retiring, shut, faults>>
    BY <1>4 DEF Rebridge, Republish, vars, manager
  <2>2. edits' \in 0 .. MaxEdits /\ operator' \in 0 .. MaxConns /\ sink' \in 0 .. MaxConns
    BY <1>4, <1>t, McpAssumption DEF Rebridge, Republish, vars, manager, TypeOK
  <2>3. TypeOK' /\ ConnsStay
    BY <1>t, <2>1, <2>2 DEF TypeOK, ConnsStay
  <2>4. QED
    BY <1>t, <1>r, <2>1, <2>3, RestKeeps
<1>5. QED
  BY <1>1, <1>2, <1>3, <1>4

\* Every step that does not overtake a task keeps the invariant.
LEMMA ConnNext == ConnInv /\ [Next]_vars /\ Calm' => ConnInv'
<1> SUFFICES ASSUME ConnInv, [Next]_vars, Calm' PROVE ConnInv'
  OBVIOUS
<1>1. ASSUME NEW c \in Conns, Ends(c) PROVE ConnInv'
  BY <1>1, CloseKeeps, AsideKeeps DEF Ends
<1>2. QED
  BY <1>1, StepKeeps, TimedKeeps, ApplyKeeps, AsideKeeps DEF Next

-----------------------------------------------------------------------------
(* Never stranded: an invariant of its own, whatever dials overtake. *)

Arming(c) == \E t \in Tasks : t[1] = c /\ task[t].at \in {"unpublish", "arm"} /\ ~task[t].auth
Newest(c) == <<c, conn[c].gen, "dial">>

\* What has failed has a timer or a failure that will set it; what connects has its
\* start or its newest dial, which finds the session it has just handed over.
Strand(c) ==
  ~conn[c].closed =>
    /\ conn[c].state = "failed" => conn[c].timer \/ Arming(c)
    /\ conn[c].state = "connecting" /\ conn[c].gen = 0 /\ c <= made => conn[c].spawned
    /\ conn[c].state = "connecting" /\ conn[c].gen # 0 =>
         /\ task[Newest(c)].at \in Coming
         /\ task[Newest(c)].at = "list" => conn[c].session # 0

\* Only watchers are aborted.
Unhurt == \A t \in Tasks : t[3] = "dial" => ~task[t].aborted

\* A task is of a generation that was given out; a session is watched once it is adopted.
Fresh == \A t \in Tasks :
  /\ task[t].at # "none" => t[2] <= conn[t[1]].gen
  /\ t[3] = "watch" => /\ task[t].at \notin Pending
                       /\ task[<<t[1], t[2], "dial">>].at \in Pending => task[t].at = "none"

StrandInv == TypeOK /\ Unhurt /\ Fresh /\ \A c \in Conns : Strand(c)

\* A task moves on: what it took along stays with it until it is done.
LEMMA GotoIs ==
  ASSUME TypeOK, NEW t \in Tasks, NEW at \in Places, Goto(t, at)
  PROVE  /\ task' \in [Tasks -> TaskRecord]
         /\ task'[t].at = at
         /\ task'[t].aborted => task[t].aborted
         /\ at # "done" => task'[t].auth = task[t].auth
         /\ \A u \in Tasks : u # t => task'[u] = task[u]
<1> DEFINE new == IF at = "done" THEN Idle(at) ELSE [task[t] EXCEPT !.at = at]
<1>1. task[t] \in TaskRecord
  BY DEF TypeOK
<1>2. Idle(at) \in TaskRecord /\ Idle(at).at = at /\ ~Idle(at).aborted
  BY McpAssumption DEF Idle, TaskRecord
<1>3. /\ [task[t] EXCEPT !.at = at] \in TaskRecord /\ [task[t] EXCEPT !.at = at].at = at
      /\ [task[t] EXCEPT !.at = at].aborted = task[t].aborted
      /\ [task[t] EXCEPT !.at = at].auth = task[t].auth
  BY <1>1 DEF TaskRecord
<1>4. /\ new \in TaskRecord /\ new.at = at /\ (new.aborted => task[t].aborted)
      /\ at # "done" => new.auth = task[t].auth
  BY <1>2, <1>3
<1>5. task' = [task EXCEPT ![t] = new]
  BY DEF Goto
<1> HIDE DEF new
<1>6. QED
  BY <1>4, <1>5 DEF TypeOK

\* The newest dial of a connection is one of its tasks.
LEMMA NewestIs ==
  ASSUME TypeOK, NEW c \in Conns, conn[c].gen # 0
  PROVE  /\ Newest(c) \in Tasks /\ Newest(c)[1] = c /\ Newest(c)[2] = conn[c].gen
         /\ Newest(c)[3] = "dial" /\ conn[c].gen \in Gens
<1>1. conn[c].gen \in 0 .. MaxDials
  BY ConnIs
<1>2. conn[c].gen \in Gens
  BY <1>1, McpAssumption DEF Gens
<1>3. QED
  BY <1>2 DEF Newest, Tasks

\* A connection that is left alone, with its tasks, is not stranded by it.
LEMMA LeftAlone ==
  ASSUME TypeOK, NEW c \in Conns, Strand(c), conn'[c] = conn[c],
         c <= made' => c <= made \/ conn[c].spawned \/ conn[c].state # "connecting",
         \A u \in Tasks : u[1] = c => task'[u].at = task[u].at /\ task'[u].auth = task[u].auth
  PROVE  Strand(c)'
<1> SUFFICES ASSUME ~conn[c].closed PROVE Strand(c)'
  BY DEF Strand
<1>1. conn[c].state = "failed" => conn'[c].timer \/ Arming(c)'
  BY DEF Strand, Arming
<1>2. conn[c].state = "connecting" /\ conn[c].gen = 0 /\ c <= made' => conn'[c].spawned
  BY DEF Strand
<1>3. conn[c].state = "connecting" /\ conn[c].gen # 0 =>
        /\ task'[Newest(c)].at \in Coming
        /\ task'[Newest(c)].at = "list" => conn[c].session # 0
  BY NewestIs DEF Strand
<1>4. QED
  BY <1>1, <1>2, <1>3 DEF Strand, Newest

\* A task moves and its connection stays: the newest dial stays among those that are
\* coming for as long as it is not stale, and a failure does not lose its place.
LEMMA MoveStrands ==
  ASSUME StrandInv, TypeOK', NEW t \in Tasks, conn' = conn, made' = made,
         \A u \in Tasks : u # t => task'[u] = task[u],
         t[3] = "dial" => ~task'[t].aborted, task[t].at # "none",
         task'[t].at \in Pending => task[t].at \in Pending,
         task[t].at \in {"unpublish", "arm"} /\ ~task[t].auth
           => task'[t].at \in {"unpublish", "arm"} /\ ~task'[t].auth,
         t[3] = "dial" /\ ~Stale(t) /\ task[t].at \in Coming
             /\ (task[t].at = "list" => conn[t[1]].session # 0)
           => task'[t].at \in Coming /\ (task'[t].at = "list" => conn[t[1]].session # 0)
  PROVE  StrandInv'
<1>t. TypeOK /\ t[1] \in Conns
  BY TaskIs DEF StrandInv
<1>1. Unhurt'
  BY DEF StrandInv, Unhurt
<1>2. ASSUME NEW c \in Conns PROVE Strand(c)'
  <2>0. Strand(c)
    BY DEF StrandInv
  <2>1. CASE c # t[1]
    BY <1>t, <2>0, <2>1, LeftAlone
  <2>2. CASE c = t[1]
    <3> SUFFICES ASSUME ~conn[c].closed PROVE Strand(c)'
      BY DEF Strand
    <3>1. Arming(c) => Arming(c)'
      BY DEF Arming
    <3>2. ASSUME conn[c].state = "connecting", conn[c].gen # 0
          PROVE  /\ task'[Newest(c)].at \in Coming
                 /\ task'[Newest(c)].at = "list" => conn[c].session # 0
      <4>1. /\ task[Newest(c)].at \in Coming
            /\ task[Newest(c)].at = "list" => conn[c].session # 0
        BY <2>0, <3>2 DEF Strand
      <4>2. Newest(c) \in Tasks /\ Newest(c)[2] = conn[c].gen /\ Newest(c)[3] = "dial"
        BY <1>t, <3>2, NewestIs
      <4>3. CASE t # Newest(c)
        BY <4>1, <4>2, <4>3
      <4>4. CASE t = Newest(c)
        <5>1. ~Stale(t)
          BY <2>2, <4>2, <4>4 DEF Stale
        <5>2. QED
          BY <2>2, <4>1, <4>2, <4>4, <5>1
      <4>5. QED
        BY <4>3, <4>4
    <3>3. Newest(c)' = Newest(c)
      BY DEF Newest
    <3>4. QED
      BY <2>0, <3>1, <3>2, <3>3 DEF Strand
  <2>3. QED
    BY <2>1, <2>2
<1>3. Fresh'
  <2>1. \A u \in Tasks : /\ task'[u].at # "none" => task[u].at # "none"
                         /\ task'[u].at \in Pending => task[u].at \in Pending
    OBVIOUS
  <2>2. \A u \in Tasks : <<u[1], u[2], "dial">> \in Tasks
    BY TaskIs DEF Tasks
  <2>3. QED
    BY <2>1, <2>2 DEF StrandInv, Fresh
<1>4. QED
  BY <1>1, <1>2, <1>3 DEF StrandInv

\* The steps of a task that leave its connection as it is.
LEMMA TaskStrands ==
  ASSUME StrandInv, NEW t \in Tasks,
         \/ Connect(t) \/ Refused(t) \/ Look(t) \/ Ask(t) \/ Answer(t) \/ Check(t) \/ Publish(t)
         \/ Hear(t) \/ Killed(t) \/ Judge(t) \/ Unpublish(t) \/ Change(t)
  PROVE  StrandInv'
<1>t. TypeOK /\ <<t[1], t[2]>> \in Conns \X Gens /\ task[t] \in TaskRecord
      /\ (t[3] = "dial" => ~task[t].aborted) /\ t[3] \in {"dial", "watch"}
  BY TaskIs DEF StrandInv, TypeOK, Unhurt
<1>s. session' \in [Conns \X Gens -> Sessions]
  BY <1>t DEF TypeOK, Sessions, Connect, Refused, Look, Ask, Answer, Check, Publish, Hear, Killed,
              Judge, Unpublish, Change, InTask
<1>f. faults' \in 0 .. MaxFaults
  BY <1>t, McpAssumption DEF TypeOK, Fault, Connect, Refused, Look, Ask, Answer, Check, Publish, Hear,
              Killed, Judge, Unpublish, Change, InTask
<1>k. sink' \in 0 .. MaxConns
  <2>1. t[1] \in 0 .. MaxConns /\ sink \in 0 .. MaxConns /\ 0 \in 0 .. MaxConns
    BY <1>t, McpAssumption DEF Conns, TypeOK
  <2>2. sink' \in {sink, 0, t[1]}
    BY DEF Still, Connect, Refused, Look, Ask, Answer, Check, Publish, Hear, Killed, Judge, Unpublish,
           Change, InTask
  <2>3. QED
    BY <2>1, <2>2
<1>c. conn' = conn /\ UNCHANGED <<fired, manager>>
  BY DEF Still, Connect, Refused, Look, Ask, Answer, Check, Publish, Hear, Killed, Judge, Unpublish,
         Change, InTask
<1>y. task' \in [Tasks -> TaskRecord] => TypeOK'
  BY <1>t, <1>s, <1>f, <1>k, <1>c DEF TypeOK, manager
<1>1. ASSUME NEW at \in Places, Goto(t, at),
             task[t].at # "none", at \in Pending => task[t].at \in Pending,
             task[t].at \in {"unpublish", "arm"} => task[t].at = "unpublish" /\ (task[t].auth \/ at = "arm"),
             t[3] = "dial" /\ ~Stale(t) /\ task[t].at \in Coming
               /\ (task[t].at = "list" => conn[t[1]].session # 0)
               => at \in Coming \ {"list"}
      PROVE  StrandInv'
  <2>1. /\ task' \in [Tasks -> TaskRecord] /\ task'[t].at = at
        /\ task'[t].aborted => task[t].aborted
        /\ at # "done" => task'[t].auth = task[t].auth
        /\ \A u \in Tasks : u # t => task'[u] = task[u]
    BY <1>1, <1>t, GotoIs
  <2>2. TypeOK'
    BY <1>y, <2>1
  <2>3. task[t].at \in {"unpublish", "arm"} /\ ~task[t].auth
          => task'[t].at \in {"unpublish", "arm"} /\ ~task'[t].auth
    BY <1>1, <2>1
  <2>4. t[3] = "dial" => ~task'[t].aborted
    BY <1>t, <2>1
  <2>5. conn' = conn /\ made' = made
    BY <1>c DEF manager
  <2>6. t[3] = "dial" /\ ~Stale(t) /\ task[t].at \in Coming
             /\ (task[t].at = "list" => conn[t[1]].session # 0)
           => task'[t].at \in Coming /\ (task'[t].at = "list" => conn[t[1]].session # 0)
    BY <1>1, <2>1
  <2>7. \A u \in Tasks : u # t => task'[u] = task[u]
    BY <2>1
  <2>8. QED
    BY <1>1, <2>1, <2>2, <2>3, <2>4, <2>5, <2>6, <2>7, MoveStrands
<1>2. CASE Connect(t)
  BY <1>1, <1>2 DEF Connect, At, Places, Coming, Pending
<1>3. CASE Refused(t)
  <2>1. task[t].at = "connecting"
    BY <1>3 DEF Refused, At
  <2>2. CASE Goto(t, "failed")
    BY <1>1, <2>1, <2>2 DEF Places, Coming, Pending
  <2>3. ASSUME NEW auth \in BOOLEAN, task' = [task EXCEPT ![t].at = "failed", ![t].auth = auth]
        PROVE  StrandInv'
    <3> DEFINE new == [task[t] EXCEPT !.at = "failed", !.auth = auth]
    <3>1. new \in TaskRecord /\ new.at = "failed" /\ new.aborted = task[t].aborted
      BY <1>t DEF TaskRecord, Places
    <3>2. task' = [task EXCEPT ![t] = new]
      BY <2>3, <1>t DEF TypeOK
    <3> HIDE DEF new
    <3>3. /\ task' \in [Tasks -> TaskRecord] /\ task'[t].at = "failed"
          /\ task'[t].aborted = task[t].aborted
          /\ \A u \in Tasks : u # t => task'[u] = task[u]
      BY <3>1, <3>2, <1>t DEF TypeOK
    <3>4. TypeOK' /\ made' = made
      BY <1>y, <1>c, <3>3 DEF manager
    <3>5. QED
      BY <1>t, <1>c, <2>1, <3>3, <3>4, MoveStrands DEF Coming, Pending
  <2>4. QED
    BY <1>3, <2>2, <2>3 DEF Refused
<1>4. CASE Look(t)
  <2>1. PICK at \in {"done", "adopt"} : Goto(t, at) /\ (Stale(t) \/ at = "adopt")
    BY <1>4 DEF Look
  <2>2. QED
    BY <1>1, <1>4, <2>1 DEF Look, At, Places, Coming, Pending
<1>5. CASE Ask(t)
  <2>1. task[t].at = "list"
    BY <1>5 DEF Ask, At
  <2>2. CASE Goto(t, Back(t)) /\ conn[t[1]].session = 0
    BY <1>1, <2>1, <2>2 DEF Places, Back, Pending
  <2>3. CASE task' = [task EXCEPT ![t].at = "listing", ![t].with = conn[t[1]].session, ![t].token = conn[t[1]].token]
    <3> DEFINE new == [task[t] EXCEPT !.at = "listing", !.with = conn[t[1]].session, !.token = conn[t[1]].token]
    <3>1. conn[t[1]].session \in 0 .. MaxDials /\ conn[t[1]].token \in 0 .. MaxDials
      BY <1>t, ConnIs
    <3>2. new \in TaskRecord /\ new.at = "listing" /\ new.aborted = task[t].aborted
      BY <1>t, <3>1 DEF TaskRecord, Places
    <3>3. task' = [task EXCEPT ![t] = new]
      BY <2>3, <1>t DEF TypeOK
    <3> HIDE DEF new
    <3>4. /\ task' \in [Tasks -> TaskRecord] /\ task'[t].at = "listing"
          /\ task'[t].aborted = task[t].aborted
          /\ \A u \in Tasks : u # t => task'[u] = task[u]
      BY <3>2, <3>3, <1>t DEF TypeOK
    <3>5. TypeOK' /\ made' = made
      BY <1>y, <1>c, <3>4 DEF manager
    <3>6. QED
      BY <1>t, <1>c, <2>1, <3>4, <3>5, MoveStrands DEF Coming, Pending
  <2>4. QED
    BY <1>5, <2>2, <2>3 DEF Ask
<1>6. CASE Answer(t)
  BY <1>1, <1>6 DEF Answer, At, Places, Coming, Pending
<1>7. CASE Check(t)
  <2>1. PICK at \in {Back(t), "write"} : Goto(t, at) /\ (Stale(t) \/ at = "write")
    BY <1>7 DEF Check
  <2>2. QED
    BY <1>1, <1>7, <2>1 DEF Check, At, Places, Coming, Back, Pending
<1>8. CASE Publish(t)
  BY <1>1, <1>8 DEF Publish, At, Places, Coming, Back, Pending
<1>9. CASE Hear(t) \/ Change(t)
  <2>1. PICK at \in Places \ Pending : Goto(t, at)
    BY <1>9 DEF Hear, Change, Places, Pending
  <2>2. QED
    BY <1>1, <1>9, <2>1 DEF Hear, Change, At, Coming, Pending
<1>10. CASE Killed(t)
  BY <1>1, <1>10, <1>t DEF Killed, Places, Pending
<1>11. CASE Judge(t)
  <2>1. PICK at \in {"done", "drop"} : Goto(t, at) /\ (Stale(t) \/ at = "drop")
    BY <1>11 DEF Judge
  <2>2. QED
    BY <1>1, <1>11, <2>1 DEF Judge, At, Places, Coming, Pending
<1>12. CASE Unpublish(t)
  <2>1. PICK at \in {"done", "arm"} : Goto(t, at) /\ (task[t].auth \/ at = "arm")
    BY <1>12 DEF Unpublish
  <2>2. QED
    BY <1>1, <1>12, <2>1 DEF Unpublish, At, Places, Coming, Pending
<1>13. QED
  BY <1>2, <1>3, <1>4, <1>5, <1>6, <1>7, <1>8, <1>9, <1>10, <1>11, <1>12

\* A step that is about one connection.
LEMMA OneStrand ==
  ASSUME StrandInv, TypeOK', Unhurt', Fresh', NEW c \in Conns, Strand(c)', made' = made,
         \A d \in Conns : d # c => conn'[d] = conn[d],
         \A u \in Tasks : u[1] # c => task'[u].at = task[u].at /\ task'[u].auth = task[u].auth
  PROVE  StrandInv'
<1>1. ASSUME NEW d \in Conns, d # c PROVE Strand(d)'
  BY <1>1, LeftAlone DEF StrandInv
<1>2. QED
  BY <1>1 DEF StrandInv

\* A connection that is ready, needs an operator or is closed is not stranded.
LEMMA SaysOther ==
  ASSUME NEW c \in Conns, conn'[c].closed \/ conn'[c].state \in {"ready", "auth", "disabled"}
  PROVE  Strand(c)'
BY DEF Strand

\* Tasks that have begun move on, and generations only grow.
LEMMA StaysFresh ==
  ASSUME StrandInv, \A d \in Conns : conn'[d].gen = conn[d].gen,
         \A u \in Tasks : task'[u].at = task[u].at
                           \/ (task[u].at # "none" /\ task'[u].at \notin Pending)
  PROVE  Fresh'
<1>1. \A u \in Tasks : u[1] \in Conns /\ <<u[1], u[2], "dial">> \in Tasks
  BY TaskIs DEF Tasks
<1>2. QED
  BY <1>1 DEF StrandInv, Fresh

\* A list is written, or an authorization asked for.
LEMMA WriteStrands ==
  ASSUME StrandInv, NEW t \in Tasks, Write(t) \/ Report(t)
  PROVE  StrandInv'
<1>t. TypeOK /\ t[1] \in Conns /\ (t[3] = "dial" => ~task[t].aborted)
  BY TaskIs DEF StrandInv, Unhurt
<1>1. UNCHANGED <<session, fired, manager, sink>> /\ faults' \in 0 .. MaxFaults
  BY <1>t, McpAssumption DEF Write, Report, Still, Fault, TypeOK
<1>2. CASE Write(t)
  <2> DEFINE c == t[1]
             new == [conn[c] EXCEPT !.state = "ready", !.listed = TRUE]
  <2>1. new \in Inner /\ new.state = "ready" /\ new.gen = conn[c].gen
    <3>1. conn[c] \in Inner
      BY <1>t DEF TypeOK
    <3>2. QED
      BY <3>1 DEF Inner
  <2>2. conn' = [conn EXCEPT ![c] = new] /\ Goto(t, "publish")
    BY <1>2, <1>t DEF Write, TypeOK
  <2> HIDE DEF new
  <2>3. conn' \in [Conns -> Inner] /\ conn'[c] = new /\ \A d \in Conns : d # c => conn'[d] = conn[d]
    BY <1>t, <2>1, <2>2, OneConn
  <2>4. /\ task' \in [Tasks -> TaskRecord] /\ (task'[t].aborted => task[t].aborted)
        /\ \A u \in Tasks : u # t => task'[u] = task[u]
    BY <1>t, <2>2, GotoIs DEF Places
  <2>5. TypeOK' /\ made' = made
    BY <1>t, <1>1, <2>3, <2>4 DEF TypeOK, manager
  <2>6. Unhurt'
    BY <1>t, <2>4 DEF StrandInv, Unhurt
  <2>7. Strand(c)'
    BY <1>t, <2>1, <2>3, SaysOther
  <2>8. Fresh'
    <3>1. \A d \in Conns : conn'[d].gen = conn[d].gen
      BY <1>t, <2>1, <2>3
    <3>2. task'[t].at = "publish" /\ task[t].at = "write"
      BY <1>2, <1>t, <2>2, GotoIs DEF Places, Write, At
    <3>3. QED
      BY <2>4, <3>1, <3>2, StaysFresh DEF Pending
  <2>9. QED
    BY <1>t, <2>3, <2>4, <2>5, <2>6, <2>7, <2>8, OneStrand
<1>3. CASE Report(t)
  <2> DEFINE new == [conn[current] EXCEPT !.state = "auth"]
  <2>1. current \in Conns /\ task' = task
    BY <1>3, <1>t, McpAssumption DEF Report, TypeOK, Conns
  <2>2. new \in Inner /\ new.state = "auth" /\ new.gen = conn[current].gen
    BY <1>t, <2>1 DEF TypeOK, Inner
  <2>3. conn' = [conn EXCEPT ![current] = new]
    BY <1>3, <1>t, <2>1 DEF Report, TypeOK
  <2> HIDE DEF new
  <2>4. /\ conn' \in [Conns -> Inner] /\ conn'[current] = new
        /\ \A d \in Conns : d # current => conn'[d] = conn[d]
    BY <1>t, <2>1, <2>2, <2>3, OneConn
  <2>5. TypeOK' /\ made' = made
    BY <1>t, <1>1, <2>1, <2>4 DEF TypeOK, manager
  <2>6. Unhurt'
    BY <2>1 DEF StrandInv, Unhurt
  <2>7. PICK c \in Conns : c = current
    BY <2>1
  <2>8. conn'[c].state = "auth" /\ \A d \in Conns : d # c => conn'[d] = conn[d]
    BY <2>2, <2>4, <2>7
  <2>9. Strand(c)'
    BY <2>8, SaysOther
  <2>10. Fresh'
    <3>1. \A d \in Conns : conn'[d].gen = conn[d].gen
      BY <2>2, <2>4
    <3>2. QED
      BY <2>1, <3>1, StaysFresh
  <2>11. QED
    BY <2>1, <2>5, <2>6, <2>8, <2>9, <2>10, OneStrand
<1>4. QED
  BY <1>2, <1>3

\* Only a watcher is aborted.
LEMMA AbortingSpares ==
  ASSUME TypeOK, NEW c \in Conns, NEW g
  PROVE  /\ Aborting(task, c, g) \in [Tasks -> TaskRecord]
         /\ \A u \in Tasks : /\ Aborting(task, c, g)[u].at = task[u].at
                             /\ Aborting(task, c, g)[u].auth = task[u].auth
                             /\ u[3] = "dial" \/ u[1] # c
                                  => Aborting(task, c, g)[u] = task[u]
<1>1. \A u \in Tasks : /\ task[u] \in TaskRecord
                       /\ [task[u] EXCEPT !.aborted = TRUE] \in TaskRecord
                       /\ [task[u] EXCEPT !.aborted = TRUE].at = task[u].at
                       /\ [task[u] EXCEPT !.aborted = TRUE].auth = task[u].auth
  BY DEF TypeOK, TaskRecord
<1>2. Watcher(c, g)[3] = "watch" /\ Watcher(c, g)[1] = c
  BY DEF Watcher
<1>3. QED
  BY <1>1, <1>2 DEF Aborting

\* The dial that adopts goes on to ask a session that is held.
LEMMA AdoptStrands ==
  ASSUME StrandInv, NEW t \in Tasks, Adopt(t)
  PROVE  StrandInv'
<1> DEFINE c == t[1]
           w == Watcher(t[1], t[2])
           tk == Aborting(task, c, conn[c].watcher)
           new == [conn[c] EXCEPT !.session = t[2], !.watcher = t[2]]
<1>t. /\ TypeOK /\ c \in Conns /\ conn[c] \in Inner /\ task[t].at = "adopt" /\ t[2] \in Gens
      /\ w \in Tasks /\ w[1] = c /\ w[2] = t[2] /\ w[3] = "watch" /\ Strand(c)
  <2>1. TypeOK /\ c \in Conns /\ task[t].at = "adopt" /\ t[2] \in Gens /\ Strand(c)
    BY TaskIs DEF StrandInv, Adopt, At
  <2>2. conn[c] \in Inner
    BY <2>1, ConnIs
  <2>3. w \in Tasks /\ w[1] = c /\ w[2] = t[2] /\ w[3] = "watch"
    BY <2>1 DEF Watcher, Tasks
  <2>4. QED
    BY <2>1, <2>2, <2>3
<1>w. t[3] = "dial" /\ t = <<c, t[2], "dial">> /\ t # w /\ task[w].at = "none" /\ t[2] <= conn[c].gen
  <2>1. t[3] = "dial" /\ t[2] <= conn[c].gen
    BY <1>t, TaskIs DEF StrandInv, Fresh, Pending
  <2>2. t = <<c, t[2], "dial">>
    BY <2>1, TaskIs
  <2>3. QED
    BY <1>t, <2>1, <2>2 DEF StrandInv, Fresh, Pending
<1>0. t[2] # 0 /\ t[2] \in 0 .. MaxDials
  BY <1>t, McpAssumption DEF Gens
<1>1. /\ conn' = [conn EXCEPT ![c] = new]
      /\ task' = [tk EXCEPT ![t].at = "list", ![w].at = "waiting"]
      /\ UNCHANGED <<session, fired, faults, manager, sink>>
  BY <1>t DEF Adopt, Still, TypeOK
<1>2. /\ new \in Inner /\ new.session # 0 /\ new.gen = conn[c].gen /\ new.state = conn[c].state
      /\ new.closed = conn[c].closed /\ new.timer = conn[c].timer /\ new.spawned = conn[c].spawned
  BY <1>t, <1>0 DEF Inner
<1>3. /\ tk \in [Tasks -> TaskRecord]
      /\ \A u \in Tasks : /\ tk[u].at = task[u].at /\ tk[u].auth = task[u].auth
                          /\ u[3] = "dial" \/ u[1] # c => tk[u] = task[u]
  BY <1>t, AbortingSpares
<1> HIDE DEF new, tk, w, c
<1>4. /\ conn' \in [Conns -> Inner] /\ conn'[c] = new /\ \A d \in Conns : d # c => conn'[d] = conn[d]
  BY <1>t, <1>1, <1>2, OneConn
<1>5. ASSUME NEW u \in Tasks
      PROVE  /\ task'[u] \in TaskRecord /\ task'[u].auth = task[u].auth
             /\ u # t /\ u # w => task'[u].at = task[u].at
             /\ task'[u].at = "list" \/ u # t \/ u = w
             /\ task'[u].at \in {"list", "waiting"} \/ task'[u].at = task[u].at
             /\ u[3] = "dial" => task'[u].aborted = task[u].aborted
  <2>1. tk[u] \in TaskRecord /\ tk[u].at = task[u].at /\ tk[u].auth = task[u].auth
        /\ (u[3] = "dial" => tk[u] = task[u])
    BY <1>3
  <2>2. task'[u] = tk[u] \/ task'[u] = [tk[u] EXCEPT !.at = "list"]
        \/ task'[u] = [tk[u] EXCEPT !.at = "waiting"] \/ task'[u] = [[tk[u] EXCEPT !.at = "list"] EXCEPT !.at = "waiting"]
    BY <1>1, <1>3, <1>t
  <2>3. u # t /\ u # w => task'[u] = tk[u]
    BY <1>1, <1>3, <1>t
  <2>4. u = t /\ u # w => task'[u] = [tk[u] EXCEPT !.at = "list"]
    BY <1>1, <1>3, <1>t
  <2>5. QED
    BY <2>1, <2>2, <2>3, <2>4 DEF TaskRecord, Places
<1>6. task' \in [Tasks -> TaskRecord]
  BY <1>1, <1>3, <1>5
<1>7. TypeOK' /\ made' = made
  BY <1>t, <1>1, <1>4, <1>6 DEF TypeOK, manager
<1>8. Unhurt'
  BY <1>5 DEF StrandInv, Unhurt
<1>9. Strand(c)'
  <2> SUFFICES ASSUME ~conn[c].closed PROVE Strand(c)'
    BY <1>2, <1>4 DEF Strand
  <2>1. Arming(c) => Arming(c)'
    <3> SUFFICES ASSUME NEW u \in Tasks, u[1] = c, task[u].at \in {"unpublish", "arm"}, ~task[u].auth,
                        task'[u].at # task[u].at
                 PROVE  FALSE
      BY <1>5 DEF Arming
    <3>1. u # t
      BY <1>t
    <3>2. u = w
      BY <1>5, <3>1
    <3>3. QED
      BY <1>w, <3>2
  <2>2. ASSUME conn[c].state = "connecting", conn[c].gen # 0 PROVE task'[Newest(c)].at \in Coming
    <3>1. Newest(c) \in Tasks /\ Newest(c)[3] = "dial" /\ task[Newest(c)].at \in Coming
      BY <1>t, <2>2, NewestIs DEF Strand
    <3>2. Newest(c) # w
      BY <1>t, <3>1
    <3>3. QED
      BY <1>5, <3>1, <3>2 DEF Coming
  <2>3. Newest(c)' = Newest(c)
    BY <1>2, <1>4 DEF Newest
  <2>4. QED
    BY <1>t, <1>2, <1>4, <1>7, <2>1, <2>2, <2>3 DEF Strand
<1>10. \A d \in Tasks : d[1] # c => task'[d].at = task[d].at /\ task'[d].auth = task[d].auth
  BY <1>t, <1>5 DEF c
<1>11. Fresh'
  <2> SUFFICES ASSUME NEW u \in Tasks
               PROVE  /\ task'[u].at # "none" => u[2] <= conn'[u[1]].gen
                      /\ u[3] = "watch" => /\ task'[u].at \notin Pending
                                           /\ (task'[<<u[1], u[2], "dial">>].at \in Pending => task'[u].at = "none")
    BY DEF Fresh
  <2>0. u[1] \in Conns /\ <<u[1], u[2], "dial">> \in Tasks /\ u = <<u[1], u[2], u[3]>>
    BY TaskIs DEF Tasks
  <2>1. conn'[u[1]].gen = conn[u[1]].gen
    BY <2>0, <1>2, <1>4
  <2>2. CASE u = w
    <3>1. <<u[1], u[2], "dial">> = t
      BY <1>t, <1>w, <2>2
    <3>2. task'[t].at = "list" /\ task'[u].at \notin Pending
      BY <1>5, <1>t, <1>w, <2>2 DEF Pending
    <3>3. u[2] <= conn[u[1]].gen
      BY <1>t, <1>w, <2>2
    <3>4. QED
      BY <2>1, <3>1, <3>2, <3>3 DEF Pending
  <2>3. CASE u # w
    <3>1. \A v \in Tasks : v # w => /\ (task'[v].at # "none" => task[v].at # "none")
                                   /\ (task'[v].at \in Pending => task[v].at \in Pending)
      BY <1>5, <1>t DEF Pending
    <3>2. PICK d \in Tasks : d = <<u[1], u[2], "dial">> /\ d # w
      BY <1>t, <2>0
    <3>3. /\ task[u].at # "none" => u[2] <= conn[u[1]].gen
          /\ u[3] = "watch" => /\ task[u].at \notin Pending
                               /\ (task[d].at \in Pending => task[u].at = "none")
      BY <3>2 DEF StrandInv, Fresh
    <3>4. task'[d].at \in Pending => task[d].at \in Pending
      BY <3>1, <3>2
    <3>5. QED
      BY <2>1, <2>3, <3>1, <3>2, <3>3, <3>4
  <2>4. QED
    BY <2>2, <2>3
<1>12. QED
  BY <1>t, <1>4, <1>7, <1>8, <1>9, <1>10, <1>11, OneStrand

\* A failure that lets go of the connection is on its way to arming the timer.
LEMMA FailStrands ==
  ASSUME StrandInv, NEW t \in Tasks, Fail(t)
  PROVE  StrandInv'
<1> DEFINE c == t[1]
           tk == Aborting(task, c, conn[c].watcher)
           state == IF task[t].auth THEN "auth" ELSE "failed"
           new == [conn[c] EXCEPT !.listed = FALSE, !.watcher = 0, !.token = 0, !.session = 0,
                                  !.state = state]
<1>t. TypeOK /\ c \in Conns /\ conn[c] \in Inner /\ task[t].at = "drop"
      /\ (t[3] = "dial" => ~task[t].aborted)
  <2>1. TypeOK /\ c \in Conns /\ task[t].at = "drop"
    BY TaskIs DEF StrandInv, Fail, At
  <2>2. QED
    BY <2>1, ConnIs DEF StrandInv, Unhurt
<1>1. /\ conn' = [conn EXCEPT ![c] = new] /\ Firing(c) /\ Ending(c)
      /\ task' = [tk EXCEPT ![t].at = "unpublish"]
      /\ UNCHANGED <<faults, manager, sink>>
  BY <1>t DEF Fail, Still, TypeOK
<1>2. new \in Inner /\ new.gen = conn[c].gen /\ new.state = state
  <2>1. state \in {"connecting", "ready", "auth", "failed", "disabled"} /\ 0 \in 0 .. MaxDials
    BY McpAssumption
  <2> HIDE DEF state
  <2>2. QED
    BY <2>1, <1>t DEF Inner
<1>3. /\ tk \in [Tasks -> TaskRecord]
      /\ \A u \in Tasks : /\ tk[u].at = task[u].at /\ tk[u].auth = task[u].auth
                          /\ u[3] = "dial" \/ u[1] # c => tk[u] = task[u]
  BY <1>t, AbortingSpares
<1>0. t[1] = c
  OBVIOUS
<1>a. state = "auth" \/ (state = "failed" /\ ~task[t].auth)
  OBVIOUS
<1>e. fired' \subseteq Conns \X Gens /\ session' \in [Conns \X Gens -> Sessions]
  BY <1>t, <1>1, EndingFacts
<1> HIDE DEF new, tk, c, state
<1>4. /\ conn' \in [Conns -> Inner] /\ conn'[c] = new /\ \A d \in Conns : d # c => conn'[d] = conn[d]
  BY <1>t, <1>1, <1>2, OneConn
<1>5. /\ task' \in [Tasks -> TaskRecord] /\ task'[t].at = "unpublish" /\ task'[t].auth = task[t].auth
      /\ task'[t].aborted = tk[t].aborted
      /\ \A u \in Tasks : u # t => task'[u] = tk[u]
  <2>1. /\ [tk[t] EXCEPT !.at = "unpublish"] \in TaskRecord
        /\ [tk[t] EXCEPT !.at = "unpublish"].at = "unpublish"
        /\ [tk[t] EXCEPT !.at = "unpublish"].auth = tk[t].auth
        /\ [tk[t] EXCEPT !.at = "unpublish"].aborted = tk[t].aborted
    BY <1>3 DEF TaskRecord, Places
  <2>2. QED
    BY <1>1, <1>3, <2>1
<1>6. TypeOK' /\ made' = made
  BY <1>t, <1>1, <1>4, <1>5, <1>e DEF TypeOK, manager
<1>7. Unhurt'
  <2>1. \A u \in Tasks : u[3] = "dial" => tk[u].aborted = task[u].aborted
    BY <1>3
  <2>2. QED
    BY <1>5, <2>1 DEF StrandInv, Unhurt
<1>8. \A u \in Tasks : task'[u].at = task[u].at \/ (task[u].at # "none" /\ task'[u].at \notin Pending)
  BY <1>t, <1>3, <1>5 DEF Pending
<1>9. Fresh'
  <2>1. \A d \in Conns : conn'[d].gen = conn[d].gen
    BY <1>2, <1>4
  <2>2. QED
    BY <2>1, <1>8, StaysFresh
<1>10. Strand(c)'
  <2>1. CASE state = "auth"
    BY <1>t, <1>2, <1>4, <2>1, SaysOther
  <2>2. CASE state = "failed" /\ ~task[t].auth
    <3>1. Arming(c)'
      BY <1>0, <1>5, <2>2 DEF Arming
    <3>2. conn'[c].state = "failed"
      BY <1>2, <1>4, <2>2
    <3>3. QED
      BY <3>1, <3>2 DEF Strand
  <2>3. QED
    BY <1>a, <2>1, <2>2
<1>11. \A u \in Tasks : u[1] # c => task'[u].at = task[u].at /\ task'[u].auth = task[u].auth
  BY <1>0, <1>3, <1>5
<1>12. QED
  BY <1>t, <1>4, <1>6, <1>7, <1>9, <1>10, <1>11, OneStrand

\* A timer that is armed.
LEMMA ArmStrands ==
  ASSUME StrandInv, NEW t \in Tasks, Arm(t)
  PROVE  StrandInv'
<1> DEFINE c == t[1]
           new == [conn[c] EXCEPT !.timer = ~conn[c].closed]
<1>t. TypeOK /\ c \in Conns /\ conn[c] \in Inner /\ task[t].at = "arm"
      /\ (t[3] = "dial" => ~task[t].aborted) /\ Strand(c)
  <2>1. TypeOK /\ c \in Conns /\ task[t].at = "arm"
    BY TaskIs DEF StrandInv, Arm, At
  <2>2. QED
    BY <2>1, ConnIs DEF StrandInv, Unhurt
<1>0. t[1] = c
  OBVIOUS
<1>1. /\ conn' = [conn EXCEPT ![c] = new] /\ Goto(t, "done")
      /\ UNCHANGED <<session, fired, faults, manager, sink>>
  BY <1>t DEF Arm, Still, TypeOK
<1>2. /\ new \in Inner /\ new.gen = conn[c].gen /\ new.state = conn[c].state
      /\ new.closed = conn[c].closed /\ new.timer = ~conn[c].closed /\ new.session = conn[c].session
      /\ new.spawned = conn[c].spawned
  BY <1>t DEF Inner
<1> HIDE DEF new, c
<1>3. /\ conn' \in [Conns -> Inner] /\ conn'[c] = new /\ \A d \in Conns : d # c => conn'[d] = conn[d]
  BY <1>t, <1>1, <1>2, OneConn
<1>4. /\ task' \in [Tasks -> TaskRecord] /\ task'[t].at = "done" /\ (task'[t].aborted => task[t].aborted)
      /\ \A u \in Tasks : u # t => task'[u] = task[u]
  BY <1>t, <1>1, GotoIs DEF Places
<1>5. TypeOK' /\ made' = made
  BY <1>t, <1>1, <1>3, <1>4 DEF TypeOK, manager
<1>6. Unhurt'
  BY <1>t, <1>4 DEF StrandInv, Unhurt
<1>7. Fresh'
  <2>1. \A d \in Conns : conn'[d].gen = conn[d].gen
    BY <1>2, <1>3
  <2>2. QED
    BY <2>1, <1>t, <1>4, StaysFresh DEF Pending
<1>8. Strand(c)'
  <2> SUFFICES ASSUME ~conn[c].closed PROVE Strand(c)'
    BY <1>2, <1>3 DEF Strand
  <2>1. ASSUME conn[c].state = "connecting", conn[c].gen # 0
        PROVE  /\ task'[Newest(c)].at \in Coming
               /\ task'[Newest(c)].at = "list" => conn[c].session # 0
    <3>1. /\ Newest(c) \in Tasks /\ task[Newest(c)].at \in Coming
          /\ task[Newest(c)].at = "list" => conn[c].session # 0
      BY <1>t, <2>1, NewestIs DEF Strand
    <3>2. Newest(c) # t
      BY <1>t, <3>1 DEF Coming
    <3>3. QED
      BY <1>4, <3>1, <3>2
  <2>2. Newest(c)' = Newest(c)
    BY <1>2, <1>3 DEF Newest
  <2>3. QED
    BY <1>t, <1>2, <1>3, <1>5, <2>1, <2>2 DEF Strand
<1>9. QED
  BY <1>t, <1>0, <1>3, <1>4, <1>5, <1>6, <1>7, <1>8, OneStrand

\* A dial that begins is the newest, and on its way.
LEMMA TimedStrands ==
  ASSUME StrandInv, NEW c \in Conns, Timed(c)
  PROVE  StrandInv'
<1>t. TypeOK /\ conn[c] \in Inner /\ conn[c].gen \in Nat
  BY ConnIs, McpAssumption DEF StrandInv
<1>0. UNCHANGED <<session, fired, manager, sink, faults>>
  BY DEF Timed, Begin, Redial, Still
<1>1. PICK inner \in Inner : /\ conn' = [conn EXCEPT ![c] = Dialling(c, inner)]
                             /\ inner.gen = conn[c].gen /\ inner.closed = conn[c].closed
  <2>1. CASE Begin(c)
    <3> DEFINE inner == [conn[c] EXCEPT !.spawned = FALSE]
    <3>1. inner \in Inner /\ inner.gen = conn[c].gen /\ inner.closed = conn[c].closed
      BY <1>t DEF Inner
    <3>2. conn' = [conn EXCEPT ![c] = Dialling(c, inner)]
      BY <2>1, <1>t DEF Begin, TypeOK
    <3>3. QED
      BY <3>1, <3>2
  <2>2. CASE Redial(c)
    <3> DEFINE inner == [conn[c] EXCEPT !.timer = FALSE, !.overtaken = Overtakes(c)]
    <3>1. inner \in Inner /\ inner.gen = conn[c].gen /\ inner.closed = conn[c].closed
      <4>1. Overtakes(c) \in BOOLEAN
        BY <1>t DEF Inner, Overtakes
      <4>2. QED
        BY <4>1, <1>t DEF Inner
    <3>2. conn' = [conn EXCEPT ![c] = Dialling(c, inner)]
      BY <2>2 DEF Redial
    <3>3. QED
      BY <3>1, <3>2
  <2>3. QED
    BY <2>1, <2>2 DEF Timed
<1>2. CASE conn[c].closed
  <2>1. task' = task /\ Dialling(c, inner) = inner
    BY <1>2 DEF Timed, Begin, Redial, Dial, Dialling
  <2>2. conn' \in [Conns -> Inner] /\ conn'[c] = inner /\ \A d \in Conns : d # c => conn'[d] = conn[d]
    BY <1>t, <1>1, <2>1, OneConn
  <2>3. TypeOK' /\ made' = made
    BY <1>t, <1>0, <2>1, <2>2 DEF TypeOK, manager
  <2>4. Unhurt'
    BY <2>1 DEF StrandInv, Unhurt
  <2>5. Fresh'
    <3>1. \A d \in Conns : conn'[d].gen = conn[d].gen
      BY <1>1, <2>2
    <3>2. QED
      BY <2>1, <3>1, StaysFresh
  <2>6. Strand(c)'
    BY <1>1, <1>2, <2>2, SaysOther
  <2>7. QED
    BY <2>1, <2>2, <2>3, <2>4, <2>5, <2>6, OneStrand
<1>3. CASE ~conn[c].closed
  <2> DEFINE g == conn[c].gen + 1
             d == <<c, g, "dial">>
             new == [inner EXCEPT !.gen = @ + 1, !.state = "connecting", !.token = conn[c].gen + 1]
  <2>1. g \in Gens /\ Goto(d, "connecting")
    BY <1>3 DEF Timed, Begin, Redial, Dial
  <2>2. conn' = [conn EXCEPT ![c] = new]
    BY <1>1, <1>3 DEF Dialling
  <2>3. new \in Inner /\ new.gen = g /\ new.state = "connecting" /\ g # 0
    <3>1. g \in 0 .. MaxDials /\ g # 0
      BY <1>t, <2>1, McpAssumption DEF Gens
    <3>2. QED
      BY <1>1, <3>1 DEF Inner
  <2>4. d \in Tasks /\ d[1] = c /\ d[2] = g /\ d[3] = "dial"
    BY <2>1 DEF Tasks
  <2>5. ~(g <= conn[c].gen)
    BY <1>t
  <2> HIDE DEF new, g
  <2>6. conn' \in [Conns -> Inner] /\ conn'[c] = new /\ \A e \in Conns : e # c => conn'[e] = conn[e]
    BY <1>t, <2>2, <2>3, OneConn
  <2>7. /\ task' \in [Tasks -> TaskRecord] /\ task'[d].at = "connecting"
        /\ task'[d].aborted => task[d].aborted
        /\ \A u \in Tasks : u # d => task'[u] = task[u]
    BY <1>t, <2>1, <2>4, GotoIs DEF Places
  <2>8. TypeOK' /\ made' = made
    BY <1>t, <1>0, <2>6, <2>7 DEF TypeOK, manager
  <2>9. Unhurt'
    BY <2>4, <2>7 DEF StrandInv, Unhurt
  <2>10. Strand(c)'
    <3>1. Newest(c)' = d /\ conn'[c].state = "connecting" /\ conn'[c].gen # 0
      BY <2>3, <2>6 DEF Newest
    <3>2. task'[d].at \in Coming /\ task'[d].at # "list"
      BY <2>7 DEF Coming
    <3>3. QED
      BY <3>1, <3>2 DEF Strand
  <2>11. Fresh'
    <3> SUFFICES ASSUME NEW u \in Tasks
                 PROVE  /\ task'[u].at # "none" => u[2] <= conn'[u[1]].gen
                        /\ u[3] = "watch" => /\ task'[u].at \notin Pending
                                             /\ (task'[<<u[1], u[2], "dial">>].at \in Pending => task'[u].at = "none")
      BY DEF Fresh
    <3>0. u[1] \in Conns /\ u[2] \in Nat
      BY TaskIs, GenIs
    <3>1. conn[u[1]].gen \in Nat
      BY <1>t, <3>0, ConnIs, McpAssumption
    <3>2. task[u].at # "none" => u[2] <= conn[u[1]].gen
      BY DEF StrandInv, Fresh
    <3>3. task'[u].at # "none" => u[2] <= conn'[u[1]].gen
      <4>1. CASE u[1] # c
        BY <2>4, <2>6, <2>7, <3>0, <3>2, <4>1
      <4>2. CASE u = d
        BY <2>1, <2>3, <2>4, <2>6, <3>0, <4>2
      <4>3. CASE u[1] = c /\ u # d
        <5>1. task'[u] = task[u] /\ conn'[u[1]].gen = g /\ g = conn[u[1]].gen + 1
          BY <2>3, <2>6, <2>7, <4>3 DEF g
        <5>2. QED
          BY <3>0, <3>1, <3>2, <5>1
      <4>4. QED
        BY <4>1, <4>2, <4>3
    <3>4. ASSUME u[3] = "watch"
          PROVE  /\ task'[u].at \notin Pending
                 /\ (task'[<<u[1], u[2], "dial">>].at \in Pending => task'[u].at = "none")
      <4>1. u # d /\ task'[u] = task[u]
        BY <2>4, <2>7, <3>4
      <4>2. PICK e \in Tasks : e = <<u[1], u[2], "dial">>
        BY TaskIs DEF Tasks
      <4>3. task[u].at \notin Pending /\ (task[e].at \in Pending => task[u].at = "none")
        BY <3>4, <4>2 DEF StrandInv, Fresh
      <4>4. CASE e # d
        BY <2>7, <4>1, <4>2, <4>3, <4>4
      <4>5. CASE e = d
        <5>1. u[1] = c /\ u[2] = g
          BY <4>2, <4>5
        <5>2. QED
          BY <2>5, <3>2, <4>1, <4>3, <5>1
      <4>6. QED
        BY <4>4, <4>5
    <3>5. QED
      BY <3>3, <3>4
  <2>12. \A u \in Tasks : u[1] # c => task'[u].at = task[u].at /\ task'[u].auth = task[u].auth
    BY <2>4, <2>7
  <2>13. QED
    BY <2>6, <2>8, <2>9, <2>10, <2>11, <2>12, OneStrand
<1>4. QED
  BY <1>2, <1>3

\* A close.
LEMMA CloseStrands ==
  ASSUME StrandInv, NEW c \in Conns, Close(c)
  PROVE  StrandInv'
<1> DEFINE new == [conn[c] EXCEPT !.closed = TRUE, !.gen = @ + 1, !.timer = FALSE, !.watcher = 0,
                          !.token = 0, !.session = 0, !.state = "disabled", !.listed = FALSE]
<1>t. TypeOK /\ conn[c] \in Inner /\ conn[c].gen \in Nat /\ conn[c].gen < MaxDials
  <2>1. TypeOK /\ conn[c].gen < MaxDials
    BY DEF StrandInv, Close
  <2>2. conn[c] \in Inner /\ conn[c].gen \in 0 .. MaxDials
    BY <2>1, ConnIs
  <2>3. QED
    BY <2>1, <2>2, McpAssumption
<1>1. /\ conn' = [conn EXCEPT ![c] = new] /\ Firing(c) /\ Ending(c)
      /\ task' = Aborting(task, c, conn[c].watcher)
      /\ retiring' = [retiring EXCEPT ![c] = "unpublish"]
      /\ UNCHANGED <<current, made, operator, shut, edits, sink, faults>>
  BY <1>t DEF Close, TypeOK
<1>2. new \in Inner /\ new.gen = conn[c].gen + 1 /\ new.closed = TRUE
  <2>1. 0 \in 0 .. MaxDials /\ conn[c].gen + 1 \in 0 .. MaxDials
    BY <1>t, McpAssumption
  <2>2. QED
    BY <2>1, <1>t DEF Inner
<1> HIDE DEF new
<1>3. /\ task' \in [Tasks -> TaskRecord]
      /\ \A u \in Tasks : /\ task'[u].at = task[u].at /\ task'[u].auth = task[u].auth
                          /\ u[3] = "dial" => task'[u] = task[u]
  BY <1>t, <1>1, AbortingSpares
<1>4. conn' \in [Conns -> Inner] /\ conn'[c] = new /\ \A d \in Conns : d # c => conn'[d] = conn[d]
  BY <1>t, <1>1, <1>2, OneConn
<1>5. TypeOK'
  <2>1. fired' \subseteq Conns \X Gens /\ session' \in [Conns \X Gens -> Sessions]
    BY <1>t, <1>1, EndingFacts
  <2>2. retiring' \in [Conns -> {"no", "due", "unpublish", "done"}]
    BY <1>t, <1>1 DEF TypeOK
  <2>3. QED
    BY <1>t, <1>1, <1>3, <1>4, <2>1, <2>2 DEF TypeOK
<1>6. Unhurt'
  BY <1>3 DEF StrandInv, Unhurt
<1>7. Fresh'
  <2>1. \A u \in Tasks : u[1] \in Conns /\ u[2] \in Nat /\ <<u[1], u[2], "dial">> \in Tasks
    BY TaskIs, GenIs DEF Tasks
  <2>2. \A d \in Conns : conn[d].gen \in Nat /\ (conn'[d].gen = conn[d].gen \/ conn'[d].gen = conn[d].gen + 1)
    BY <1>t, <1>2, <1>4, ConnIs, McpAssumption
  <2>3. ASSUME NEW u \in Tasks, task'[u].at # "none" PROVE u[2] <= conn'[u[1]].gen
    <3>1. u[2] <= conn[u[1]].gen
      BY <1>3, <2>3 DEF StrandInv, Fresh
    <3>2. PICK d \in Conns : d = u[1]
      BY <2>1
    <3>3. u[2] \in Nat /\ conn[d].gen \in Nat /\ u[2] <= conn[d].gen
          /\ (conn'[d].gen = conn[d].gen \/ conn'[d].gen = conn[d].gen + 1)
      BY <2>1, <2>2, <3>1, <3>2
    <3>4. u[2] <= conn'[d].gen
      BY <3>3
    <3>5. QED
      BY <3>2, <3>4
  <2>4. QED
    BY <1>3, <2>1, <2>3 DEF StrandInv, Fresh
<1>8. Strand(c)'
  BY <1>2, <1>4, SaysOther
<1>9. QED
  BY <1>1, <1>3, <1>4, <1>5, <1>6, <1>7, <1>8, OneStrand

\* A connection that is made has its start to come.
LEMMA ApplyStrands ==
  ASSUME StrandInv, Apply
  PROVE  StrandInv'
<1>m. TypeOK /\ made \in Nat /\ made + 1 \in Conns /\ current \in 0 .. MaxConns
  <2>1. TypeOK /\ made \in 0 .. MaxConns /\ made < MaxConns /\ current \in 0 .. MaxConns
    BY DEF StrandInv, TypeOK, Apply
  <2>2. QED
    BY <2>1, McpAssumption DEF Conns
<1>c. PICK c \in Conns : c = made + 1
  BY <1>m
<1> DEFINE new == [conn[c] EXCEPT !.spawned = TRUE]
<1>t. conn[c] \in Inner /\ TypeOK
  BY <1>m, ConnIs
<1>1. /\ conn' = [conn EXCEPT ![c] = new] /\ made' = made + 1 /\ current' = made + 1
      /\ retiring' = Retired(current) /\ edits' = edits + 1 /\ edits < MaxEdits
      /\ sink' = (IF current = 0 THEN sink ELSE 0)
      /\ UNCHANGED <<task, session, fired, operator, shut, faults>>
  BY <1>c, <1>t DEF Apply, TypeOK
<1>2. /\ new \in Inner /\ new.spawned = TRUE /\ new.session = conn[c].session /\ new.gen = conn[c].gen
      /\ new.timer = conn[c].timer /\ new.closed = conn[c].closed /\ new.state = conn[c].state
  BY <1>t DEF Inner
<1>3. c \in Nat /\ c = made' /\ \A d \in Conns : d # c /\ d <= made' => d <= made
  BY <1>m, <1>c, <1>1, McpAssumption DEF Conns
<1> HIDE DEF new
<1>4. conn' \in [Conns -> Inner] /\ conn'[c] = new /\ \A d \in Conns : d # c => conn'[d] = conn[d]
  BY <1>t, <1>1, <1>2, OneConn
<1>5. TypeOK'
  <2>1. made' \in 0 .. MaxConns /\ current' \in 0 .. MaxConns /\ edits' \in 0 .. MaxEdits /\ sink' \in 0 .. MaxConns
    BY <1>m, <1>t, <1>1, <1>3, McpAssumption DEF TypeOK, Apply, Conns
  <2>2. retiring' \in [Conns -> {"no", "due", "unpublish", "done"}]
    BY <1>m, <1>t, <1>1 DEF Retired, TypeOK
  <2>3. QED
    BY <1>t, <1>1, <1>4, <2>1, <2>2 DEF TypeOK
<1>6. Unhurt'
  BY <1>1 DEF StrandInv, Unhurt
<1>7. Fresh'
  <2>1. \A d \in Conns : conn'[d].gen = conn[d].gen
    BY <1>2, <1>4
  <2>2. QED
    BY <1>1, <2>1, StaysFresh
<1>8. Strand(c)'
  <2> SUFFICES ASSUME ~conn[c].closed PROVE Strand(c)'
    BY <1>2, <1>4 DEF Strand
  <2>0. Strand(c)
    BY DEF StrandInv
  <2>1. Newest(c)' = Newest(c) /\ task' = task
    BY <1>1, <1>2, <1>4 DEF Newest
  <2>2. Arming(c)' = Arming(c)
    BY <1>1 DEF Arming
  <2>3. QED
    BY <1>2, <1>4, <2>0, <2>1, <2>2 DEF Strand
<1>9. ASSUME NEW d \in Conns, d # c PROVE Strand(d)'
  <2>1. conn'[d] = conn[d] /\ (d <= made' => d <= made) /\ TypeOK /\ Strand(d) /\ task' = task
    BY <1>1, <1>3, <1>4, <1>9 DEF StrandInv
  <2>2. QED
    BY <2>1, LeftAlone
<1>10. QED
  BY <1>5, <1>6, <1>7, <1>8, <1>9 DEF StrandInv

\* Sessions that end, and what the manager does by itself, strand nobody.
LEMMA AsideStrands ==
  ASSUME StrandInv,
         \/ \E s \in Conns \X Gens : Drops(s)
         \/ \E c \in Conns : Closed(c)
         \/ Retire \/ Rebridge \/ Republish \/ UNCHANGED vars
  PROVE  StrandInv'
<1>t. TypeOK /\ 0 \in 0 .. MaxConns
  BY McpAssumption DEF StrandInv
<1>1. UNCHANGED <<conn, task, fired, made>>
  BY DEF Drops, Closed, Retire, Rebridge, Republish, vars, manager, Still
<1>2. session' \in [Conns \X Gens -> Sessions]
  BY <1>t DEF Drops, Closed, Retire, Rebridge, Republish, vars, manager, TypeOK, Sessions
<1>3. faults' \in 0 .. MaxFaults
  BY <1>t, McpAssumption DEF Drops, Closed, Retire, Rebridge, Republish, vars, manager, TypeOK, Fault
<1>4. retiring' \in [Conns -> {"no", "due", "unpublish", "done"}]
  BY <1>t DEF Drops, Closed, Retire, Rebridge, Republish, vars, manager, TypeOK, Still, Retired
<1>5. sink' \in 0 .. MaxConns /\ current' \in 0 .. MaxConns /\ operator' \in 0 .. MaxConns
  BY <1>t DEF Drops, Closed, Retire, Rebridge, Republish, vars, manager, TypeOK, Still
<1>6. edits' \in 0 .. MaxEdits
  BY <1>t, McpAssumption DEF Drops, Closed, Retire, Rebridge, Republish, vars, manager, TypeOK, Still
<1>7. shut' \in BOOLEAN
  BY <1>t DEF Drops, Closed, Retire, Rebridge, Republish, vars, manager, TypeOK, Still
<1>8. TypeOK'
  BY <1>t, <1>1, <1>2, <1>3, <1>4, <1>5, <1>6, <1>7 DEF TypeOK
<1>9. Unhurt'
  BY <1>1 DEF StrandInv, Unhurt
<1>10. Fresh'
  BY <1>1, StaysFresh
<1>11. ASSUME NEW c \in Conns PROVE Strand(c)'
  BY <1>1, <1>t, LeftAlone DEF StrandInv
<1>12. QED
  BY <1>8, <1>9, <1>10, <1>11 DEF StrandInv

\* It holds initially.
LEMMA StrandInit == Init => StrandInv
<1> SUFFICES ASSUME Init PROVE StrandInv
  OBVIOUS
<1>1. TypeOK
  BY ConnInit DEF ConnInv
<1>2. \A t \in Tasks : task[t].at = "none" /\ task[t].aborted = FALSE
  BY DEF Init, Idle
<1>3. \A c \in Conns : conn[c].state = "connecting" /\ conn[c].gen = 0 /\ ~(c <= made)
  BY McpAssumption DEF Init, New, Conns
<1>4. Unhurt /\ Fresh
  BY <1>2 DEF Unhurt, Fresh, Pending
<1>5. \A c \in Conns : Strand(c)
  BY <1>3 DEF Strand
<1>6. QED
  BY <1>1, <1>4, <1>5 DEF StrandInv

\* Every step keeps it.
LEMMA StrandNext == StrandInv /\ [Next]_vars => StrandInv'
<1> SUFFICES ASSUME StrandInv, [Next]_vars PROVE StrandInv'
  OBVIOUS
<1>1. ASSUME NEW t \in Tasks, Step(t) \/ Report(t) \/ Change(t) PROVE StrandInv'
  BY <1>1, TaskStrands, WriteStrands, AdoptStrands, FailStrands, ArmStrands DEF Step
<1>2. ASSUME NEW c \in Conns, Timed(c) \/ Ends(c) PROVE StrandInv'
  BY <1>2, TimedStrands, CloseStrands, AsideStrands DEF Ends
<1>3. QED
  BY <1>1, <1>2, ApplyStrands, AsideStrands DEF Next

\* A dial that overtook a task stays one that did.
LEMMA CalmBefore == StrandInv /\ [Next]_vars /\ Calm' => Calm
<1> SUFFICES ASSUME StrandInv, [Next]_vars, NEW c \in Conns, conn[c].overtaken
             PROVE  conn'[c].overtaken
  BY DEF Calm
<1>1. TypeOK /\ conn \in [Conns -> Inner]
  BY DEF StrandInv, TypeOK
<1>2. ASSUME NEW d \in Conns, Timed(d) PROVE conn'[c].overtaken
  <2>1. CASE Begin(d)
    BY <1>1, <2>1 DEF Begin, Dialling, Inner
  <2>2. CASE Redial(d)
    BY <1>1, <2>2 DEF Redial, Dialling, Overtakes, Inner
  <2>3. QED
    BY <1>2, <2>1, <2>2 DEF Timed
<1>3. ASSUME NEW d \in Conns, Ends(d) PROVE conn'[c].overtaken
  BY <1>1, <1>3 DEF Ends, Close, Closed, Inner
<1>4. ASSUME NEW t \in Tasks, Step(t) \/ Report(t) \/ Change(t) PROVE conn'[c].overtaken
  <2>1. CASE Adopt(t)
    BY <1>1, <2>1 DEF Adopt, Inner
  <2>2. CASE Write(t) \/ Report(t)
    BY <1>1, <2>2 DEF Write, Report, Inner
  <2>3. CASE Fail(t)
    BY <1>1, <2>3 DEF Fail, Inner
  <2>4. CASE Arm(t)
    BY <1>1, <2>4 DEF Arm, Inner
  <2>5. CASE \/ Connect(t) \/ Refused(t) \/ Look(t) \/ Ask(t) \/ Answer(t) \/ Check(t) \/ Publish(t)
             \/ Hear(t) \/ Killed(t) \/ Judge(t) \/ Unpublish(t) \/ Change(t)
    <3>1. conn' = conn
      BY <2>5 DEF Connect, Refused, Look, Ask, Answer, Check, Publish, Hear, Killed, Judge, Unpublish,
                  Change, InTask
    <3>2. QED
      BY <3>1
  <2>6. QED
    BY <1>4, <2>1, <2>2, <2>3, <2>4, <2>5 DEF Step
<1>5. CASE Apply
  BY <1>1, <1>5 DEF Apply, Inner
<1>6. CASE \/ \E s \in Conns \X Gens : Drops(s)
           \/ Retire \/ Rebridge \/ Republish \/ UNCHANGED vars
  <2>1. conn' = conn
    BY <1>6 DEF Drops, Retire, Rebridge, Republish, vars
  <2>2. QED
    BY <2>1
<1>7. QED
  BY <1>2, <1>3, <1>4, <1>5, <1>6 DEF Next

-----------------------------------------------------------------------------
(* The theorems. *)

\* No connection that is connecting or has failed is stranded, whatever dials overtake.
THEOREM NoneIsStranded == Spec => []NeverStranded
<1>1. Spec => []StrandInv
  BY StrandInit, StrandNext, PTL DEF Spec
<1>2. StrandInv => NeverStranded
  <2> SUFFICES ASSUME StrandInv, NEW c \in 1 .. made, ~conn[c].closed,
                      conn[c].state \in {"connecting", "failed"}
               PROVE  Ahead(c)
    BY DEF NeverStranded
  <2>1. c \in Conns /\ c <= made
    BY McpAssumption DEF StrandInv, TypeOK, Conns
  <2>2. Strand(c)
    BY <2>1 DEF StrandInv
  <2>3. QED
    BY <2>1, <2>2 DEF Strand, Ahead, Arming, Newest
<1>3. QED
  BY <1>1, <1>2, PTL

\* Every variable keeps its shape.
THEOREM ConnIsTyped == Spec => []TypeOK
<1>1. StrandInv => TypeOK
  BY DEF StrandInv
<1>2. QED
  BY <1>1, StrandInit, StrandNext, PTL DEF Spec

\* Until a dial overtakes a task, the inductive invariant holds of every run of the
\* connections.
THEOREM ConnInvariant == Spec => [](Calm => ConnInv)
<1>1. Init => StrandInv /\ (Calm => ConnInv)
  BY StrandInit, ConnInit
<1>2. StrandInv /\ (Calm => ConnInv) /\ [Next]_vars => StrandInv' /\ (Calm => ConnInv)'
  BY StrandNext, ConnNext, CalmBefore
<1>3. QED
  BY <1>1, <1>2, PTL DEF Spec

\* Until a dial overtakes a task no session is forgotten: one that lives is held by its
\* connection, or in the hands of the dial that opened it.
THEOREM NoSessionIsForgotten == Spec => []NoSessionForgotten
<1>1. (Calm => ConnInv) => NoSessionForgotten
  BY DEF ConnInv, NoSessionForgotten
<1>2. QED
  BY <1>1, ConnInvariant, PTL

\* The dials of a connection that have not settled yet.
Dialing(c)  == {g \in Gens : task[<<c, g, "dial">>].at \in Pending}
OneDial ==
  \A c \in Conns : ~conn[c].closed => \A g, h \in Dialing(c) : g = h

\* Until a dial overtakes a task, dials of a connection that is open never overlap,
\* whatever has failed at once, and a connection that was closed has no session that
\* lives, one whose dial the close overtook included.
THEOREM DialsDoNotOverlap == Spec => [](Calm => OneDial /\ ClosedInv)
<1>1. ConnInv => OneDial /\ ClosedInv
  <2> SUFFICES ASSUME ConnInv, NEW c \in Conns, ~conn[c].closed, NEW g \in Dialing(c)
               PROVE  g = conn[c].gen
    BY DEF OneDial, ConnInv
  <2>1. g \in Gens /\ task[<<c, g, "dial">>].at \in Pending
    BY DEF Dialing
  <2>2. QED
    BY <2>1 DEF ConnInv, DialInv
<1>2. QED
  BY <1>1, ConnInvariant, PTL
=============================================================================
