------------------------- MODULE ExtensionHostProofs -------------------------
(* Theorems about ExtensionHost, for any number of extensions, versions,     *)
(* starts, edits and faults.                                                 *)
EXTENDS ExtensionHost, FiniteSetTheorems, TLAPS

-----------------------------------------------------------------------------
(* The inductive invariant. *)

\* A row holds the child of its own generation or none: a watcher that empties the
\* row of its start lets go of no other child.
RowInv == \A e \in Exts : row[e] # None => row[e].child \in {0, row[e].gen}

\* Generations are given out in order, and only a start that was given one spawns.
BegunInv == \E n \in 0 .. MaxStarts : Begun = 1 .. n
ChildInv == \A g \in Starts : child[g] # "none" => g \in Begun

\* Children wait to be told by the stop alone.  After it the only row is one that a
\* reconcile writes that had already looked, and such a row runs nothing.
SettledRow(r) == r # None => r.gen = 0 /\ r.child = 0 /\ ~r.offers
HaltInv == /\ ~closed => halting = {}
           /\ closed => \A e \in Exts : SettledRow(row[e])

HostInv == /\ TypeOK /\ RowInv /\ BegunInv /\ ChildInv /\ HaltInv
           /\ NoChildForgotten

-----------------------------------------------------------------------------
(* Shapes. *)

\* A start that has a place has a record.
LEMMA StartIs ==
  ASSUME TypeOK, NEW g \in Starts, g \in Begun
  PROVE  start[g] \in StartRecord /\ start[g].ext \in Exts
         /\ start[g].version \in Versions /\ start[g].respawned \in BOOLEAN
         /\ start[g].at \in Places
BY DEF TypeOK, Begun, StartRecord

\* A row that is there is a record.
LEMMA RowIs ==
  ASSUME TypeOK, NEW e \in Exts, row[e] # None
  PROVE  /\ row[e] \in Row
         /\ row[e].child \in 0 .. MaxStarts /\ row[e].gen \in 0 .. MaxStarts
         /\ row[e].version \in Versions \cup {None}
         /\ row[e].offers \in BOOLEAN /\ row[e].respawned \in BOOLEAN
BY DEF TypeOK, Row

\* A row that lets go of its child and its tools.
LEMMA EmptiedRow ==
  ASSUME NEW r \in Row, NEW state \in {"ready", "failed", "off"}, NEW again \in BOOLEAN
  PROVE  /\ [r EXCEPT !.child = 0, !.offers = FALSE] \in Row
         /\ [r EXCEPT !.child = 0, !.offers = FALSE].child = 0
         /\ [r EXCEPT !.state = state, !.child = 0, !.offers = FALSE, !.respawned = again] \in Row
         /\ [r EXCEPT !.state = state, !.child = 0, !.offers = FALSE, !.respawned = again].child = 0
<1>1. 0 \in 0 .. MaxStarts
  BY HostAssumption
<1>2. QED
  BY <1>1 DEF Row

\* Telling children to leave.
LEMMA ToldFacts ==
  ASSUME TypeOK, NEW gs
  PROVE  /\ Told(child, gs) \in [Starts -> {"none", "up", "leaving", "gone"}]
         /\ \A g \in Starts : /\ Told(child, gs)[g] = "up" <=> child[g] = "up" /\ g \notin gs
                              /\ Told(child, gs)[g] = "none" <=> child[g] = "none"
BY DEF Told, TypeOK

\* Moving a task on.
LEMMA GotoFacts ==
  ASSUME TypeOK, NEW g \in Starts, g \in Begun, NEW at \in Places, Goto(g, at)
  PROVE  /\ start' \in [Starts -> StartRecord \cup {None}]
         /\ Begun' = Begun
         /\ \A h \in Starts : h # g => start'[h] = start[h]
         /\ start'[g].at = at /\ start'[g].ext = start[g].ext
<1>1. start[g] \in StartRecord
  BY StartIs
<1>2. start' = [start EXCEPT ![g].at = at]
  BY DEF Goto
<1>3. start'[g] = [start[g] EXCEPT !.at = at] /\ start'[g] \in StartRecord
  BY <1>1, <1>2 DEF TypeOK, StartRecord
<1>4. \A h \in Starts : h # g => start'[h] = start[h]
  BY <1>2 DEF TypeOK
<1>5. start' \in [Starts -> StartRecord \cup {None}]
  BY <1>2, <1>3, <1>4 DEF TypeOK
<1>6. Begun' = Begun
  BY <1>3, <1>4, NoneAssumption DEF Begun
<1>7. QED
  BY <1>1, <1>3, <1>4, <1>5, <1>6 DEF StartRecord

\* The tools a change of the rows announces.
LEMMA AnnounceFacts ==
  ASSUME TypeOK, Announce(row'), row' \in [Exts -> Row \cup {None}]
  PROVE  registry' \in [Exts -> 0 .. MaxStarts]
<1>1. \A e \in Exts : Listed(row', e) \in 0 .. MaxStarts
  BY HostAssumption DEF Listed, TypeOK, Row
<1>2. QED
  BY <1>1 DEF Announce

\* The next generation is new.
LEMMA NextIsNew ==
  ASSUME BegunInv
  PROVE  /\ NextStart \in Nat /\ NextStart \notin Begun
         /\ NextStart \in Starts => \E n \in 0 .. MaxStarts : Begun \cup {NextStart} = 1 .. n
<1>1. PICK n \in 0 .. MaxStarts : Begun = 1 .. n
  BY DEF BegunInv
<1>2. Cardinality(1 .. n) = n
  BY FS_Interval, HostAssumption
<1>3. NextStart = n + 1 /\ n \in Nat
  BY <1>1, <1>2, HostAssumption DEF NextStart
<1>4. ASSUME NextStart \in Starts
      PROVE  \E m \in 0 .. MaxStarts : Begun \cup {NextStart} = 1 .. m
  <2>1. n + 1 \in 0 .. MaxStarts /\ (1 .. n) \cup {n + 1} = 1 .. (n + 1)
    BY <1>3, <1>4, HostAssumption DEF Starts
  <2>2. QED
    BY <1>1, <1>3, <2>1
<1>5. QED
  BY <1>1, <1>3, <1>4

\* Registering a start overwrites none.
LEMMA RegisterFacts ==
  ASSUME TypeOK, BegunInv, NEW e \in Exts, NEW version \in Versions, NEW again \in BOOLEAN,
         NEW others \in [Starts -> StartRecord \cup {None}],
         \A g \in Starts : others[g] # None <=> start[g] # None,
         Register(e, version, again, others)
  PROVE  /\ start' \in [Starts -> StartRecord \cup {None}]
         /\ starting' \in [Exts -> 0 .. MaxStarts]
         /\ BegunInv' /\ Begun \subseteq Begun'
         /\ \A g \in Begun : start'[g] = others[g]
<1> DEFINE new == [ext |-> e, version |-> version, at |-> "spawn", respawned |-> again]
<1>1. NextStart \in Starts /\ NextStart \notin Begun /\ start' = [others EXCEPT ![NextStart] = new]
  BY NextIsNew DEF Register
<1>2. new \in StartRecord /\ new # None
  BY NoneAssumption DEF StartRecord, Places
<1>3. start' \in [Starts -> StartRecord \cup {None}]
  BY <1>1, <1>2
<1>4. \A g \in Starts : start'[g] = IF g = NextStart THEN new ELSE others[g]
  BY <1>1
<1>5. Begun' = Begun \cup {NextStart}
  BY <1>1, <1>2, <1>4 DEF Begun
<1>6. BegunInv'
  BY <1>1, <1>5, NextIsNew DEF BegunInv
<1>7. NextStart \in 0 .. MaxStarts
  BY <1>1, HostAssumption DEF Starts
<1>8. starting' \in [Exts -> 0 .. MaxStarts]
  BY <1>7 DEF Register, TypeOK
<1>9. Begun \subseteq Starts
  BY DEF Begun
<1>10. QED
  BY <1>1, <1>3, <1>4, <1>5, <1>6, <1>8, <1>9

-----------------------------------------------------------------------------
(* One action at a time. *)

\* It holds initially.
LEMMA HostInit == Init => HostInv
<1> SUFFICES ASSUME Init PROVE HostInv
  OBVIOUS
<1>1. TypeOK
  <2>1. world \in [Exts -> {"gone", "off"} \cup Versions]
    BY DEF Init
  <2>2. 0 \in 0 .. MaxStarts /\ 0 \in 0 .. MaxEdits /\ 0 \in 0 .. MaxFaults
    BY HostAssumption
  <2>3. QED
    BY <2>1, <2>2 DEF Init, TypeOK
<1>2. BegunInv
  <2>1. Begun = {}
    BY DEF Init, Begun
  <2>2. 0 \in 0 .. MaxStarts /\ 1 .. 0 = {}
    BY HostAssumption
  <2>3. QED
    BY <2>1, <2>2 DEF BegunInv
<1>3. RowInv /\ ChildInv /\ HaltInv /\ NoChildForgotten
  BY DEF Init, RowInv, ChildInv, HaltInv, SettledRow, NoChildForgotten
<1>4. QED
  BY <1>1, <1>2, <1>3 DEF HostInv

\* A task that moves on, and at most brings its child up or tells it to leave: it
\* does not turn from a child of its own that is up.
LEMMA MoveKeeps ==
  ASSUME HostInv, NEW g \in Starts, g \in Begun, NEW at \in Places, Goto(g, at),
         Task, Quiet, child' \in [Starts -> {"none", "up", "leaving", "gone"}],
         \A h \in Starts : /\ child'[h] = "up" => child[h] = "up" \/ h = g
                           /\ child'[h] # "none" => child[h] # "none" \/ h = g,
         child'[g] = "up" /\ at \notin {"handshake", "probe"}
           => child[g] = "up" /\ start[g].at \notin {"handshake", "probe"}
  PROVE  HostInv'
<1>1. TypeOK'
  BY GotoFacts DEF HostInv, TypeOK, Task, Quiet, rows
<1>2. BegunInv' /\ ChildInv' /\ RowInv' /\ HaltInv'
  BY GotoFacts DEF HostInv, BegunInv, ChildInv, RowInv, HaltInv, SettledRow, Task, Quiet, rows
<1>3. NoChildForgotten'
  <2> SUFFICES ASSUME NEW h \in Starts, child'[h] = "up"
               PROVE  \/ \E e \in Exts : row'[e] # None /\ row'[e].child = h
                      \/ start'[h].at \in {"handshake", "probe"}
                      \/ h \in halting' \/ h \in buried'
    BY DEF NoChildForgotten
  <2>1. row' = row /\ halting' = halting /\ buried' = buried
    BY DEF Task, Quiet, rows
  <2>2. CASE h = g
    BY <2>1, <2>2, GotoFacts DEF HostInv, NoChildForgotten
  <2>3. CASE h # g
    BY <2>1, <2>3, GotoFacts DEF HostInv, NoChildForgotten
  <2>4. QED
    BY <2>2, <2>3
<1>4. QED
  BY <1>1, <1>2, <1>3 DEF HostInv

\* A start that lands: what the row held is told to leave, and its own child is
\* held by the row, or was not there to hold.
LEMMA LandKeeps ==
  ASSUME HostInv, NEW g \in Starts, g \in Begun, NEW state \in {"ready", "failed"},
         NEW held \in {0, g}, NEW next \in Places, Land(g, state, held, next), Task,
         start[g].at \in {"handshake", "probe"} => held = g
  PROVE  HostInv'
<1> DEFINE e == start[g].ext
           new == [state |-> state, version |-> start[g].version, gen |-> g, child |-> held,
                   offers |-> held # 0, respawned |-> start[g].respawned]
<1>t. TypeOK
  BY DEF HostInv
<1>1. e \in Exts /\ starting' = [starting EXCEPT ![e] = 0] /\ row' = [row EXCEPT ![e] = new]
      /\ child' = Told(child, Running(e)) /\ Announce(row') /\ Goto(g, next) /\ ~Fired(g)
  BY <1>t, StartIs DEF Land, MayLand
<1>2. new \in Row /\ new # None /\ new.child = held /\ new.gen = g
  <2>1. g \in 0 .. MaxStarts /\ held \in 0 .. MaxStarts
    BY HostAssumption DEF Starts
  <2>2. start[g].version \in Versions /\ start[g].respawned \in BOOLEAN
    BY <1>t, StartIs
  <2>3. new \in Row
    BY <2>1, <2>2 DEF Row
  <2>4. QED
    BY <2>3, NoneAssumption
<1>3. /\ row' \in [Exts -> Row \cup {None}]
      /\ row'[e] = new
      /\ \A f \in Exts : f # e => row'[f] = row[f]
  BY <1>1, <1>2, <1>t DEF TypeOK
<1>4. /\ child' \in [Starts -> {"none", "up", "leaving", "gone"}]
      /\ \A h \in Starts : /\ child'[h] = "up" => child[h] = "up" /\ h \notin Running(e)
                           /\ child'[h] # "none" => child[h] # "none"
  BY <1>1, <1>t, ToldFacts
<1>5. /\ start' \in [Starts -> StartRecord \cup {None}] /\ Begun' = Begun
      /\ \A h \in Starts : h # g => start'[h] = start[h]
  BY <1>1, <1>t, GotoFacts
<1>6. registry' \in [Exts -> 0 .. MaxStarts]
  BY <1>1, <1>3, <1>t, AnnounceFacts
<1>7. starting' \in [Exts -> 0 .. MaxStarts]
  BY <1>1, <1>t, HostAssumption DEF TypeOK
<1>8. cancelled' \subseteq Starts
  BY <1>t DEF Land, TypeOK
<1>9. TypeOK'
  BY <1>3, <1>4, <1>5, <1>6, <1>7, <1>8, <1>t DEF TypeOK, Task
<1>10. BegunInv' /\ ChildInv'
  BY <1>4, <1>5 DEF HostInv, BegunInv, ChildInv
<1>11. RowInv'
  BY <1>2, <1>3 DEF HostInv, RowInv
<1>12. HaltInv'
  BY <1>1 DEF HostInv, HaltInv, SettledRow, Task, Fired
<1>13. NoChildForgotten'
  <2> SUFFICES ASSUME NEW h \in Starts, child'[h] = "up"
               PROVE  \/ \E f \in Exts : row'[f] # None /\ row'[f].child = h
                      \/ start'[h].at \in {"handshake", "probe"}
                      \/ h \in halting' \/ h \in buried'
    BY DEF NoChildForgotten
  <2>1. child[h] = "up" /\ h \notin Running(e)
    BY <1>4
  <2>2. CASE h \in halting \/ h \in buried
    BY <2>2 DEF Task
  <2>3. ASSUME NEW f \in Exts, row[f] # None, row[f].child = h
        PROVE  row'[f] # None /\ row'[f].child = h
    BY <2>1, <2>3, <1>3 DEF Running
  <2>4. CASE start[h].at \in {"handshake", "probe"}
    <3>1. CASE h = g
      BY <3>1, <2>4, <1>1, <1>2, <1>3
    <3>2. CASE h # g
      BY <3>2, <2>4, <1>5
    <3>3. QED
      BY <3>1, <3>2
  <2>5. QED
    BY <2>1, <2>2, <2>3, <2>4 DEF HostInv, NoChildForgotten
<1>14. QED
  BY <1>9, <1>10, <1>11, <1>12, <1>13 DEF HostInv

\* The task that brings a child up.
LEMMA BringKeeps ==
  ASSUME HostInv, NEW g \in Starts, Bring(g)
  PROVE  HostInv'
<1>t. TypeOK /\ g \in Begun
  BY DEF HostInv, Bring, Spawn, Failed, Handshake, Probe, Dismissed, At
<1>1. CASE Spawn(g)
  <2>1. Goto(g, "handshake") /\ "handshake" \in Places /\ Task /\ Quiet
    BY <1>1 DEF Spawn, Places
  <2>2. child' = [child EXCEPT ![g] = "up"]
    BY <1>1 DEF Spawn
  <2>3. child' \in [Starts -> {"none", "up", "leaving", "gone"}]
        /\ \A h \in Starts : h # g => child'[h] = child[h]
    BY <2>2, <1>t DEF TypeOK
  <2>4. QED
    BY <2>1, <2>3, <1>t, MoveKeeps
<1>2. CASE Failed(g)
  <2>1. start[g].at \notin {"handshake", "probe"} /\ Task /\ "done" \in Places
    BY <1>2 DEF Failed, At, Places
  <2>2. CASE Land(g, "failed", 0, "done")
    BY <2>1, <2>2, <1>t, LandKeeps
  <2>3. CASE Goto(g, "done") /\ Quiet /\ UNCHANGED child
    BY <2>1, <2>3, <1>t, MoveKeeps DEF TypeOK
  <2>4. QED
    BY <1>2, <2>2, <2>3 DEF Failed
<1>3. CASE Handshake(g)
  <2>1. Task /\ Quiet /\ {"probe", "refused"} \subseteq Places
    BY <1>3 DEF Handshake, Places
  <2>2. CASE Goto(g, "probe") /\ UNCHANGED child
    BY <2>1, <2>2, <1>t, MoveKeeps DEF TypeOK
  <2>3. CASE Goto(g, "refused") /\ child' = Told(child, {g})
    BY <2>1, <2>3, <1>t, ToldFacts, MoveKeeps
  <2>4. QED
    BY <1>3, <2>2, <2>3 DEF Handshake
<1>4. CASE Probe(g)
  <2>1. Task /\ {"watch", "surplus"} \subseteq Places
    BY <1>4 DEF Probe, Places
  <2>2. CASE Land(g, "ready", g, "watch")
    BY <2>1, <2>2, <1>t, LandKeeps
  <2>3. CASE Goto(g, "surplus") /\ child' = Told(child, {g}) /\ Quiet
    BY <2>1, <2>3, <1>t, ToldFacts, MoveKeeps
  <2>4. QED
    BY <1>4, <2>2, <2>3 DEF Probe
<1>5. CASE Dismissed(g)
  BY <1>5, <1>t, MoveKeeps DEF Dismissed, At, Places, TypeOK
<1>6. QED
  BY <1>1, <1>2, <1>3, <1>4, <1>5 DEF Bring

\* The task that watches one.
LEMMA WatchKeeps ==
  ASSUME HostInv, NEW g \in Starts, Watch(g)
  PROVE  HostInv'
<1>t. TypeOK /\ g \in Begun
  BY DEF HostInv, Watch, Unwatch, Stalled, Ended, Waited, Respawn, At
<1>1. CASE Unwatch(g)
  <2>1. child[g] = "up" => start[g].at \notin {"handshake", "probe"}
    BY <1>1 DEF Unwatch, At
  <2>2. Goto(g, "done") /\ Quiet /\ UNCHANGED child /\ Task /\ "done" \in Places
    BY <1>1 DEF Unwatch, Places
  <2>3. QED
    BY <2>1, <2>2, <1>t, MoveKeeps DEF TypeOK
<1>2. CASE Stalled(g)
  <2>1. Goto(g, "stalled") /\ child' = Told(child, {g}) /\ Quiet /\ Task /\ "stalled" \in Places
    BY <1>2 DEF Stalled, Places
  <2>2. QED
    BY <2>1, <1>t, ToldFacts, MoveKeeps
<1>3. CASE Ended(g)
  <2> DEFINE e == start[g].ext
  <2>1. child[g] = "gone" /\ child' = child /\ Task /\ {"done", "delay"} \subseteq Places
        /\ start[g].at \notin {"handshake", "probe"} /\ ~closed /\ e \in Exts
        /\ cancelled' = cancelled /\ starting' = starting
    BY <1>3, <1>t, StartIs DEF Ended, At, Places, Fired
  <2>2. CASE ~Mine(g)
    BY <1>3, <1>t, <2>1, <2>2, MoveKeeps DEF Ended, Quiet, rows, TypeOK
  <2>3. CASE Mine(g)
    <3>1. row' = [row EXCEPT ![e] = Crashed(g)] /\ Announce(row') /\ row[e] # None /\ row[e].gen = g
      BY <1>3, <2>3 DEF Ended, Mine
    <3>2. PICK at \in {"done", "delay"} : Goto(g, at)
      BY <1>3, <2>3 DEF Ended
    <3>3. Crashed(g) \in Row /\ Crashed(g).child = 0
      BY <1>t, <2>1, <3>1, RowIs, EmptiedRow DEF Crashed
    <3>4. /\ row' \in [Exts -> Row \cup {None}] /\ row'[e] = Crashed(g) /\ row'[e] # None
          /\ \A f \in Exts : f # e => row'[f] = row[f]
      BY <3>1, <3>3, <1>t, <2>1, NoneAssumption DEF TypeOK
    <3>5. TypeOK'
      <4>1. registry' \in [Exts -> 0 .. MaxStarts]
        BY <3>1, <3>4, <1>t, AnnounceFacts
      <4>2. start' \in [Starts -> StartRecord \cup {None}]
        BY <3>2, <1>t, <2>1, GotoFacts
      <4>3. QED
        BY <4>1, <4>2, <3>4, <2>1, <1>t DEF TypeOK, Task
    <3>6. Begun' = Begun /\ \A h \in Starts : h # g => start'[h] = start[h]
      BY <3>2, <1>t, <2>1, GotoFacts
    <3>7. BegunInv' /\ ChildInv'
      BY <3>6, <2>1 DEF HostInv, BegunInv, ChildInv
    <3>8. RowInv' /\ HaltInv'
      BY <3>3, <3>4, <2>1 DEF HostInv, RowInv, HaltInv, SettledRow, Task
    <3>9. NoChildForgotten'
      <4> SUFFICES ASSUME NEW h \in Starts, child'[h] = "up"
                   PROVE  \/ \E f \in Exts : row'[f] # None /\ row'[f].child = h
                          \/ start'[h].at \in {"handshake", "probe"}
                          \/ h \in halting' \/ h \in buried'
        BY DEF NoChildForgotten
      <4>1. child[h] = "up" /\ h # g /\ start'[h] = start[h] /\ halting' = halting /\ buried' = buried
        BY <2>1, <3>6 DEF Task
      <4>2. ASSUME NEW f \in Exts, row[f] # None, row[f].child = h
            PROVE  row'[f] = row[f]
        <5>1. row[e].child # h
          BY <3>1, <4>1, <2>1, HostAssumption DEF HostInv, RowInv, Starts
        <5>2. QED
          BY <5>1, <4>2, <3>4
      <4>3. QED
        BY <4>1, <4>2 DEF HostInv, NoChildForgotten
    <3>10. QED
      BY <3>5, <3>7, <3>8, <3>9 DEF HostInv
  <2>4. QED
    BY <2>2, <2>3
<1>4. CASE Waited(g)
  <2>1. Goto(g, "respawn") /\ Quiet /\ UNCHANGED child /\ Task /\ "respawn" \in Places
        /\ start[g].at \notin {"handshake", "probe"}
    BY <1>4 DEF Waited, At, Places
  <2>2. QED
    BY <2>1, <1>t, MoveKeeps DEF TypeOK
<1>5. CASE Respawn(g)
  <2> DEFINE e == start[g].ext
             others == [start EXCEPT ![g].at = "done"]
  <2>1. start[g] \in StartRecord /\ e \in Exts /\ start[g].version \in Versions
    BY <1>t, StartIs
  <2>2. others[g] \in StartRecord /\ others[g] # None /\ others[g].at = "done"
        /\ \A h \in Starts : h # g => others[h] = start[h]
    <3>1. [start[g] EXCEPT !.at = "done"] \in StartRecord
      BY <2>1 DEF StartRecord, Places
    <3>2. QED
      BY <1>t, <2>1, <3>1, NoneAssumption DEF TypeOK, StartRecord
  <2>3. others \in [Starts -> StartRecord \cup {None}]
        /\ \A h \in Starts : others[h] # None <=> start[h] # None
    BY <1>t, <2>2 DEF TypeOK, Begun
  <2>4. Register(e, start[g].version, TRUE, others)
    BY <1>5 DEF Respawn
  <2> HIDE DEF e, others
  <2>5. /\ start' \in [Starts -> StartRecord \cup {None}]
        /\ starting' \in [Exts -> 0 .. MaxStarts]
        /\ BegunInv' /\ Begun \subseteq Begun'
        /\ \A h \in Begun : start'[h] = others[h]
    BY <1>t, <2>1, <2>3, <2>4, RegisterFacts DEF HostInv
  <2>6. row' = row /\ registry' = registry /\ child' = child /\ Task /\ cancelled' \subseteq Starts
        /\ start[g].at = "respawn"
    BY <1>5, <1>t DEF Respawn, At, TypeOK
  <2>7. TypeOK'
    BY <1>t, <2>5, <2>6 DEF TypeOK, Task
  <2>8. ChildInv' /\ RowInv' /\ HaltInv'
    BY <2>5, <2>6 DEF HostInv, ChildInv, RowInv, HaltInv, SettledRow, Task
  <2>9. NoChildForgotten'
    <3> SUFFICES ASSUME NEW h \in Starts, child'[h] = "up"
                 PROVE  \/ \E f \in Exts : row'[f] # None /\ row'[f].child = h
                        \/ start'[h].at \in {"handshake", "probe"}
                        \/ h \in halting' \/ h \in buried'
      BY DEF NoChildForgotten
    <3>1. child[h] = "up" /\ h \in Begun /\ halting' = halting /\ buried' = buried
      BY <2>6 DEF HostInv, ChildInv, Task
    <3>2. start[h].at \in {"handshake", "probe"} => start'[h] = start[h]
      BY <3>1, <2>2, <2>5, <2>6
    <3>3. QED
      BY <3>1, <3>2, <2>6 DEF HostInv, NoChildForgotten
  <2>10. QED
    BY <2>5, <2>7, <2>8, <2>9 DEF HostInv
<1>6. QED
  BY <1>1, <1>2, <1>3, <1>4, <1>5 DEF Watch

\* The row that settle writes runs and offers nothing.
LEMMA OffRow == Off \in Row /\ Off.child = 0 /\ SettledRow(Off)
BY HostAssumption DEF Off, Row, SettledRow

\* Where a reconcile is, it knows its extension and what that is to be.
LEMMA SweepIs ==
  ASSUME TypeOK, NEW s \in Sweeps, NEW at, SweepAt(s, at)
  PROVE  sweep[s] \in Sweep /\ sweep[s].ext \in Exts
         /\ sweep[s].want \in {"gone", "off"} \cup Versions
BY DEF TypeOK, SweepAt, Sweep

\* A reconcile that moves on keeps its shape.
LEMMA SweepMoves ==
  ASSUME TypeOK, NEW s \in Sweeps, NEW old, SweepAt(s, old),
         SweepEnds(s) \/ \E at \in SweepPlaces : SweepTo(s, at)
  PROVE  sweep' \in [Sweeps -> Sweep \cup {None}]
<1>1. sweep[s] \in Sweep
  BY SweepIs
<1>2. ASSUME NEW at \in SweepPlaces
      PROVE  [sweep[s] EXCEPT !.at = at] \in Sweep
  BY <1>1 DEF Sweep
<1>3. QED
  BY <1>2 DEF TypeOK, SweepEnds, SweepTo

\* A reconcile that changes one row, tells what the row held to leave or remembers
\* that it wrote over it, and starts at most.
LEMMA RowKeeps ==
  ASSUME HostInv, NEW e \in Exts, NEW new \in Row \cup {None},
         row' = [row EXCEPT ![e] = new],
         new # None => new.child \in {0, new.gen},
         closed => SettledRow(new),
         child' \in [Starts -> {"none", "up", "leaving", "gone"}],
         \A h \in Starts : /\ child'[h] = "up" => child[h] = "up"
                           /\ child'[h] # "none" => child[h] # "none"
                           /\ child'[h] = "up" /\ h \in Running(e)
                                => h \in buried' \/ (new # None /\ new.child = h),
         start' \in [Starts -> StartRecord \cup {None}],
         starting' \in [Exts -> 0 .. MaxStarts],
         BegunInv', Begun \subseteq Begun', \A h \in Begun : start'[h] = start[h],
         registry' \in [Exts -> 0 .. MaxStarts],
         sweep' \in [Sweeps -> Sweep \cup {None}],
         cancelled' \subseteq Starts, buried' \subseteq Starts, buried \subseteq buried',
         Sweeping
  PROVE  HostInv'
<1>t. TypeOK
  BY DEF HostInv
<1>1. /\ row' \in [Exts -> Row \cup {None}] /\ row'[e] = new
      /\ \A f \in Exts : f # e => row'[f] = row[f]
  BY <1>t DEF TypeOK
<1>2. TypeOK'
  BY <1>t, <1>1 DEF TypeOK, Sweeping
<1>3. ChildInv' /\ RowInv'
  BY <1>1 DEF HostInv, ChildInv, RowInv
<1>4. HaltInv'
  BY <1>1 DEF HostInv, HaltInv, SettledRow, Sweeping
<1>5. NoChildForgotten'
  <2> SUFFICES ASSUME NEW h \in Starts, child'[h] = "up"
               PROVE  \/ \E f \in Exts : row'[f] # None /\ row'[f].child = h
                      \/ start'[h].at \in {"handshake", "probe"}
                      \/ h \in halting' \/ h \in buried'
    BY DEF NoChildForgotten
  <2>1. child[h] = "up" /\ h \in Begun
    BY DEF HostInv, ChildInv
  <2>2. ASSUME NEW f \in Exts, row[f] # None, row[f].child = h
        PROVE  (row'[f] # None /\ row'[f].child = h) \/ h \in buried'
    <3>1. CASE f = e
      <4>1. h \in Running(e)
        BY <2>2, <3>1 DEF Running
      <4>2. QED
        BY <3>1, <4>1, <1>1
    <3>2. CASE f # e
      BY <2>2, <3>2, <1>1
    <3>3. QED
      BY <3>1, <3>2
  <2>3. start'[h] = start[h] /\ halting' = halting
    BY <2>1 DEF Sweeping
  <2>4. QED
    BY <2>1, <2>2, <2>3 DEF HostInv, NoChildForgotten
<1>6. QED
  BY <1>2, <1>3, <1>4, <1>5 DEF HostInv

\* A reconcile, one statement after another.
LEMMA ReconcileKeeps ==
  ASSUME HostInv, NEW s \in Sweeps, Reconcile(s)
  PROVE  HostInv'
<1>t. TypeOK
  BY DEF HostInv
<1>k. ASSUME RowsStay, Sweeping, sweep' \in [Sweeps -> Sweep \cup {None}]
      PROVE  HostInv'
  BY <1>t, <1>k DEF HostInv, TypeOK, BegunInv, Begun, ChildInv, RowInv, HaltInv, SettledRow,
                    NoChildForgotten, RowsStay, Sweeping, rows
<1>1. ASSUME NEW e \in Exts, Enter(s, e)
      PROVE  HostInv'
  <2>1. [ext |-> e, want |-> world[e], at |-> "look"] \in Sweep
    BY <1>t DEF TypeOK, Sweep, SweepPlaces
  <2>2. sweep' \in [Sweeps -> Sweep \cup {None}]
    BY <1>1, <2>1, <1>t DEF Enter, TypeOK
  <2>3. QED
    BY <1>1, <2>2, <1>k DEF Enter
<1>2. CASE Look(s)
  <2>1. SweepAt(s, "look") /\ (SweepEnds(s) \/ \E at \in SweepPlaces : SweepTo(s, at))
    BY <1>2 DEF Look, SweepPlaces
  <2>2. QED
    BY <1>2, <2>1, <1>t, <1>k, SweepMoves DEF Look
<1>3. CASE StopRunning(s)
  <2> DEFINE e == sweep[s].ext
  <2>1. SweepAt(s, "stop") /\ \E at \in SweepPlaces : SweepTo(s, at)
    BY <1>3 DEF StopRunning, SweepPlaces
  <2>2. e \in Exts /\ sweep' \in [Sweeps -> Sweep \cup {None}]
    BY <2>1, <1>t, SweepIs, SweepMoves
  <2>3. /\ row' = [row EXCEPT ![e] = Emptied(e)] /\ child' = Told(child, Running(e))
        /\ cancelled' \subseteq Starts /\ starting' = [starting EXCEPT ![e] = 0]
        /\ start' = start /\ registry' = registry /\ buried' = buried /\ Sweeping
    BY <1>3, <1>t DEF StopRunning, TypeOK
  <2> HIDE DEF e
  <2>4. /\ Emptied(e) \in Row \cup {None}
        /\ Emptied(e) # None => Emptied(e).child = 0
        /\ closed => SettledRow(Emptied(e))
    <3>1. CASE row[e] = None
      BY <3>1 DEF Emptied, SettledRow
    <3>2. CASE row[e] # None
      <4>1. row[e] \in Row /\ Emptied(e) = [row[e] EXCEPT !.child = 0, !.offers = FALSE]
        BY <3>2, <2>2, <1>t, RowIs DEF Emptied
      <4>2. Emptied(e) \in Row /\ Emptied(e).child = 0
        BY <4>1, EmptiedRow
      <4>3. Emptied(e).gen = row[e].gen /\ Emptied(e).offers = FALSE
        BY <4>1 DEF Row
      <4>4. closed => row[e].gen = 0
        BY <3>2, <2>2 DEF HostInv, HaltInv, SettledRow
      <4>5. QED
        BY <4>2, <4>3, <4>4 DEF SettledRow
    <3>3. QED
      BY <3>1, <3>2
  <2>5. /\ child' \in [Starts -> {"none", "up", "leaving", "gone"}]
        /\ \A h \in Starts : /\ child'[h] = "up" => child[h] = "up" /\ h \notin Running(e)
                             /\ child'[h] # "none" => child[h] # "none"
    BY <2>3, <1>t, ToldFacts
  <2>6. starting' \in [Exts -> 0 .. MaxStarts]
    <3>1. 0 \in 0 .. MaxStarts /\ starting \in [Exts -> 0 .. MaxStarts]
      BY <1>t, HostAssumption DEF TypeOK
    <3>2. QED
      BY <2>3, <3>1
  <2>8. BegunInv' /\ Begun' = Begun
    BY <2>3 DEF HostInv, BegunInv, Begun
  <2>7. QED
    BY <2>2, <2>3, <2>4, <2>5, <2>6, <2>8, <1>t, RowKeeps DEF TypeOK
<1>4. CASE WriteRow(s)
  <2> DEFINE e == sweep[s].ext
             new == Unwanted[sweep[s].want]
  <2>1. SweepAt(s, "write") /\ SweepEnds(s)
    BY <1>4 DEF WriteRow
  <2>2. e \in Exts /\ sweep' \in [Sweeps -> Sweep \cup {None}]
    BY <2>1, <1>t, SweepIs, SweepMoves
  <2>3. /\ row' = [row EXCEPT ![e] = new] /\ buried' = buried \cup (Running(e) \cap Starts)
        /\ sweep[s].want \in {"gone", "off"} /\ Announce(row')
        /\ UNCHANGED <<starting, start, cancelled, child>> /\ Sweeping
    BY <1>4 DEF WriteRow
  <2>4. new \in {None, Off} /\ SettledRow(new)
    BY <2>3, OffRow DEF Unwanted, SettledRow
  <2> HIDE DEF e, new
  <2>5. new \in Row \cup {None} /\ (new # None => new.child = 0)
    BY <2>4, OffRow
  <2>6. row' \in [Exts -> Row \cup {None}]
    BY <2>3, <2>5, <1>t DEF TypeOK
  <2>7. registry' \in [Exts -> 0 .. MaxStarts]
    BY <2>3, <2>6, <1>t, AnnounceFacts
  <2>8. /\ start' \in [Starts -> StartRecord \cup {None}] /\ starting' \in [Exts -> 0 .. MaxStarts]
        /\ child' \in [Starts -> {"none", "up", "leaving", "gone"}] /\ cancelled' \subseteq Starts
        /\ buried \subseteq Starts /\ Begun' = Begun /\ BegunInv'
    BY <2>3, <1>t DEF HostInv, TypeOK, BegunInv, Begun
  <2>9. QED
    BY <2>2, <2>3, <2>4, <2>5, <2>7, <2>8, RowKeeps
<1>5. CASE Renew(s)
  <2> DEFINE e == sweep[s].ext
  <2>1. SweepAt(s, "write") /\ SweepEnds(s)
    BY <1>5 DEF Renew
  <2>2. e \in Exts /\ sweep' \in [Sweeps -> Sweep \cup {None}]
    BY <2>1, <1>t, SweepIs, SweepMoves
  <2>3. /\ Register(e, sweep[s].want, FALSE, start) /\ sweep[s].want \in Versions
        /\ cancelled' \subseteq Starts /\ Announce(row)
        /\ row' = row /\ child' = child /\ buried' = buried /\ Sweeping
    BY <1>5, <1>t DEF Renew, TypeOK
  <2> HIDE DEF e
  <2>4. start \in [Starts -> StartRecord \cup {None}] /\ FALSE \in BOOLEAN
    BY <1>t DEF TypeOK
  <2>5. /\ start' \in [Starts -> StartRecord \cup {None}]
        /\ starting' \in [Exts -> 0 .. MaxStarts]
        /\ BegunInv' /\ Begun \subseteq Begun'
        /\ \A h \in Begun : start'[h] = start[h]
    BY <2>2, <2>3, <2>4, <1>t, RegisterFacts DEF HostInv
  <2>6. row' \in [Exts -> Row \cup {None}] /\ Announce(row')
    BY <2>3, <1>t DEF TypeOK, Announce, Listed
  <2>7. registry' \in [Exts -> 0 .. MaxStarts]
    BY <2>6, <1>t, AnnounceFacts
  <2>8. TypeOK'
    BY <1>t, <2>2, <2>3, <2>5, <2>7 DEF TypeOK, Sweeping
  <2>9. ChildInv' /\ RowInv' /\ HaltInv'
    BY <2>3, <2>5 DEF HostInv, ChildInv, RowInv, HaltInv, SettledRow, Sweeping
  <2>10. NoChildForgotten'
    <3> SUFFICES ASSUME NEW h \in Starts, child[h] = "up"
                 PROVE  \/ \E f \in Exts : row[f] # None /\ row[f].child = h
                        \/ start'[h].at \in {"handshake", "probe"}
                        \/ h \in halting \/ h \in buried
      BY <2>3 DEF NoChildForgotten, Sweeping
    <3>1. start'[h] = start[h]
      BY <2>5 DEF HostInv, ChildInv
    <3>2. QED
      BY <3>1 DEF HostInv, NoChildForgotten
  <2>11. QED
    BY <2>5, <2>8, <2>9, <2>10 DEF HostInv
<1>6. QED
  BY <1>1, <1>2, <1>3, <1>4, <1>5 DEF Reconcile

\* A child crashes, hangs, leaves, or is told to by the stop: none comes up, and
\* none is told of by the stop without being told.
LEMMA ChildKeeps ==
  ASSUME HostInv, NEW g \in Starts, Crash(g) \/ Hang(g) \/ Leave(g) \/ Halt(g)
  PROVE  HostInv'
<1>t. TypeOK
  BY DEF HostInv
<1>1. /\ Still
      /\ child' \in [Starts -> {"none", "up", "leaving", "gone"}]
      /\ \A h \in Starts : /\ child'[h] = "up" => child[h] = "up" /\ (h \in halting => h \in halting')
                           /\ child'[h] # "none" => child[h] # "none"
      /\ halting' \subseteq halting /\ hung' \subseteq Starts /\ faults' \in 0 .. MaxFaults
  <2>1. CASE Crash(g)
    BY <2>1, <1>t, HostAssumption DEF Crash, TypeOK
  <2>2. CASE Hang(g)
    BY <2>2, <1>t, HostAssumption DEF Hang, TypeOK
  <2>3. CASE Leave(g)
    BY <2>3, <1>t DEF Leave, TypeOK
  <2>4. CASE Halt(g)
    <3>1. child' = Told(child, {g}) /\ halting' = halting \ {g} /\ Still /\ UNCHANGED <<hung, faults>>
      BY <2>4 DEF Halt
    <3>2. QED
      BY <3>1, <1>t, ToldFacts DEF TypeOK
  <2>5. QED
    BY <2>1, <2>2, <2>3, <2>4
<1>2. TypeOK' /\ BegunInv' /\ ChildInv' /\ RowInv'
  BY <1>1, <1>t DEF HostInv, TypeOK, BegunInv, Begun, ChildInv, RowInv, Still, rows
<1>3. HaltInv'
  BY <1>1 DEF HostInv, HaltInv, SettledRow, Still, rows
<1>4. NoChildForgotten'
  BY <1>1 DEF HostInv, NoChildForgotten, Still, rows
<1>5. QED
  BY <1>2, <1>3, <1>4 DEF HostInv

\* A stop takes every child a row holds into its own hands.
LEMMA StopKeeps ==
  ASSUME HostInv, Stop
  PROVE  HostInv'
<1>t. TypeOK /\ ~closed /\ halting = {}
  BY DEF HostInv, HaltInv, SettledRow, Stop
<1>1. /\ closed' = TRUE /\ start' = start /\ child' = child
      /\ row' = [e \in Exts |-> None] /\ starting' = [e \in Exts |-> 0]
      /\ UNCHANGED <<world, hung, registry, edits, faults, sweep, buried>>
  BY DEF Stop
<1>2. TypeOK'
  <2>1. halting' \subseteq Starts /\ cancelled' \subseteq Starts
    <3> DEFINE held == UNION {Running(e) : e \in Exts}
               tasks == UNION {Taken(e) : e \in Exts}
    <3>1. halting' = held \cap Starts /\ cancelled' = cancelled \cup (tasks \cap Starts)
      BY DEF Stop
    <3>2. cancelled \subseteq Starts
      BY <1>t DEF TypeOK
    <3> HIDE DEF held, tasks
    <3>3. QED
      BY <3>1, <3>2
  <2>2. QED
    BY <1>t, <1>1, <2>1, HostAssumption DEF TypeOK
<1>3. BegunInv' /\ ChildInv' /\ RowInv' /\ HaltInv'
  BY <1>1 DEF HostInv, BegunInv, Begun, ChildInv, RowInv, HaltInv, SettledRow
<1>4. NoChildForgotten'
  <2> SUFFICES ASSUME NEW h \in Starts, child'[h] = "up"
               PROVE  start'[h].at \in {"handshake", "probe"} \/ h \in halting' \/ h \in buried'
    BY DEF NoChildForgotten
  <2>1. ASSUME NEW f \in Exts, row[f] # None, row[f].child = h
        PROVE  h \in halting'
    <3>1. h \in Running(f)
      BY <2>1 DEF Running
    <3> DEFINE held == UNION {Running(e) : e \in Exts}
    <3>2. h \in held /\ halting' = held \cap Starts
      BY <3>1 DEF Stop
    <3> HIDE DEF held
    <3>3. QED
      BY <3>2
  <2>2. QED
    BY <1>t, <1>1, <2>1 DEF HostInv, NoChildForgotten
<1>5. QED
  BY <1>2, <1>3, <1>4 DEF HostInv

\* Every step keeps the invariant.
LEMMA HostNext == HostInv /\ [Next]_vars => HostInv'
<1> SUFFICES ASSUME HostInv, [Next]_vars PROVE HostInv'
  OBVIOUS
<1>1. ASSUME NEW e \in Exts, NEW w \in {"gone", "off"} \cup Versions, Edit(e, w)
      PROVE  HostInv'
  <2>1. TypeOK'
    BY <1>1, HostAssumption DEF Edit, HostInv, TypeOK, rows
  <2>2. QED
    BY <1>1, <2>1 DEF Edit, HostInv, BegunInv, Begun, ChildInv, RowInv, HaltInv, SettledRow,
                      NoChildForgotten, rows
<1>2. CASE UNCHANGED vars
  BY <1>2 DEF vars, rows, HostInv, TypeOK, BegunInv, Begun, ChildInv, RowInv, HaltInv, SettledRow,
              NoChildForgotten
<1>3. QED
  BY <1>1, <1>2, ReconcileKeeps, BringKeeps, WatchKeeps, ChildKeeps, StopKeeps DEF Next

-----------------------------------------------------------------------------
(* The theorems. *)

\* The inductive invariant holds of every run of the host.
THEOREM HostInvariant == Spec => []HostInv
BY HostInit, HostNext, PTL DEF Spec

\* Every variable keeps its shape.
THEOREM HostIsTyped == Spec => []TypeOK
<1>1. HostInv => TypeOK
  BY DEF HostInv
<1>2. QED
  BY <1>1, HostInvariant, PTL

\* However many starts overtake one another, every child that runs is held by a
\* row, in the hands of the task that brings it up, or about to be told to leave.
THEOREM NoChildIsForgotten == Spec => []NoChildForgotten
<1>1. HostInv => NoChildForgotten
  BY DEF HostInv
<1>2. QED
  BY <1>1, HostInvariant, PTL

\* What the run StopReachesAll rests on, without any fairness: after a stop no
\* start lands, the one a watcher was about to make included.  The only row is one
\* of a reconcile that had looked before the stop, and it runs and offers nothing.
THEOREM NoStartLandsAfterStop == Spec => [](closed => \A e \in Exts : SettledRow(row[e]))
<1>1. HostInv => (closed => \A e \in Exts : SettledRow(row[e]))
  BY DEF HostInv, HaltInv, SettledRow
<1>2. QED
  BY <1>1, HostInvariant, PTL
=============================================================================
