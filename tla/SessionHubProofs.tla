-------------------------- MODULE SessionHubProofs --------------------------
(***************************************************************************)
(* What holds of the session hub for any number of sessions, connections,  *)
(* messages and turn tasks.                                                *)
(***************************************************************************)
EXTENDS SessionHub, SequenceTheorems, FunctionTheorems, FiniteSetTheorems, TLAPS

-----------------------------------------------------------------------------
(* Shapes of the values the actions write *)

\* A working handler has its session, and stays a handler as it moves on.
LEMMA HandlerUpdate ==
  ASSUME TypeOK, NEW c \in Conns
  PROVE  /\ conn[c].at \in Working => conn[c].key \in Keys
         /\ conn[c].msg \in Ids \cup {None} /\ conn[c].claim \in Keys \cup {None}
         /\ \A at \in Working, k \in Keys, m \in Ids \cup {None} :
              Go(c, at, k, m) \in [Conns -> Handler]
         /\ Ready(c) \in [Conns -> Handler]
         /\ conn[c].at \in Working => \A at \in Working :
              [conn EXCEPT ![c].at = at] \in [Conns -> Handler]
         /\ [conn EXCEPT ![c].closing = TRUE] \in [Conns -> Handler]
  <1>1. conn \in [Conns -> Handler] /\ conn[c] \in Handler
    BY DEF TypeOK
  <1>2. conn[c].at \in Working => conn[c].key \in Keys
    BY <1>1 DEF Handler, Resting, Working
  <1>3. conn[c].msg \in Ids \cup {None} /\ conn[c].claim \in Keys \cup {None}
    BY <1>1 DEF Handler
  <1>4. \A at \in Working, k \in Keys, m \in Ids \cup {None} :
          Go(c, at, k, m) \in [Conns -> Handler]
    BY <1>1 DEF Go, Handler
  <1>5. Ready(c) \in [Conns -> Handler]
    BY <1>1 DEF Ready, Go, Handler, Resting
  <1>6. conn[c].at \in Working => \A at \in Working :
          [conn EXCEPT ![c].at = at] \in [Conns -> Handler]
    BY <1>1 DEF Handler, Resting, Working
  <1>7. [conn EXCEPT ![c].closing = TRUE] \in [Conns -> Handler]
    BY <1>1 DEF Handler
  <1> QED BY <1>2, <1>3, <1>4, <1>5, <1>6, <1>7

\* A turn's task has its session, and stays a task as it moves on or ends.
LEMMA TaskUpdate ==
  ASSUME TypeOK, NEW s \in Slots, task[s].at # "idle"
  PROVE  /\ task[s].key \in Keys
         /\ \A at \in {"loop", "settle"} :
              [task EXCEPT ![s].at = at] \in [Slots -> TurnTask]
         /\ [task EXCEPT ![s] = NoTask] \in [Slots -> TurnTask]
  <1>1. /\ task \in [Slots -> TurnTask]
        /\ task[s] \in [at : {"opening", "loop", "settle"}, key : Keys,
                       msg : Ids \cup {None}, from : Conns \cup {None},
                       cancelled : BOOLEAN]
    BY DEF TypeOK, TurnTask
  <1>2. \A at \in {"loop", "settle"} :
          /\ [task[s] EXCEPT !.at = at] \in TurnTask
          /\ [task EXCEPT ![s].at = at] = [task EXCEPT ![s] = [task[s] EXCEPT !.at = at]]
    BY <1>1 DEF TurnTask
  <1>3. NoTask \in TurnTask
    BY DEF TurnTask, NoTask
  <1> QED BY <1>1, <1>2, <1>3

\* Cancelling a turn leaves it a turn.
LEMMA TaskCancelled ==
  ASSUME NEW t \in TurnTask, NEW b \in BOOLEAN
  PROVE  [t EXCEPT !.cancelled = b] \in TurnTask /\ t.cancelled \in BOOLEAN
  BY DEF TurnTask

\* A summary is of a session, and stays a summary at every stage.
LEMMA SummaryUpdate ==
  ASSUME TypeOK, NEW n \in Keys
  PROVE  /\ summary[n].at # "idle" => summary[n].of \in Keys
         /\ [summary EXCEPT ![n] = NoSummary] \in [Keys -> Summary]
         /\ \A k \in Keys, at \in {"claimed", "asking", "moving"}, cs \in SUBSET Conns :
              [summary EXCEPT ![n] = [at |-> at, of |-> k, clients |-> cs]]
                \in [Keys -> Summary]
  BY DEF TypeOK, Summary, NoSummary

\* A turn added at either end of a queue, or to the steering, leaves a queue.
LEMMA QueueUpdate ==
  ASSUME TypeOK, NEW k \in Keys, NEW turn \in Turn
  PROVE  /\ [queue EXCEPT ![k] = Append(@, turn)] \in [Keys -> Seq(Turn)]
         /\ [queue EXCEPT ![k] = <<turn>> \o @] \in [Keys -> Seq(Turn)]
         /\ [steering EXCEPT ![k] = Append(@, turn)] \in [Keys -> Seq(Turn)]
  BY DEF TypeOK

\* Acknowledging more messages leaves sets of messages.
LEMMA AckedUpdate ==
  ASSUME TypeOK, NEW k \in Keys, NEW ids \in SUBSET Ids
  PROVE  [acked EXCEPT ![k] = @ \cup ids] \in [Keys -> SUBSET Ids]
  BY DEF TypeOK

\* The placeholder for no session is not one.
LEMMA NoneIsNoSession == None \notin Keys
  BY HubAssumption

\* What the queue is given is a turn.
LEMMA TurnType ==
  ASSUME NEW m \in Ids \cup {None}, NEW c \in Conns \cup {None}, NEW redo \in BOOLEAN
  PROVE  [msg |-> m, from |-> c, redo |-> redo] \in Turn
  BY DEF Turn

\* The messages of a queue are messages.
LEMMA MessagesType ==
  ASSUME NEW turns \in Seq(Turn)
  PROVE  Messages(turns) \subseteq Ids \cup {None}
  <1>1. \A i \in 1..Len(turns) : turns[i] \in Turn
    OBVIOUS
  <1>2. \A turn \in Turn : turn.msg \in Ids \cup {None}
    BY DEF Turn
  <1> QED BY <1>1, <1>2 DEF Messages

\* A session without a state in the hub keeps nothing.
LEMMA DormantKeeps ==
  ASSUME TypeOK, live \subseteq live',
         \A k \in Keys \ live' :
           /\ queue'[k] = queue[k] /\ running'[k] = running[k]
           /\ rewinding'[k] = rewinding[k] /\ acked'[k] = acked[k]
  PROVE  Dormant'
  BY DEF TypeOK, Dormant, Idle

\* The count of runs stays within its bound.
LEMMA StartedType ==
  ASSUME TypeOK, NEW m \in Ids \cup {None}
  PROVE  Started(m) \in [Ids -> 0..2]
  <1>1. CASE m = None \/ runs[m] = 2
    BY <1>1 DEF TypeOK, Started
  <1>2. CASE ~(m = None \/ runs[m] = 2)
    <2>1. m \in Ids /\ runs[m] \in 0..2 /\ runs[m] + 1 \in 0..2
      BY <1>2 DEF TypeOK
    <2> QED BY <1>2, <2>1 DEF TypeOK, Started
  <1> QED BY <1>1, <1>2

\* A drain leaves every variable it writes with its type, and the sessions the
\* hub does not have as they were.
LEMMA DrainType ==
  ASSUME TypeOK, NEW k \in Keys, Drain(k)
  PROVE  /\ queue' \in [Keys -> Seq(Turn)]
         /\ running' \in [Keys -> Slots \cup {None}]
         /\ opened' \subseteq Keys
         /\ task' \in [Slots -> TurnTask]
         /\ runs' \in [Ids -> 0..2]
         /\ \A j \in Keys \ live : queue'[j] = queue[j] /\ running'[j] = running[j]
  <1>1. CASE ~CanDrain(k)
    BY <1>1 DEF Drain, TypeOK
  <1>2. CASE CanDrain(k)
    <2>1. PICK s \in Slots :
            /\ queue' = [queue EXCEPT ![k] = Tail(@)]
            /\ opened' = opened \cup {k}
            /\ running' = [running EXCEPT ![k] = s]
            /\ task' = [task EXCEPT ![s] =
                 [at |-> "opening", key |-> k, msg |-> Head(queue[k]).msg,
                  from |-> Head(queue[k]).from, cancelled |-> FALSE]]
            /\ runs' = Started(Head(queue[k]).msg)
      BY <1>2 DEF Drain
    <2>2. Head(queue[k]) \in Turn /\ Tail(queue[k]) \in Seq(Turn) /\ k \in live
      BY <1>2 DEF CanDrain, TypeOK
    <2>3. Head(queue[k]).msg \in Ids \cup {None} /\ Head(queue[k]).from \in Conns \cup {None}
      BY <2>2 DEF Turn
    <2>4. task' \in [Slots -> TurnTask]
      BY <2>1, <2>3 DEF TypeOK, TurnTask
    <2>5. queue' \in [Keys -> Seq(Turn)] /\ runs' \in [Ids -> 0..2]
      BY <2>1, <2>2, <2>3, StartedType DEF TypeOK
    <2>6. running' \in [Keys -> Slots \cup {None}] /\ opened' \subseteq Keys
      BY <2>1 DEF TypeOK
    <2>7. \A j \in Keys \ live : queue'[j] = queue[j] /\ running'[j] = running[j]
      BY <2>1, <2>2 DEF TypeOK
    <2> QED BY <2>4, <2>5, <2>6, <2>7
  <1> QED BY <1>1, <1>2

-----------------------------------------------------------------------------
(* Type correctness *)

\* The hub starts with every variable in its type.
LEMMA InitType == Init => TypeOK
  <1> SUFFICES ASSUME Init PROVE TypeOK
    OBVIOUS
  <1>1. NotConnected \in Handler /\ NoTask \in TurnTask /\ NoSummary \in Summary
    BY DEF NotConnected, Handler, Resting, NoTask, TurnTask, Summary
  <1>2. queue \in [Keys -> Seq(Turn)] /\ steering \in [Keys -> Seq(Turn)]
    BY DEF Init
  <1>3. conn \in [Conns -> Handler] /\ task \in [Slots -> TurnTask] /\ summary \in [Keys -> Summary]
    BY <1>1 DEF Init
  <1>4. runs \in [Ids -> 0..2] /\ sentTo \in [Ids -> Keys \cup {None}]
    BY DEF Init
  <1>5. /\ running \in [Keys -> Slots \cup {None}]
        /\ acked \in [Keys -> SUBSET Ids]
        /\ rewinding \in [Keys -> BOOLEAN]
        /\ where \in [Conns -> Keys \cup {None}]
    BY DEF Init
  <1>6. Dormant
    BY DEF Init, Idle, Dormant
  <1> QED BY <1>2, <1>3, <1>4, <1>5, <1>6, HubAssumption DEF Init, TypeOK

\* Every step keeps every type.
LEMMA TypeStep == TypeOK /\ [Next]_vars => TypeOK'
  <1> SUFFICES ASSUME TypeOK, [Next]_vars PROVE TypeOK'
    OBVIOUS
  <1>1. ASSUME NEW c \in Conns, NEW k \in Keys, Connect(c, k) PROVE TypeOK'
    <2>1. conn' \in [Conns -> Handler]
      BY <1>1 DEF Connect, NotConnected, Handler, Resting, TypeOK
    <2>2. where' \in [Conns -> Keys \cup {None}]
      BY <1>1 DEF Connect, TypeOK
    <2>3. live' \subseteq Keys /\ live \subseteq live'
      BY <1>1 DEF Connect, Touch, TypeOK
    <2>4. Dormant'
      BY <1>1, DormantKeeps DEF Connect, Touch, TypeOK
    <2> QED BY <1>1, <2>1, <2>2, <2>3, <2>4 DEF Connect, TypeOK, sessionVars, steerVars, ghostVars
  <1>2. ASSUME NEW c \in Conns, Leave(c) PROVE TypeOK'
    <2>1. conn' \in [Conns -> Handler]
      BY <1>2, HandlerUpdate DEF Leave
    <2>2. where' \in [Conns -> Keys \cup {None}]
      BY <1>2 DEF Leave, TypeOK
    <2>3. Dormant'
      BY <1>2, DormantKeeps DEF Leave, sessionVars, steerVars, ghostVars
    <2> QED BY <1>2, <2>1, <2>2, <2>3 DEF Leave, TypeOK, sessionVars, steerVars, ghostVars
  <1>3. ASSUME NEW c \in Conns, Disconnect(c) PROVE TypeOK'
    <2>1. conn' \in [Conns -> Handler]
      BY <1>3 DEF Disconnect, NotConnected, Handler, Resting, TypeOK
    <2>2. Dormant'
      BY <1>3, DormantKeeps DEF Disconnect, sessionVars, steerVars, ghostVars
    <2> QED BY <1>3, <2>1, <2>2 DEF Disconnect, TypeOK, sessionVars, steerVars, ghostVars
  <1>4. ASSUME NEW c \in Conns, NEW k \in Keys, Switch(c, k) PROVE TypeOK'
    <2>1. where' \in [Conns -> Keys \cup {None}]
      BY <1>4 DEF Switch, TypeOK
    <2>2. live' \subseteq Keys /\ live \subseteq live'
      BY <1>4 DEF Switch, Touch, TypeOK
    <2>3. Dormant'
      BY <1>4, DormantKeeps DEF Switch, Touch, TypeOK
    <2> QED BY <1>4, <2>1, <2>2, <2>3 DEF Switch, TypeOK, sessionVars, steerVars, ghostVars
  <1>5. ASSUME NEW c \in Conns, NEW k \in Keys, NEW m \in Msgs, Submit(c, k, m) PROVE TypeOK'
    <2>1. conn \in [Conns -> Handler] /\ conn[c] \in Handler /\ m \in Ids
      BY DEF TypeOK, Ids
    <2>2. [conn[c] EXCEPT !.at = "check", !.key = k, !.msg = m, !.sent = TRUE] \in Handler
      BY <2>1 DEF Handler, Working
    <2>3. conn' \in [Conns -> Handler]
      BY <1>5, <2>1, <2>2 DEF Submit
    <2>4. sentTo' \in [Ids -> Keys \cup {None}]
      BY <1>5 DEF Submit, TypeOK, Ids
    <2>5. live' \subseteq Keys /\ live \subseteq live'
      BY <1>5 DEF Submit, Touch, TypeOK
    <2>6. Dormant'
      BY <1>5, DormantKeeps DEF Submit, Touch, TypeOK
    <2> QED BY <1>5, <2>1, <2>2, <2>3, <2>4, <2>5, <2>6 DEF Submit, TypeOK, sessionVars, steerVars, ghostVars
  <1>6. ASSUME NEW c \in Conns, Check(c) PROVE TypeOK'
    <2>1. conn[c].key \in Keys /\ [conn EXCEPT ![c].at = "push"] \in [Conns -> Handler]
      BY <1>6, HandlerUpdate DEF Check, Working
    <2>2. rewinding' \in [Keys -> BOOLEAN]
      BY <1>6 DEF Check, BeginRewind, TypeOK
    <2>3. conn \in [Conns -> Handler] /\ conn[c] \in Handler /\ conn[c].at \in Working
      BY <1>6 DEF Check, TypeOK, Working
    <2>4. \A n \in Keys : [conn[c] EXCEPT !.at = "push", !.claim = n] \in Handler
      BY <2>3 DEF Handler, Resting, Working
    <2>5. \A n \in Keys : [conn EXCEPT ![c] = [@ EXCEPT !.at = "push", !.claim = n]] \in [Conns -> Handler]
      BY <2>3, <2>4
    <2>6. conn' \in [Conns -> Handler]
      BY <1>6, <2>1, <2>5 DEF Check, Fresh
    <2>7. \A n \in Keys : [summary EXCEPT ![n] = [at |-> "claimed", of |-> conn[c].key, clients |-> {}]] \in [Keys -> Summary]
      BY <2>1, SummaryUpdate
    <2>8. summary \in [Keys -> Summary] /\ Fresh \subseteq Keys
      BY DEF Fresh, TypeOK
    <2>9. \/ UNCHANGED summary
          \/ \E n \in Fresh : summary' = [summary EXCEPT ![n] = [at |-> "claimed", of |-> conn[c].key, clients |-> {}]]
      BY <1>6 DEF Check
    <2>10. summary' \in [Keys -> Summary]
      BY <2>7, <2>8, <2>9
    <2>11. Dormant'
      BY <1>6, <2>1 DEF Check, BeginRewind, TypeOK, Dormant, Idle
    <2> QED BY <1>6, <2>1, <2>2, <2>3, <2>4, <2>5, <2>6, <2>7, <2>8, <2>9, <2>10, <2>11 DEF Check, TypeOK, sessionVars, steerVars, ghostVars
  <1>7. ASSUME NEW c \in Conns, Push(c) PROVE TypeOK'
    <2>1. conn[c].key \in Keys /\ conn[c].msg \in Ids \cup {None} /\ conn[c].claim \in Keys \cup {None}
      BY <1>7, HandlerUpdate DEF Push, Working
    <2>2. [msg |-> conn[c].msg, from |-> c, redo |-> FALSE] \in Turn
      BY <2>1, TurnType
    <2>3. [queue EXCEPT ![conn[c].key] = Append(@, [msg |-> conn[c].msg, from |-> c, redo |-> FALSE])] \in [Keys -> Seq(Turn)]
      BY <2>1, <2>2, QueueUpdate
    <2>4. queue' \in [Keys -> Seq(Turn)]
      BY <1>7, <2>3 DEF Push, PushTurn, TypeOK
    <2>5. {conn[c].msg} \ {None} \in SUBSET Ids
      BY <2>1
    <2>6. [acked EXCEPT ![conn[c].key] = @ \cup ({conn[c].msg} \ {None})] \in [Keys -> SUBSET Ids]
      BY <2>1, <2>5, AckedUpdate
    <2>7. acked' \in [Keys -> SUBSET Ids] /\ owed' \subseteq Ids
      BY <1>7, <2>5, <2>6 DEF Push, PushTurn, TypeOK
    <2>8. Go(c, "drain", conn[c].key, None) \in [Conns -> Handler] /\ Ready(c) \in [Conns -> Handler]
      BY <2>1, HandlerUpdate DEF Working
    <2>9. conn' \in [Conns -> Handler]
      BY <1>7, <2>8 DEF Push
    <2>10. \A n \in Keys : [summary EXCEPT ![n] = [at |-> "asking", of |-> conn[c].key, clients |-> {}]] \in [Keys -> Summary]
      BY <2>1, SummaryUpdate
    <2>11. summary' \in [Keys -> Summary]
      BY <1>7, <2>1, <2>10 DEF Push, TypeOK
    <2>12. live' \subseteq Keys /\ live \subseteq live'
      BY <1>7, <2>1 DEF Push, Touch, TypeOK
    <2>13. Dormant'
      BY <1>7, <2>1, DormantKeeps DEF Push, Touch, PushTurn, TypeOK
    <2> QED BY <1>7, <2>1, <2>2, <2>3, <2>4, <2>5, <2>6, <2>7, <2>8, <2>9, <2>10, <2>11, <2>12, <2>13 DEF Push, TypeOK, sessionVars, steerVars, ghostVars
  <1>8. ASSUME NEW c \in Conns, DrainStep(c) PROVE TypeOK'
    <2>1. conn[c].key \in Keys
      BY <1>8, HandlerUpdate DEF DrainStep, Working
    <2>2. /\ queue' \in [Keys -> Seq(Turn)]
          /\ running' \in [Keys -> Slots \cup {None}]
          /\ opened' \subseteq Keys
          /\ task' \in [Slots -> TurnTask]
          /\ runs' \in [Ids -> 0..2]
          /\ \A j \in Keys \ live : queue'[j] = queue[j] /\ running'[j] = running[j]
      BY <1>8, <2>1, DrainType DEF DrainStep
    <2>3. conn' \in [Conns -> Handler]
      BY <1>8, HandlerUpdate DEF DrainStep
    <2>4. Dormant'
      BY <1>8, <2>2, DormantKeeps DEF DrainStep
    <2> QED BY <1>8, <2>1, <2>2, <2>3, <2>4 DEF DrainStep, TypeOK, sessionVars, steerVars, ghostVars
  <1>9. ASSUME NEW c \in Conns, NEW k \in Keys, NEW m \in Steers, Steer(c, k, m) PROVE TypeOK'
    <2>1. m \in Ids /\ [msg |-> m, from |-> c, redo |-> FALSE] \in Turn
      BY <1>9, TurnType DEF Steer, Ids
    <2>2. Go(c, "push", k, m) \in [Conns -> Handler]
      BY <2>1, HandlerUpdate DEF Working
    <2>3. conn' \in [Conns -> Handler]
      BY <1>9, <2>2 DEF Steer, TypeOK
    <2>4. [steering EXCEPT ![k] = Append(@, [msg |-> m, from |-> c, redo |-> FALSE])] \in [Keys -> Seq(Turn)]
      BY <2>1, QueueUpdate
    <2>5. steering' \in [Keys -> Seq(Turn)]
      BY <1>9, <2>4 DEF Steer, TypeOK
    <2>6. [acked EXCEPT ![k] = @ \cup {m}] \in [Keys -> SUBSET Ids]
      BY <2>1, AckedUpdate
    <2>7. acked' \in [Keys -> SUBSET Ids] /\ owed' \subseteq Ids
      BY <1>9, <2>1, <2>6 DEF Steer, TypeOK
    <2>8. sentTo' \in [Ids -> Keys \cup {None}]
      BY <1>9, <2>1 DEF Steer, TypeOK
    <2>9. k \notin live => acked' = acked
      BY <1>9 DEF Steer, TypeOK, Dormant, Idle
    <2>10. Dormant'
      BY <1>9, <2>9, DormantKeeps DEF Steer, TypeOK
    <2> QED BY <1>9, <2>1, <2>2, <2>3, <2>4, <2>5, <2>6, <2>7, <2>8, <2>9, <2>10 DEF Steer, TypeOK, sessionVars, steerVars, ghostVars
  <1>10. ASSUME NEW c \in Conns, NEW k \in Keys, Rewind(c, k) PROVE TypeOK'
    <2>1. Go(c, "cut", k, None) \in [Conns -> Handler]
      BY HandlerUpdate DEF Working
    <2>2. conn' \in [Conns -> Handler]
      BY <1>10, <2>1 DEF Rewind, TypeOK
    <2>3. rewinding' \in [Keys -> BOOLEAN]
      BY <1>10 DEF Rewind, BeginRewind, TypeOK
    <2>4. live' \subseteq Keys /\ live \subseteq live'
      BY <1>10 DEF Rewind, Touch, TypeOK
    <2>5. Dormant'
      BY <1>10, DormantKeeps DEF Rewind, Touch, BeginRewind, TypeOK
    <2> QED BY <1>10, <2>1, <2>2, <2>3, <2>4, <2>5 DEF Rewind, TypeOK, sessionVars, steerVars, ghostVars
  <1>11. ASSUME NEW c \in Conns, Cut(c) PROVE TypeOK'
    <2>1. \A next \in {"rerun", "release"} : [conn EXCEPT ![c].at = next] \in [Conns -> Handler]
      BY <1>11, HandlerUpdate DEF Cut, Working
    <2>2. conn' \in [Conns -> Handler]
      BY <1>11, <2>1 DEF Cut
    <2>3. Dormant'
      BY <1>11, DormantKeeps DEF Cut, sessionVars, steerVars, ghostVars
    <2> QED BY <1>11, <2>1, <2>2, <2>3 DEF Cut, TypeOK, sessionVars, steerVars, ghostVars
  <1>12. ASSUME NEW c \in Conns, Rerun(c) PROVE TypeOK'
    <2>1. conn[c].key \in Keys
      BY <1>12, HandlerUpdate DEF Rerun, Working
    <2>2. conn' \in [Conns -> Handler]
      BY <1>12, HandlerUpdate DEF Rerun, Working
    <2>3. rewinding' \in [Keys -> BOOLEAN]
      BY <1>12 DEF Rerun, TypeOK
    <2>4. [msg |-> None, from |-> c, redo |-> TRUE] \in Turn
      BY TurnType
    <2>5. [queue EXCEPT ![conn[c].key] = <<[msg |-> None, from |-> c, redo |-> TRUE]>> \o @] \in [Keys -> Seq(Turn)]
      BY <2>1, <2>4, QueueUpdate
    <2>6. queue' \in [Keys -> Seq(Turn)]
      BY <1>12, <2>5 DEF Rerun, PushFront, TypeOK
    <2>7. Dormant'
      BY <1>12, <2>1, DormantKeeps DEF Rerun, PushFront, TypeOK
    <2> QED BY <1>12, <2>1, <2>2, <2>3, <2>4, <2>5, <2>6, <2>7 DEF Rerun, TypeOK, sessionVars, steerVars, ghostVars
  <1>13. ASSUME NEW c \in Conns, Release(c) PROVE TypeOK'
    <2>1. conn' \in [Conns -> Handler]
      BY <1>13, HandlerUpdate DEF Release, Working
    <2>2. rewinding' \in [Keys -> BOOLEAN]
      BY <1>13 DEF Release, TypeOK
    <2>3. Dormant'
      BY <1>13 DEF Release, TypeOK, Dormant, Idle
    <2> QED BY <1>13, <2>1, <2>2, <2>3 DEF Release, TypeOK, sessionVars, steerVars, ghostVars
  <1>14. ASSUME NEW c \in Conns, NEW k \in Keys, Compact(c, k) PROVE TypeOK'
    <2>1. rewinding' \in [Keys -> BOOLEAN]
      BY <1>14 DEF Compact, BeginRewind, TypeOK
    <2>2. \A n \in Keys : [summary EXCEPT ![n] = [at |-> "asking", of |-> k, clients |-> {}]] \in [Keys -> Summary]
      BY SummaryUpdate
    <2>3. summary' \in [Keys -> Summary]
      BY <1>14, <2>2 DEF Compact, Fresh, TypeOK
    <2>4. live' \subseteq Keys /\ live \subseteq live'
      BY <1>14 DEF Compact, Touch, TypeOK
    <2>5. Dormant'
      BY <1>14, DormantKeeps DEF Compact, Touch, BeginRewind, TypeOK
    <2> QED BY <1>14, <2>1, <2>2, <2>3, <2>4, <2>5 DEF Compact, TypeOK, sessionVars, steerVars, ghostVars
  <1>15. ASSUME NEW n \in Keys, SummaryFails(n) PROVE TypeOK'
    <2>1. summary[n].of \in Keys
      BY <1>15, SummaryUpdate DEF SummaryFails
    <2>2. summary' \in [Keys -> Summary]
      BY <1>15, SummaryUpdate DEF SummaryFails
    <2>3. rewinding' \in [Keys -> BOOLEAN]
      BY <1>15 DEF SummaryFails, TypeOK
    <2>4. draining' \subseteq Keys
      BY <1>15, <2>1 DEF SummaryFails, TypeOK
    <2>5. Dormant'
      BY <1>15 DEF SummaryFails, TypeOK, Dormant, Idle
    <2> QED BY <1>15, <2>1, <2>2, <2>3, <2>4, <2>5 DEF SummaryFails, TypeOK, sessionVars, steerVars, ghostVars
  <1>16. ASSUME NEW n \in Keys, SummaryMoves(n) PROVE TypeOK'
    <2>1. summary[n].of \in Keys
      BY <1>16, SummaryUpdate DEF SummaryMoves
    <2>2. summary' \in [Keys -> Summary]
      BY <1>16, <2>1, SummaryUpdate DEF SummaryMoves
    <2>3. rewinding' \in [Keys -> BOOLEAN]
      BY <1>16 DEF SummaryMoves, TypeOK
    <2>4. queue[summary[n].of] \in Seq(Turn) /\ queue[n] \in Seq(Turn)
      BY <2>1 DEF TypeOK
    <2>5. queue[n] \o queue[summary[n].of] \in Seq(Turn) /\ <<>> \in Seq(Turn)
      BY <2>4, ConcatProperties
    <2>6. queue' \in [Keys -> Seq(Turn)]
      BY <1>16, <2>1, <2>4, <2>5 DEF SummaryMoves, MoveQueue, TypeOK
    <2>7. acked' \in [Keys -> SUBSET Ids] /\ moved' \subseteq Ids
      BY <1>16, <2>1 DEF SummaryMoves, TypeOK
    <2>8. live' \subseteq Keys /\ minted' \subseteq Keys
      BY <1>16 DEF SummaryMoves, TypeOK
    <2>9. Dormant'
      BY <1>16, <2>1 DEF SummaryMoves, MoveQueue, TypeOK, Dormant, Idle
    <2> QED BY <1>16, <2>1, <2>2, <2>3, <2>4, <2>5, <2>6, <2>7, <2>8, <2>9 DEF SummaryMoves, TypeOK, sessionVars, steerVars, ghostVars
  <1>17. ASSUME NEW n \in Keys, MoveClient(n) PROVE TypeOK'
    <2>1. PICK c \in summary[n].clients :
           /\ summary' = [summary EXCEPT ![n].clients = @ \ {c}]
           /\ where' = [where EXCEPT ![c] =
                IF conn[c].at \in {"off", "gone"} \/ conn[c].closing THEN @ ELSE n]
      BY <1>17 DEF MoveClient
    <2>2. summary \in [Keys -> Summary] /\ summary[n].at # "idle"
      BY <1>17 DEF MoveClient, TypeOK
    <2>3. [summary[n] EXCEPT !.clients = @ \ {c}] \in Summary
      BY <2>2 DEF Summary, NoSummary
    <2>4. summary' \in [Keys -> Summary]
      BY <2>1, <2>2, <2>3
    <2>5. where' \in [Conns -> Keys \cup {None}]
      BY <1>17, <2>1 DEF MoveClient, TypeOK
    <2>6. live' \subseteq Keys /\ live \subseteq live'
      BY <1>17 DEF MoveClient, TypeOK
    <2>7. Dormant'
      BY <1>17, DormantKeeps DEF MoveClient, TypeOK
    <2> QED BY <1>17, <2>1, <2>2, <2>3, <2>4, <2>5, <2>6, <2>7 DEF MoveClient, TypeOK, sessionVars, steerVars, ghostVars
  <1>18. ASSUME NEW n \in Keys, SummaryEnds(n) PROVE TypeOK'
    <2>1. summary' \in [Keys -> Summary]
      BY <1>18, SummaryUpdate DEF SummaryEnds
    <2>2. draining' \subseteq Keys
      BY <1>18 DEF SummaryEnds, TypeOK
    <2>3. Dormant'
      BY <1>18, DormantKeeps DEF SummaryEnds, sessionVars, steerVars, ghostVars
    <2> QED BY <1>18, <2>1, <2>2, <2>3 DEF SummaryEnds, TypeOK, sessionVars, steerVars, ghostVars
  <1>19. ASSUME NEW c \in Conns, NEW k \in Keys, StopRunning(c, k) PROVE TypeOK'
    <2>1. running[k] \in Slots /\ task \in [Slots -> TurnTask]
      BY <1>19 DEF StopRunning, TypeOK
    <2>2. [task[running[k]] EXCEPT !.cancelled = TRUE] \in TurnTask
      BY <2>1, TaskCancelled
    <2>3. task' \in [Slots -> TurnTask]
      BY <1>19, <2>1, <2>2 DEF StopRunning
    <2>4. Dormant'
      BY <1>19, DormantKeeps DEF StopRunning, sessionVars, steerVars, ghostVars
    <2> QED BY <1>19, <2>1, <2>2, <2>3, <2>4 DEF StopRunning, TypeOK, sessionVars, steerVars, ghostVars
  <1>20. ASSUME NEW c \in Conns, NEW k \in Keys, StopQueued(c, k) PROVE TypeOK'
    <2>1. PICK i \in 1..Len(queue[k]) :
           /\ queue' = [queue EXCEPT ![k] = SubSeq(@, 1, i - 1) \o SubSeq(@, i + 1, Len(@))]
           /\ withdrawn' = withdrawn \cup ({queue[k][i].msg} \ {None})
      BY <1>20 DEF StopQueued
    <2>2. queue[k] \in Seq(Turn) /\ queue[k][i] \in Turn
      BY <2>1 DEF TypeOK
    <2>3. SubSeq(queue[k], 1, i - 1) \in Seq(Turn) /\ SubSeq(queue[k], i + 1, Len(queue[k])) \in Seq(Turn)
      BY <2>1, <2>2
    <2>4. queue' \in [Keys -> Seq(Turn)]
      BY <1>20, <2>1, <2>3 DEF StopQueued, TypeOK
    <2>5. withdrawn' \subseteq Ids
      BY <1>20, <2>1, <2>2 DEF StopQueued, TypeOK, Turn
    <2>6. k \notin live => queue[k] = <<>>
      BY <1>20 DEF StopQueued, TypeOK, Dormant, Idle
    <2>7. k \in live
      BY <2>1, <2>6
    <2>8. Dormant'
      BY <1>20, <2>7, DormantKeeps DEF StopQueued, TypeOK
    <2> QED BY <1>20, <2>1, <2>2, <2>3, <2>4, <2>5, <2>6, <2>7, <2>8 DEF StopQueued, TypeOK, sessionVars, steerVars, ghostVars
  <1>21. ASSUME NEW s \in Slots, OpenTurn(s) PROVE TypeOK'
    <2>1. task[s].at # "idle"
      BY <1>21 DEF OpenTurn
    <2>2. \A next \in {"loop", "settle"} : [task EXCEPT ![s].at = next] \in [Slots -> TurnTask]
      BY <2>1, TaskUpdate
    <2>3. task' \in [Slots -> TurnTask]
      BY <1>21, <2>2 DEF OpenTurn
    <2>4. Dormant'
      BY <1>21, DormantKeeps DEF OpenTurn, sessionVars, steerVars, ghostVars
    <2> QED BY <1>21, <2>1, <2>2, <2>3, <2>4 DEF OpenTurn, TypeOK, sessionVars, steerVars, ghostVars
  <1>22. ASSUME NEW s \in Slots, ReadSteer(s) PROVE TypeOK'
    <2>1. task[s].at # "idle"
      BY <1>22 DEF ReadSteer
    <2>2. task[s].key \in Keys
      BY <2>1, TaskUpdate
    <2>3. Head(steering[task[s].key]) \in Turn
      BY <1>22, <2>2 DEF ReadSteer, TypeOK
    <2>4. runs' \in [Ids -> 0..2]
      BY <1>22, <2>3, StartedType DEF ReadSteer, Turn
    <2>5. steering' \in [Keys -> Seq(Turn)]
      BY <1>22, <2>2 DEF ReadSteer, TypeOK
    <2>6. Dormant'
      BY <1>22, DormantKeeps DEF ReadSteer, sessionVars, steerVars, ghostVars
    <2> QED BY <1>22, <2>1, <2>2, <2>3, <2>4, <2>5, <2>6 DEF ReadSteer, TypeOK, sessionVars, steerVars, ghostVars
  <1>23. ASSUME NEW s \in Slots, EndLoop(s) PROVE TypeOK'
    <2>1. task[s].at # "idle"
      BY <1>23 DEF EndLoop
    <2>2. task' \in [Slots -> TurnTask]
      BY <1>23, <2>1, TaskUpdate DEF EndLoop
    <2>3. Dormant'
      BY <1>23, DormantKeeps DEF EndLoop, sessionVars, steerVars, ghostVars
    <2> QED BY <1>23, <2>1, <2>2, <2>3 DEF EndLoop, TypeOK, sessionVars, steerVars, ghostVars
  <1>24. ASSUME NEW s \in Slots, Settle(s) PROVE TypeOK'
    <2>1. task[s].at # "idle"
      BY <1>24 DEF Settle
    <2>2. task[s].key \in Keys /\ [task EXCEPT ![s] = NoTask] \in [Slots -> TurnTask]
      BY <2>1, TaskUpdate
    <2>3. steering[task[s].key] \in Seq(Turn) /\ queue[task[s].key] \in Seq(Turn)
      BY <2>2 DEF TypeOK
    <2>4. queue[task[s].key] \o steering[task[s].key] \in Seq(Turn)
      BY <2>3, ConcatProperties
    <2>5. queue' \in [Keys -> Seq(Turn)]
      BY <1>24, <2>2, <2>4 DEF Settle, QueueUnread, TypeOK
    <2>6. [steering EXCEPT ![task[s].key] = <<>>] \in [Keys -> Seq(Turn)] /\ steering \in [Keys -> Seq(Turn)]
      BY <2>2 DEF TypeOK
    <2>7. steering' \in [Keys -> Seq(Turn)]
      BY <1>24, <2>6 DEF Settle, CloseSteering
    <2>8. Messages(steering[task[s].key]) \ {None} \in SUBSET Ids
      BY <2>3, MessagesType
    <2>9. [acked EXCEPT ![task[s].key] = @ \cup (Messages(steering[task[s].key]) \ {None})] \in [Keys -> SUBSET Ids]
      BY <2>2, <2>8, AckedUpdate
    <2>10. acked' \in [Keys -> SUBSET Ids]
      BY <1>24, <2>9 DEF Settle, QueueUnread, TypeOK
    <2>11. running' \in [Keys -> Slots \cup {None}] /\ opened' \subseteq Keys
      BY <1>24, <2>2 DEF Settle, CloseSteering, TypeOK
    <2>12. draining' \subseteq Keys
      BY <1>24, <2>2 DEF Settle, TypeOK
    <2>13. task[s].key \notin live => ~OwnMarker(s)
      BY <1>24, <2>2, HubAssumption DEF Settle, OwnMarker, TypeOK, Dormant, Idle
    <2>14. Dormant'
      BY <1>24, <2>2, <2>13, DormantKeeps DEF Settle, QueueUnread, TypeOK
    <2> QED BY <1>24, <2>1, <2>2, <2>3, <2>4, <2>5, <2>6, <2>7, <2>8, <2>9, <2>10, <2>11, <2>12, <2>13, <2>14 DEF Settle, TypeOK, sessionVars, steerVars, ghostVars
  <1>25. ASSUME NEW k \in Keys, TaskDrains(k) PROVE TypeOK'
    <2>1. /\ queue' \in [Keys -> Seq(Turn)]
          /\ running' \in [Keys -> Slots \cup {None}]
          /\ opened' \subseteq Keys
          /\ task' \in [Slots -> TurnTask]
          /\ runs' \in [Ids -> 0..2]
          /\ \A j \in Keys \ live : queue'[j] = queue[j] /\ running'[j] = running[j]
      BY <1>25, DrainType DEF TaskDrains
    <2>2. draining' \subseteq Keys
      BY <1>25 DEF TaskDrains, TypeOK
    <2>3. Dormant'
      BY <1>25, <2>1, DormantKeeps DEF TaskDrains
    <2> QED BY <1>25, <2>1, <2>2, <2>3 DEF TaskDrains, TypeOK, sessionVars, steerVars, ghostVars
  <1>26. ASSUME NEW p \in Posts, NEW k \in Keys, Post(p, k) PROVE TypeOK'
    <2>1. p \in Ids /\ [msg |-> p, from |-> None, redo |-> FALSE] \in Turn
      BY <1>26, TurnType DEF Post, Ids
    <2>2. /\ [queue EXCEPT ![k] = Append(@, [msg |-> p, from |-> None, redo |-> FALSE])] \in [Keys -> Seq(Turn)]
          /\ [steering EXCEPT ![k] = Append(@, [msg |-> p, from |-> None, redo |-> FALSE])] \in [Keys -> Seq(Turn)]
      BY <2>1, QueueUpdate
    <2>3. queue' \in [Keys -> Seq(Turn)] /\ steering' \in [Keys -> Seq(Turn)]
      BY <1>26, <2>2 DEF Post, PushTurn, TypeOK
    <2>4. {p} \ {None} \in SUBSET Ids
      BY <2>1
    <2>5. [acked EXCEPT ![k] = @ \cup ({p} \ {None})] \in [Keys -> SUBSET Ids]
      BY <2>4, AckedUpdate
    <2>6. acked' \in [Keys -> SUBSET Ids] /\ owed' \subseteq Ids
      BY <1>26, <2>1, <2>5 DEF Post, PushTurn, TypeOK
    <2>7. sentTo' \in [Ids -> Keys \cup {None}] /\ draining' \subseteq Keys
      BY <1>26, <2>1 DEF Post, TypeOK
    <2>8. live' \subseteq Keys /\ live \subseteq live'
      BY <1>26 DEF Post, Touch, TypeOK
    <2>9. Dormant'
      BY <1>26, DormantKeeps DEF Post, Touch, PushTurn, TypeOK
    <2> QED BY <1>26, <2>1, <2>2, <2>3, <2>4, <2>5, <2>6, <2>7, <2>8, <2>9 DEF Post, TypeOK, sessionVars, steerVars, ghostVars
  <1>27. ASSUME NEW k \in Keys, Evict(k) PROVE TypeOK'
    <2>1. forgotten' \subseteq Ids /\ live' \subseteq Keys
      BY <1>27 DEF Evict, TypeOK
    <2>2. acked' \in [Keys -> SUBSET Ids]
      BY <1>27 DEF Evict, TypeOK
    <2>3. Dormant'
      BY <1>27 DEF Evict, Evictable, TypeOK, Dormant, Idle
    <2> QED BY <1>27, <2>1, <2>2, <2>3 DEF Evict, TypeOK, sessionVars, steerVars, ghostVars
  <1>28. ASSUME Close PROVE TypeOK'
    <2>1. \A s \in Slots : task[s] \in TurnTask /\ (task[s].cancelled \/ \E k \in Keys : running[k] = s) \in BOOLEAN
      BY DEF TypeOK
    <2>2. \A s \in Slots : [task[s] EXCEPT !.cancelled = @ \/ \E k \in Keys : running[k] = s] \in TurnTask
      BY <2>1, TaskCancelled
    <2>3. task' \in [Slots -> TurnTask]
      BY <1>28, <2>2 DEF Close
    <2>4. queue' \in [Keys -> Seq(Turn)] /\ acked' \in [Keys -> SUBSET Ids]
      BY <1>28 DEF Close, TypeOK
    <2>5. running' \in [Keys -> Slots \cup {None}] /\ rewinding' \in [Keys -> BOOLEAN] /\ where' \in [Conns -> Keys \cup {None}]
      BY <1>28 DEF Close
    <2>6. forgotten' \subseteq Ids
      BY <1>28 DEF Close, TypeOK
    <2>7. Dormant'
      BY <1>28 DEF Close, Dormant, Idle
    <2> QED BY <1>28, <2>1, <2>2, <2>3, <2>4, <2>5, <2>6, <2>7 DEF Close, TypeOK, sessionVars, steerVars, ghostVars
  <1>29. CASE UNCHANGED vars
    BY <1>29 DEF vars, TypeOK, Dormant, Idle, sessionVars, steerVars, ghostVars
  <1> QED
    BY <1>1, <1>2, <1>3, <1>4, <1>5, <1>6, <1>7, <1>8, <1>9, <1>10, <1>11, <1>12, <1>13, <1>14, <1>15, <1>16, <1>17, <1>18, <1>19, <1>20, <1>21, <1>22, <1>23, <1>24, <1>25, <1>26, <1>27, <1>28, <1>29
       DEF Next, HandlerStep, TurnStep, SummaryStep, Frame

\* Every step keeps turns and claims apart: what claims a session looks for a
\* turn first, and what starts one looks for a claim.
LEMMA ClaimStep ==
  TypeOK /\ NoTurnUnderClaim /\ [Next]_vars => NoTurnUnderClaim'
  <1> SUFFICES ASSUME TypeOK, NoTurnUnderClaim, [Next]_vars
               PROVE  NoTurnUnderClaim'
    OBVIOUS
  <1>1. ASSUME NEW c \in Conns, NEW k \in Keys, Connect(c, k) PROVE NoTurnUnderClaim'
    BY <1>1 DEF Connect, NoTurnUnderClaim, TypeOK, sessionVars, steerVars, ghostVars
  <1>2. ASSUME NEW c \in Conns, Leave(c) PROVE NoTurnUnderClaim'
    BY <1>2 DEF Leave, NoTurnUnderClaim, TypeOK, sessionVars, steerVars, ghostVars
  <1>3. ASSUME NEW c \in Conns, Disconnect(c) PROVE NoTurnUnderClaim'
    BY <1>3 DEF Disconnect, NoTurnUnderClaim, TypeOK, sessionVars, steerVars, ghostVars
  <1>4. ASSUME NEW c \in Conns, NEW k \in Keys, Switch(c, k) PROVE NoTurnUnderClaim'
    BY <1>4 DEF Switch, NoTurnUnderClaim, TypeOK, sessionVars, steerVars, ghostVars
  <1>5. ASSUME NEW c \in Conns, NEW k \in Keys, NEW m \in Msgs, Submit(c, k, m) PROVE NoTurnUnderClaim'
    BY <1>5 DEF Submit, NoTurnUnderClaim, TypeOK, sessionVars, steerVars, ghostVars
  <1>6. ASSUME NEW c \in Conns, Check(c) PROVE NoTurnUnderClaim'
    BY <1>6 DEF Check, BeginRewind, Idle, NoTurnUnderClaim, TypeOK, sessionVars, steerVars, ghostVars
  <1>7. ASSUME NEW c \in Conns, Push(c) PROVE NoTurnUnderClaim'
    BY <1>7 DEF Push, NoTurnUnderClaim, TypeOK, sessionVars, steerVars, ghostVars
  <1>8. ASSUME NEW c \in Conns, DrainStep(c) PROVE NoTurnUnderClaim'
    BY <1>8 DEF DrainStep, Drain, CanDrain, NoTurnUnderClaim, TypeOK, sessionVars, steerVars, ghostVars
  <1>9. ASSUME NEW c \in Conns, NEW k \in Keys, NEW m \in Steers, Steer(c, k, m) PROVE NoTurnUnderClaim'
    BY <1>9 DEF Steer, NoTurnUnderClaim, TypeOK, sessionVars, steerVars, ghostVars
  <1>10. ASSUME NEW c \in Conns, NEW k \in Keys, Rewind(c, k) PROVE NoTurnUnderClaim'
    BY <1>10 DEF Rewind, BeginRewind, Idle, Touch, NoTurnUnderClaim, TypeOK, sessionVars, steerVars, ghostVars
  <1>11. ASSUME NEW c \in Conns, Cut(c) PROVE NoTurnUnderClaim'
    BY <1>11 DEF Cut, NoTurnUnderClaim, TypeOK, sessionVars, steerVars, ghostVars
  <1>12. ASSUME NEW c \in Conns, Rerun(c) PROVE NoTurnUnderClaim'
    BY <1>12 DEF Rerun, NoTurnUnderClaim, TypeOK, sessionVars, steerVars, ghostVars
  <1>13. ASSUME NEW c \in Conns, Release(c) PROVE NoTurnUnderClaim'
    BY <1>13 DEF Release, NoTurnUnderClaim, TypeOK, sessionVars, steerVars, ghostVars
  <1>14. ASSUME NEW c \in Conns, NEW k \in Keys, Compact(c, k) PROVE NoTurnUnderClaim'
    BY <1>14 DEF Compact, BeginRewind, Idle, Touch, NoTurnUnderClaim, TypeOK, sessionVars, steerVars, ghostVars
  <1>15. ASSUME NEW n \in Keys, SummaryFails(n) PROVE NoTurnUnderClaim'
    BY <1>15 DEF SummaryFails, NoTurnUnderClaim, TypeOK, sessionVars, steerVars, ghostVars
  <1>16. ASSUME NEW n \in Keys, SummaryMoves(n) PROVE NoTurnUnderClaim'
    BY <1>16 DEF SummaryMoves, NoTurnUnderClaim, TypeOK, sessionVars, steerVars, ghostVars
  <1>17. ASSUME NEW n \in Keys, MoveClient(n) PROVE NoTurnUnderClaim'
    BY <1>17 DEF MoveClient, NoTurnUnderClaim, TypeOK, sessionVars, steerVars, ghostVars
  <1>18. ASSUME NEW n \in Keys, SummaryEnds(n) PROVE NoTurnUnderClaim'
    BY <1>18 DEF SummaryEnds, NoTurnUnderClaim, TypeOK, sessionVars, steerVars, ghostVars
  <1>19. ASSUME NEW c \in Conns, NEW k \in Keys, StopRunning(c, k) PROVE NoTurnUnderClaim'
    BY <1>19 DEF StopRunning, NoTurnUnderClaim, TypeOK, sessionVars, steerVars, ghostVars
  <1>20. ASSUME NEW c \in Conns, NEW k \in Keys, StopQueued(c, k) PROVE NoTurnUnderClaim'
    BY <1>20 DEF StopQueued, NoTurnUnderClaim, TypeOK, sessionVars, steerVars, ghostVars
  <1>21. ASSUME NEW s \in Slots, OpenTurn(s) PROVE NoTurnUnderClaim'
    BY <1>21 DEF OpenTurn, NoTurnUnderClaim, TypeOK, sessionVars, steerVars, ghostVars
  <1>22. ASSUME NEW s \in Slots, ReadSteer(s) PROVE NoTurnUnderClaim'
    BY <1>22 DEF ReadSteer, NoTurnUnderClaim, TypeOK, sessionVars, steerVars, ghostVars
  <1>23. ASSUME NEW s \in Slots, EndLoop(s) PROVE NoTurnUnderClaim'
    BY <1>23 DEF EndLoop, NoTurnUnderClaim, TypeOK, sessionVars, steerVars, ghostVars
  <1>24. ASSUME NEW s \in Slots, Settle(s) PROVE NoTurnUnderClaim'
    BY <1>24 DEF Settle, NoTurnUnderClaim, TypeOK, sessionVars, steerVars, ghostVars
  <1>25. ASSUME NEW k \in Keys, TaskDrains(k) PROVE NoTurnUnderClaim'
    BY <1>25 DEF TaskDrains, Drain, CanDrain, NoTurnUnderClaim, TypeOK, sessionVars, steerVars, ghostVars
  <1>26. ASSUME NEW p \in Posts, NEW k \in Keys, Post(p, k) PROVE NoTurnUnderClaim'
    BY <1>26 DEF Post, NoTurnUnderClaim, TypeOK, sessionVars, steerVars, ghostVars
  <1>27. ASSUME NEW k \in Keys, Evict(k) PROVE NoTurnUnderClaim'
    BY <1>27 DEF Evict, NoTurnUnderClaim, TypeOK, sessionVars, steerVars, ghostVars
  <1>28. ASSUME Close PROVE NoTurnUnderClaim'
    BY <1>28 DEF Close, NoTurnUnderClaim, TypeOK, sessionVars, steerVars, ghostVars
  <1>29. CASE UNCHANGED vars
    BY <1>29 DEF vars, NoTurnUnderClaim, TypeOK, sessionVars, steerVars, ghostVars
  <1> QED
    BY <1>1, <1>2, <1>3, <1>4, <1>5, <1>6, <1>7, <1>8, <1>9, <1>10, <1>11, <1>12, <1>13, <1>14, <1>15, <1>16, <1>17, <1>18, <1>19, <1>20, <1>21, <1>22, <1>23, <1>24, <1>25, <1>26, <1>27, <1>28, <1>29
       DEF Next, HandlerStep, TurnStep, SummaryStep, Frame

-----------------------------------------------------------------------------
(* One turn at a time *)

\* The marker and the turn point at each other.
OneTurn == TurnHoldsItsSession /\ MarkerHasItsTurn

\* The placeholder for no turn is not a slot.
LEMMA NoneIsNoSlot == None \notin Slots
  BY HubAssumption

\* A drain that starts something touches one session and one idle slot.
LEMMA DrainStarts ==
  ASSUME TypeOK, NEW k \in Keys, CanDrain(k), Drain(k)
  PROVE  \E s \in Slots :
           /\ task[s].at = "idle" /\ running[k] = None /\ ~rewinding[k]
           /\ running'[k] = s /\ opened' = opened \cup {k}
           /\ queue[k] # <<>> /\ queue'[k] = Tail(queue[k])
           /\ task'[s].at = "opening" /\ task'[s].key = k
           /\ \A j \in Keys \ {k} : running'[j] = running[j] /\ queue'[j] = queue[j]
           /\ \A t \in Slots \ {s} : task'[t] = task[t]
  BY DEF TypeOK, CanDrain, Drain

\* A drain starts a turn only where none runs, and in an idle slot.
LEMMA DrainKeepsOneTurn ==
  ASSUME TypeOK, OneTurn, NEW k \in Keys, Drain(k)
  PROVE  OneTurn'
  <1>1. CASE ~CanDrain(k)
    BY <1>1 DEF Drain, OneTurn, TurnHoldsItsSession, MarkerHasItsTurn, Busy
  <1>2. CASE CanDrain(k)
    <2>1. PICK s \in Slots :
            /\ task[s].at = "idle" /\ running[k] = None /\ running'[k] = s
            /\ task'[s].at = "opening" /\ task'[s].key = k
            /\ \A j \in Keys \ {k} : running'[j] = running[j]
            /\ \A t \in Slots \ {s} : task'[t] = task[t]
      BY <1>2, DrainStarts
    <2>2. \A j \in Keys : running[j] # None => running[j] \in Slots \ {s}
      <3>1. \A j \in Keys : running[j] \in Slots \cup {None}
        BY DEF TypeOK
      <3> QED BY <2>1, <3>1 DEF OneTurn, MarkerHasItsTurn
    <2>3. \A t \in Slots : task[t].at # "idle" => task[t].key \in Keys
      BY TaskUpdate
    <2>4. TurnHoldsItsSession'
      BY <2>1, <2>3, NoneIsNoSlot DEF OneTurn, TurnHoldsItsSession, Busy
    <2>5. MarkerHasItsTurn'
      BY <2>1, <2>2 DEF OneTurn, MarkerHasItsTurn
    <2> QED BY <2>4, <2>5 DEF OneTurn
  <1> QED BY <1>1, <1>2

\* Every step keeps the marker and the turn in agreement.
LEMMA TurnStepKeeps ==
  TypeOK /\ OneTurn /\ [Next]_vars => OneTurn'
  <1> SUFFICES ASSUME TypeOK, OneTurn, [Next]_vars
               PROVE  OneTurn'
    OBVIOUS
  <1>1. ASSUME NEW c \in Conns, NEW k \in Keys, Connect(c, k) PROVE OneTurn'
    BY <1>1 DEF Connect, OneTurn, TurnHoldsItsSession, MarkerHasItsTurn, Busy, TypeOK, sessionVars, steerVars, ghostVars
  <1>2. ASSUME NEW c \in Conns, Leave(c) PROVE OneTurn'
    BY <1>2 DEF Leave, OneTurn, TurnHoldsItsSession, MarkerHasItsTurn, Busy, TypeOK, sessionVars, steerVars, ghostVars
  <1>3. ASSUME NEW c \in Conns, Disconnect(c) PROVE OneTurn'
    BY <1>3 DEF Disconnect, OneTurn, TurnHoldsItsSession, MarkerHasItsTurn, Busy, TypeOK, sessionVars, steerVars, ghostVars
  <1>4. ASSUME NEW c \in Conns, NEW k \in Keys, Switch(c, k) PROVE OneTurn'
    BY <1>4 DEF Switch, OneTurn, TurnHoldsItsSession, MarkerHasItsTurn, Busy, TypeOK, sessionVars, steerVars, ghostVars
  <1>5. ASSUME NEW c \in Conns, NEW k \in Keys, NEW m \in Msgs, Submit(c, k, m) PROVE OneTurn'
    BY <1>5 DEF Submit, OneTurn, TurnHoldsItsSession, MarkerHasItsTurn, Busy, TypeOK, sessionVars, steerVars, ghostVars
  <1>6. ASSUME NEW c \in Conns, Check(c) PROVE OneTurn'
    BY <1>6 DEF Check, OneTurn, TurnHoldsItsSession, MarkerHasItsTurn, Busy, TypeOK, sessionVars, steerVars, ghostVars
  <1>7. ASSUME NEW c \in Conns, Push(c) PROVE OneTurn'
    BY <1>7 DEF Push, OneTurn, TurnHoldsItsSession, MarkerHasItsTurn, Busy, TypeOK, sessionVars, steerVars, ghostVars
  <1>8. ASSUME NEW c \in Conns, DrainStep(c) PROVE OneTurn'
    <2>1. conn[c].key \in Keys
      BY <1>8, HandlerUpdate DEF DrainStep, Working
    <2> QED BY <1>8, <2>1, DrainKeepsOneTurn DEF DrainStep
  <1>9. ASSUME NEW c \in Conns, NEW k \in Keys, NEW m \in Steers, Steer(c, k, m) PROVE OneTurn'
    BY <1>9 DEF Steer, OneTurn, TurnHoldsItsSession, MarkerHasItsTurn, Busy, TypeOK, sessionVars, steerVars, ghostVars
  <1>10. ASSUME NEW c \in Conns, NEW k \in Keys, Rewind(c, k) PROVE OneTurn'
    BY <1>10 DEF Rewind, OneTurn, TurnHoldsItsSession, MarkerHasItsTurn, Busy, TypeOK, sessionVars, steerVars, ghostVars
  <1>11. ASSUME NEW c \in Conns, Cut(c) PROVE OneTurn'
    BY <1>11 DEF Cut, OneTurn, TurnHoldsItsSession, MarkerHasItsTurn, Busy, TypeOK, sessionVars, steerVars, ghostVars
  <1>12. ASSUME NEW c \in Conns, Rerun(c) PROVE OneTurn'
    BY <1>12 DEF Rerun, OneTurn, TurnHoldsItsSession, MarkerHasItsTurn, Busy, TypeOK, sessionVars, steerVars, ghostVars
  <1>13. ASSUME NEW c \in Conns, Release(c) PROVE OneTurn'
    BY <1>13 DEF Release, OneTurn, TurnHoldsItsSession, MarkerHasItsTurn, Busy, TypeOK, sessionVars, steerVars, ghostVars
  <1>14. ASSUME NEW c \in Conns, NEW k \in Keys, Compact(c, k) PROVE OneTurn'
    BY <1>14 DEF Compact, OneTurn, TurnHoldsItsSession, MarkerHasItsTurn, Busy, TypeOK, sessionVars, steerVars, ghostVars
  <1>15. ASSUME NEW n \in Keys, SummaryFails(n) PROVE OneTurn'
    BY <1>15 DEF SummaryFails, OneTurn, TurnHoldsItsSession, MarkerHasItsTurn, Busy, TypeOK, sessionVars, steerVars, ghostVars
  <1>16. ASSUME NEW n \in Keys, SummaryMoves(n) PROVE OneTurn'
    BY <1>16 DEF SummaryMoves, OneTurn, TurnHoldsItsSession, MarkerHasItsTurn, Busy, TypeOK, sessionVars, steerVars, ghostVars
  <1>17. ASSUME NEW n \in Keys, MoveClient(n) PROVE OneTurn'
    BY <1>17 DEF MoveClient, OneTurn, TurnHoldsItsSession, MarkerHasItsTurn, Busy, TypeOK, sessionVars, steerVars, ghostVars
  <1>18. ASSUME NEW n \in Keys, SummaryEnds(n) PROVE OneTurn'
    BY <1>18 DEF SummaryEnds, OneTurn, TurnHoldsItsSession, MarkerHasItsTurn, Busy, TypeOK, sessionVars, steerVars, ghostVars
  <1>19. ASSUME NEW c \in Conns, NEW k \in Keys, StopRunning(c, k) PROVE OneTurn'
    BY <1>19 DEF StopRunning, OneTurn, TurnHoldsItsSession, MarkerHasItsTurn, Busy, TypeOK, sessionVars, steerVars, ghostVars
  <1>20. ASSUME NEW c \in Conns, NEW k \in Keys, StopQueued(c, k) PROVE OneTurn'
    BY <1>20 DEF StopQueued, OneTurn, TurnHoldsItsSession, MarkerHasItsTurn, Busy, TypeOK, sessionVars, steerVars, ghostVars
  <1>21. ASSUME NEW s \in Slots, OpenTurn(s) PROVE OneTurn'
    BY <1>21 DEF OpenTurn, OneTurn, TurnHoldsItsSession, MarkerHasItsTurn, Busy, TypeOK, sessionVars, steerVars, ghostVars
  <1>22. ASSUME NEW s \in Slots, ReadSteer(s) PROVE OneTurn'
    BY <1>22 DEF ReadSteer, OneTurn, TurnHoldsItsSession, MarkerHasItsTurn, Busy, TypeOK, sessionVars, steerVars, ghostVars
  <1>23. ASSUME NEW s \in Slots, EndLoop(s) PROVE OneTurn'
    BY <1>23 DEF EndLoop, OneTurn, TurnHoldsItsSession, MarkerHasItsTurn, Busy, TypeOK, sessionVars, steerVars, ghostVars
  <1>24. ASSUME NEW s \in Slots, Settle(s) PROVE OneTurn'
    <2>1. task[s].key \in Keys /\ task[s].at = "settle"
      BY <1>24, TaskUpdate DEF Settle
    <2>2. task'[s].at = "idle" /\ \A t \in Slots \ {s} : task'[t] = task[t]
      BY <1>24 DEF Settle, NoTask, TypeOK
    <2>3. \A j \in Keys : running'[j] = running[j]
                           \/ (j = task[s].key /\ running[j] = s /\ running'[j] = None)
      BY <1>24, <2>1 DEF Settle, OwnMarker, TypeOK
    <2>4. \A j \in Keys : running[j] = s => running'[j] = None
      BY <1>24, <2>1 DEF Settle, OwnMarker, OneTurn, MarkerHasItsTurn, TypeOK
    <2>5. \A t \in Slots : task[t].at # "idle" => task[t].key \in Keys
      BY TaskUpdate
    <2>6. TurnHoldsItsSession'
      BY <2>1, <2>2, <2>3, <2>5 DEF OneTurn, TurnHoldsItsSession, Busy
    <2>7. MarkerHasItsTurn'
      BY <2>2, <2>3, <2>4, NoneIsNoSlot DEF OneTurn, MarkerHasItsTurn, TypeOK
    <2> QED BY <2>6, <2>7 DEF OneTurn
  <1>25. ASSUME NEW k \in Keys, TaskDrains(k) PROVE OneTurn'
    BY <1>25, DrainKeepsOneTurn DEF TaskDrains
  <1>26. ASSUME NEW p \in Posts, NEW k \in Keys, Post(p, k) PROVE OneTurn'
    BY <1>26 DEF Post, OneTurn, TurnHoldsItsSession, MarkerHasItsTurn, Busy, TypeOK, sessionVars, steerVars, ghostVars
  <1>27. ASSUME NEW k \in Keys, Evict(k) PROVE OneTurn'
    BY <1>27 DEF Evict, OneTurn, TurnHoldsItsSession, MarkerHasItsTurn, Busy, TypeOK, sessionVars, steerVars, ghostVars
  <1>28. ASSUME Close PROVE OneTurn'
    <2>1. \A s \in Slots :
            /\ task'[s].at = task[s].at /\ task'[s].key = task[s].key
            /\ ~task'[s].cancelled =>
                 ~task[s].cancelled /\ \A k \in Keys : running[k] # s
      BY <1>28 DEF Close, TypeOK, TurnTask
    <2>2. \A k \in Keys : running'[k] = None
      BY <1>28 DEF Close
    <2>3. \A s \in Slots : task[s].at # "idle" => task[s].key \in Keys
      BY TaskUpdate
    <2>4. ASSUME NEW s \in Slots, Busy(s)', ~task'[s].cancelled PROVE FALSE
      <3>1. Busy(s)
        BY <2>1, <2>4 DEF Busy
      <3>2. ~task[s].cancelled /\ \A k \in Keys : running[k] # s
        BY <2>1, <2>4
      <3>3. task[s].key \in Keys /\ running[task[s].key] = s
        BY <2>3, <3>1, <3>2 DEF OneTurn, TurnHoldsItsSession, Busy
      <3> QED BY <3>2, <3>3
    <2>5. TurnHoldsItsSession' /\ MarkerHasItsTurn'
      BY <2>2, <2>4 DEF TurnHoldsItsSession, MarkerHasItsTurn
    <2> QED BY <2>5 DEF OneTurn
  <1>29. CASE UNCHANGED vars
    BY <1>29 DEF vars, OneTurn, TurnHoldsItsSession, MarkerHasItsTurn, Busy, TypeOK, sessionVars, steerVars, ghostVars
  <1> QED
    BY <1>1, <1>2, <1>3, <1>4, <1>5, <1>6, <1>7, <1>8, <1>9, <1>10, <1>11, <1>12, <1>13, <1>14, <1>15, <1>16, <1>17, <1>18, <1>19, <1>20, <1>21, <1>22, <1>23, <1>24, <1>25, <1>26, <1>27, <1>28, <1>29
       DEF Next, HandlerStep, TurnStep, SummaryStep, Frame

-----------------------------------------------------------------------------
(* One holder of every claim *)

HoldingAt == {"cut", "rerun", "release"}
HandlerHolds(c, k) == conn[c].key = k /\ conn[c].at \in HoldingAt
SummaryHolds(n, k) == summary[n].of = k /\ summary[n].at \in {"claimed", "asking"}

\* ClaimHasOneHolder, holder by holder.
OneHolder ==
  ~closed => \A k \in Keys :
    /\ rewinding[k] <=>
         (\E c \in Conns : HandlerHolds(c, k)) \/ (\E n \in Keys : SummaryHolds(n, k))
    /\ \A c \in Conns : HandlerHolds(c, k) =>
         /\ \A d \in Conns \ {c} : ~HandlerHolds(d, k)
         /\ \A n \in Keys : ~SummaryHolds(n, k)
    /\ \A n \in Keys : SummaryHolds(n, k) =>
         \A o \in Keys \ {n} : ~SummaryHolds(o, k)

\* The continuation a handler has claimed a session for is kept for it.
ClaimsKept ==
  \A c \in Conns : conn[c].claim # None =>
    /\ conn[c].at = "push"
    /\ summary[conn[c].claim].at = "claimed"
    /\ summary[conn[c].claim].of = conn[c].key
    /\ \A d \in Conns \ {c} : conn[d].claim # conn[c].claim

ClaimInv == OneHolder /\ ClaimsKept

\* Counting holders by kind says the same as counting them together.
LEMMA HoldersOneByOne == ASSUME OneHolder PROVE ClaimHasOneHolder
  <1> SUFFICES ASSUME ~closed, NEW k \in Keys
               PROVE  /\ rewinding[k] <=> Holders(k) # {}
                      /\ \A x, y \in Holders(k) : x = y
    BY DEF ClaimHasOneHolder
  <1>1. Holders(k) = {c \in Conns : HandlerHolds(c, k)} \cup {n \in Keys : SummaryHolds(n, k)}
    BY DEF Holders, HandlerHolds, SummaryHolds, HoldingAt
  <1>2. rewinding[k] <=> Holders(k) # {}
    BY <1>1 DEF OneHolder
  <1>3. \A x, y \in Holders(k) : x = y
    BY <1>1 DEF OneHolder
  <1> QED BY <1>2, <1>3

\* What a handler claims is a session.
LEMMA ClaimsAreKeys ==
  ASSUME TypeOK
  PROVE  \A c \in Conns : conn[c].claim # None => conn[c].claim \in Keys
  BY HandlerUpdate

\* A handler that is between frames, or gone, has no claim.
LEMMA RestingClaimsNothing ==
  ASSUME TypeOK, NEW c \in Conns, conn[c].at \in Resting
  PROVE  conn[c].claim = None
  <1>1. conn[c] \in Handler
    BY DEF TypeOK
  <1> QED BY <1>1 DEF Handler, Resting, Working

\* A handler that takes a frame up starts with no claim, and moves no other.
LEMMA GoOne ==
  ASSUME TypeOK, NEW c \in Conns, NEW k \in Keys, NEW m \in Ids \cup {None}, NEW at \in Working
  PROVE  /\ Go(c, at, k, m)[c].at = at /\ Go(c, at, k, m)[c].key = k
         /\ Go(c, at, k, m)[c].claim = None
         /\ \A d \in Conns \ {c} : Go(c, at, k, m)[d] = conn[d]
  <1>1. conn \in [Conns -> Handler] /\ conn[c] \in Handler
    BY DEF TypeOK
  <1> QED BY <1>1 DEF Go, Handler

\* A step of a handler that holds nothing before and after.
LEMMA OthersKeepTheirs ==
  ASSUME ClaimInv, NEW c \in Conns, UNCHANGED <<rewinding, summary, closed>>,
         conn[c].at \notin HoldingAt, conn[c].claim = None,
         conn'[c].at \notin HoldingAt, conn'[c].claim = None,
         \A d \in Conns \ {c} : conn'[d] = conn[d]
  PROVE  ClaimInv'
  <1>1. \A d \in Conns, k \in Keys : HandlerHolds(d, k)' <=> HandlerHolds(d, k)
    BY DEF HandlerHolds
  <1>2. \A n \in Keys, k \in Keys : SummaryHolds(n, k)' <=> SummaryHolds(n, k)
    BY DEF SummaryHolds
  <1>3. OneHolder'
    BY <1>1, <1>2 DEF ClaimInv, OneHolder
  <1>4. ClaimsKept'
    BY DEF ClaimInv, ClaimsKept
  <1> QED BY <1>3, <1>4 DEF ClaimInv

\* A handler lets go of its session.
LEMMA HandlerLetsGo ==
  ASSUME TypeOK, ClaimInv, NEW c \in Conns, conn[c].at \in HoldingAt,
         UNCHANGED <<summary, closed>>,
         rewinding' = [rewinding EXCEPT ![conn[c].key] = FALSE],
         conn'[c].at \notin HoldingAt, conn'[c].claim = None,
         \A d \in Conns \ {c} : conn'[d] = conn[d]
  PROVE  ClaimInv'
  <1>1. conn[c].key \in Keys /\ HandlerHolds(c, conn[c].key)
    BY HandlerUpdate DEF HandlerHolds, HoldingAt, Working
  <1>2. /\ \A d \in Conns \ {c}, k \in Keys : HandlerHolds(d, k)' <=> HandlerHolds(d, k)
        /\ \A k \in Keys : ~HandlerHolds(c, k)'
        /\ \A k \in Keys \ {conn[c].key} : ~HandlerHolds(c, k)
    BY DEF HandlerHolds
  <1>3. \A n \in Keys, k \in Keys : SummaryHolds(n, k)' <=> SummaryHolds(n, k)
    BY DEF SummaryHolds
  <1>4. /\ ~rewinding'[conn[c].key]
        /\ \A k \in Keys \ {conn[c].key} : rewinding'[k] = rewinding[k]
    BY <1>1 DEF TypeOK
  <1>5. OneHolder'
    BY <1>1, <1>2, <1>3, <1>4 DEF ClaimInv, OneHolder
  <1>6. ClaimsKept'
    BY DEF ClaimInv, ClaimsKept
  <1> QED BY <1>5, <1>6 DEF ClaimInv

\* A summary takes an idle session; its handler, if any, keeps the number.
LEMMA SummaryTakes ==
  ASSUME TypeOK, ClaimInv, NEW k \in Keys, ~rewinding[k], NEW n \in Fresh,
         UNCHANGED closed, rewinding' = [rewinding EXCEPT ![k] = TRUE],
         SummaryHolds(n, k)', \A o \in Keys \ {n} : summary'[o] = summary[o],
         \A c \in Conns, j \in Keys : HandlerHolds(c, j)' <=> HandlerHolds(c, j)
  PROVE  OneHolder'
  <1>1. n \in Keys /\ \A j \in Keys : ~SummaryHolds(n, j)
    BY DEF Fresh, SummaryHolds
  <1>3. /\ \A o \in Keys \ {n}, j \in Keys : SummaryHolds(o, j)' <=> SummaryHolds(o, j)
        /\ \A j \in Keys \ {k} : ~SummaryHolds(n, j)'
    BY DEF SummaryHolds
  <1>4. rewinding'[k] /\ \A j \in Keys \ {k} : rewinding'[j] = rewinding[j]
    BY DEF TypeOK
  <1> QED BY <1>1, <1>3, <1>4 DEF ClaimInv, OneHolder

\* A summary that was asking for its session lets go of it.
LEMMA SummaryLetsGo ==
  ASSUME TypeOK, ClaimInv, NEW n \in Keys, summary[n].at = "asking",
         UNCHANGED <<closed, conn>>,
         rewinding' = [rewinding EXCEPT ![summary[n].of] = FALSE],
         summary'[n].at \in {"idle", "moving"},
         \A o \in Keys \ {n} : summary'[o] = summary[o]
  PROVE  ClaimInv'
  <1>1. summary[n].of \in Keys /\ SummaryHolds(n, summary[n].of)
    BY SummaryUpdate DEF SummaryHolds
  <1>2. \A c \in Conns, k \in Keys : HandlerHolds(c, k)' <=> HandlerHolds(c, k)
    BY DEF HandlerHolds
  <1>3. /\ \A o \in Keys \ {n}, k \in Keys : SummaryHolds(o, k)' <=> SummaryHolds(o, k)
        /\ \A k \in Keys : ~SummaryHolds(n, k)'
        /\ \A k \in Keys \ {summary[n].of} : ~SummaryHolds(n, k)
    BY DEF SummaryHolds
  <1>4. /\ ~rewinding'[summary[n].of]
        /\ \A k \in Keys \ {summary[n].of} : rewinding'[k] = rewinding[k]
    BY <1>1 DEF TypeOK
  <1>5. OneHolder'
    BY <1>1, <1>2, <1>3, <1>4 DEF ClaimInv, OneHolder
  <1>6. \A c \in Conns : conn[c].claim # None => conn[c].claim \in Keys \ {n}
    BY HandlerUpdate DEF ClaimInv, ClaimsKept
  <1>7. ClaimsKept'
    BY <1>6 DEF ClaimInv, ClaimsKept
  <1> QED BY <1>5, <1>7 DEF ClaimInv

\* Every step keeps each claim with exactly one holder.
LEMMA HolderStep ==
  TypeOK /\ ClaimInv /\ [Next]_vars => ClaimInv'
  <1> SUFFICES ASSUME TypeOK, ClaimInv, [Next]_vars
               PROVE  ClaimInv'
    OBVIOUS
  <1>1. ASSUME NEW c \in Conns, NEW k \in Keys, Connect(c, k) PROVE ClaimInv'
    <2>1. UNCHANGED <<rewinding, summary, closed>>
      BY <1>1 DEF Connect, sessionVars
    <2>2. conn[c].at \notin HoldingAt /\ conn[c].claim = None
      BY <1>1, RestingClaimsNothing DEF Connect, Serving, Resting, HoldingAt, ClaimInv, ClaimsKept
    <2>3. conn'[c].at \notin HoldingAt /\ conn'[c].claim = None
      BY <1>1, <2>2 DEF Connect, NotConnected, HoldingAt, TypeOK
    <2>4. \A d \in Conns \ {c} : conn'[d] = conn[d]
      BY <1>1 DEF Connect, TypeOK
    <2> QED BY <2>1, <2>2, <2>3, <2>4, OthersKeepTheirs
  <1>2. ASSUME NEW c \in Conns, Leave(c) PROVE ClaimInv'
    <2>1. \A d \in Conns :
            /\ conn'[d].at = conn[d].at /\ conn'[d].key = conn[d].key
            /\ conn'[d].claim = conn[d].claim
      BY <1>2 DEF Leave, TypeOK, Handler
    <2>2. UNCHANGED <<rewinding, summary, closed>>
      BY <1>2 DEF Leave, sessionVars
    <2> QED BY <2>1, <2>2 DEF ClaimInv, OneHolder, ClaimsKept, HandlerHolds, SummaryHolds
  <1>3. ASSUME NEW c \in Conns, Disconnect(c) PROVE ClaimInv'
    <2>1. UNCHANGED <<rewinding, summary, closed>>
      BY <1>3 DEF Disconnect, sessionVars
    <2>2. conn[c].at \notin HoldingAt /\ conn[c].claim = None
      BY <1>3, RestingClaimsNothing DEF Disconnect, Serving, Resting, HoldingAt, ClaimInv, ClaimsKept
    <2>3. conn'[c].at \notin HoldingAt /\ conn'[c].claim = None
      BY <1>3, <2>2 DEF Disconnect, NotConnected, HoldingAt, TypeOK
    <2>4. \A d \in Conns \ {c} : conn'[d] = conn[d]
      BY <1>3 DEF Disconnect, TypeOK
    <2> QED BY <2>1, <2>2, <2>3, <2>4, OthersKeepTheirs
  <1>4. ASSUME NEW c \in Conns, NEW k \in Keys, Switch(c, k) PROVE ClaimInv'
    BY <1>4 DEF Switch, ClaimInv, OneHolder, ClaimsKept, HandlerHolds, SummaryHolds, sessionVars, steerVars
  <1>5. ASSUME NEW c \in Conns, NEW k \in Keys, NEW m \in Msgs, Submit(c, k, m) PROVE ClaimInv'
    <2>1. UNCHANGED <<rewinding, summary, closed>>
      BY <1>5 DEF Submit, sessionVars
    <2>2. conn[c].at \notin HoldingAt /\ conn[c].claim = None
      BY <1>5, RestingClaimsNothing DEF Submit, Serving, Resting, HoldingAt, ClaimInv, ClaimsKept
    <2>3. conn'[c].at \notin HoldingAt /\ conn'[c].claim = None
      BY <1>5, <2>2 DEF Submit, NotConnected, HoldingAt, TypeOK
    <2>4. \A d \in Conns \ {c} : conn'[d] = conn[d]
      BY <1>5 DEF Submit, TypeOK
    <2> QED BY <2>1, <2>2, <2>3, <2>4, OthersKeepTheirs
  <1>6. ASSUME NEW c \in Conns, Check(c) PROVE ClaimInv'
    <2>0. PICK k \in Keys : k = conn[c].key
      BY <1>6, HandlerUpdate DEF Check, Working
    <2>1. CASE conn' = [conn EXCEPT ![c].at = "push"] /\ UNCHANGED <<rewinding, summary>>
      <3>1. /\ conn[c].at \notin HoldingAt /\ conn[c].claim = None
            /\ conn'[c].at \notin HoldingAt /\ conn'[c].claim = None
            /\ \A d \in Conns \ {c} : conn'[d] = conn[d]
        BY <1>6, <2>1 DEF Check, HoldingAt, ClaimInv, ClaimsKept, TypeOK, Handler
      <3>2. UNCHANGED <<rewinding, summary, closed>>
        BY <1>6, <2>1 DEF Check
      <3> QED BY <3>1, <3>2, OthersKeepTheirs
    <2>2. CASE ~(conn' = [conn EXCEPT ![c].at = "push"] /\ UNCHANGED <<rewinding, summary>>)
      <3>1. PICK n \in Fresh :
              /\ summary' = [summary EXCEPT ![n] =
                   [at |-> "claimed", of |-> k, clients |-> {}]]
              /\ conn' = [conn EXCEPT ![c] = [conn[c] EXCEPT !.at = "push", !.claim = n]]
        BY <1>6, <2>0, <2>2 DEF Check
      <3>2. conn[c].at = "check" /\ UNCHANGED closed
        BY <1>6 DEF Check
      <3>3. rewinding' = [rewinding EXCEPT ![k] = TRUE] /\ ~rewinding[k]
        BY <1>6, <2>0, <2>2 DEF Check, BeginRewind, Idle
      <3>4. n \in Keys /\ summary[n].at = "idle"
        BY DEF Fresh
      <3>5. /\ summary'[n].at = "claimed" /\ summary'[n].of = k
            /\ \A o \in Keys \ {n} : summary'[o] = summary[o]
        BY <3>1, <3>4 DEF TypeOK
      <3>6. conn \in [Conns -> Handler] /\ conn[c] \in Handler
        BY DEF TypeOK
      <3>7. /\ conn'[c] = [conn[c] EXCEPT !.at = "push", !.claim = n]
            /\ \A d \in Conns \ {c} : conn'[d] = conn[d]
        BY <3>1, <3>6
      <3>8. conn'[c].at = "push" /\ conn'[c].key = k /\ conn'[c].claim = n
        BY <2>0, <3>6, <3>7 DEF Handler
      <3>9. \A d \in Conns, j \in Keys : HandlerHolds(d, j)' <=> HandlerHolds(d, j)
        BY <2>0, <3>2, <3>7, <3>8 DEF HandlerHolds, HoldingAt
      <3>10. SummaryHolds(n, k)'
        BY <3>5 DEF SummaryHolds
      <3>11. OneHolder'
        BY <3>2, <3>3, <3>5, <3>9, <3>10, SummaryTakes
      <3>12. \A d \in Conns : conn[d].claim # n
        BY <3>4, NoneIsNoSession DEF ClaimInv, ClaimsKept
      <3>13. ClaimsKept'
        <4> SUFFICES ASSUME NEW d \in Conns, conn'[d].claim # None
                     PROVE  /\ conn'[d].at = "push"
                            /\ summary'[conn'[d].claim].at = "claimed"
                            /\ summary'[conn'[d].claim].of = conn'[d].key
                            /\ \A e \in Conns \ {d} : conn'[e].claim # conn'[d].claim
          BY DEF ClaimsKept
        <4>1. CASE d = c
          BY <2>0, <3>5, <3>7, <3>8, <3>12, <4>1
        <4>2. CASE d # c
          <5>1. conn'[d] = conn[d] /\ conn[d].claim \in Keys /\ conn[d].claim # n
            BY <3>7, <3>12, <4>2, ClaimsAreKeys
          <5>2. summary'[conn[d].claim] = summary[conn[d].claim]
            BY <3>5, <5>1
          <5>3. conn[d].claim # None
            BY <5>1
          <5>4. /\ conn[d].at = "push" /\ summary[conn[d].claim].at = "claimed"
                /\ summary[conn[d].claim].of = conn[d].key
                /\ \A e \in Conns \ {d} : conn[e].claim # conn[d].claim
            BY <5>3 DEF ClaimInv, ClaimsKept
          <5>5. \A e \in Conns \ {d} : conn'[e].claim # conn'[d].claim
            BY <3>7, <3>8, <5>1, <5>4
          <5> QED BY <5>1, <5>2, <5>4, <5>5
        <4> QED BY <4>1, <4>2
      <3> QED BY <3>11, <3>13 DEF ClaimInv
    <2> QED BY <2>1, <2>2
  <1>7. ASSUME NEW c \in Conns, Push(c) PROVE ClaimInv'
    <2>1. /\ conn[c].key \in Keys /\ conn[c].claim \in Keys \cup {None}
          /\ conn[c].at = "push" /\ UNCHANGED <<rewinding, closed>>
      BY <1>7, HandlerUpdate DEF Push, Working
    <2>2. /\ conn'[c].at \notin HoldingAt /\ conn'[c].claim = None
          /\ \A d \in Conns \ {c} : conn'[d] = conn[d]
      BY <1>7 DEF Push, Ready, Go, HoldingAt, TypeOK
    <2>3. CASE conn[c].claim = None
      <3>1. UNCHANGED summary
        BY <1>7, <2>3 DEF Push
      <3> QED BY <2>1, <2>2, <2>3, <3>1, OthersKeepTheirs DEF HoldingAt
    <2>4. CASE conn[c].claim # None
      <3>1. /\ summary'[conn[c].claim].at = "asking" /\ summary'[conn[c].claim].of = conn[c].key
            /\ \A n \in Keys \ {conn[c].claim} : summary'[n] = summary[n]
        BY <1>7, <2>1, <2>4 DEF Push, TypeOK
      <3>2. \A d \in Conns, k \in Keys : HandlerHolds(d, k)' <=> HandlerHolds(d, k)
        BY <2>1, <2>2 DEF HandlerHolds, HoldingAt
      <3>3. \A n \in Keys, k \in Keys : SummaryHolds(n, k)' <=> SummaryHolds(n, k)
        BY <2>1, <2>4, <3>1 DEF SummaryHolds, ClaimInv, ClaimsKept
      <3>4. OneHolder'
        BY <2>1, <3>2, <3>3 DEF ClaimInv, OneHolder
      <3>5. ClaimsKept'
        BY <2>1, <2>2, <2>4, <3>1, ClaimsAreKeys DEF ClaimInv, ClaimsKept
      <3> QED BY <3>4, <3>5 DEF ClaimInv
    <2> QED BY <2>3, <2>4
  <1>8. ASSUME NEW c \in Conns, DrainStep(c) PROVE ClaimInv'
    <2>1. UNCHANGED <<rewinding, summary, closed>>
      BY <1>8 DEF DrainStep, sessionVars
    <2>2. conn[c].at \notin HoldingAt /\ conn[c].claim = None
      BY <1>8, RestingClaimsNothing DEF DrainStep, Serving, Resting, HoldingAt, ClaimInv, ClaimsKept
    <2>3. conn'[c].at \notin HoldingAt /\ conn'[c].claim = None
      BY <1>8, <2>2 DEF DrainStep, Ready, Go, NotConnected, HoldingAt, TypeOK
    <2>4. \A d \in Conns \ {c} : conn'[d] = conn[d]
      BY <1>8 DEF DrainStep, Ready, Go, TypeOK
    <2> QED BY <2>1, <2>2, <2>3, <2>4, OthersKeepTheirs
  <1>9. ASSUME NEW c \in Conns, NEW k \in Keys, NEW m \in Steers, Steer(c, k, m) PROVE ClaimInv'
    <2>1. UNCHANGED <<rewinding, summary, closed>>
      BY <1>9 DEF Steer, sessionVars
    <2>2. conn[c].at \notin HoldingAt /\ conn[c].claim = None
      BY <1>9, RestingClaimsNothing DEF Steer, Serving, Resting, HoldingAt, ClaimInv, ClaimsKept
    <2>5. /\ Go(c, "push", k, m)[c].at = "push" /\ Go(c, "push", k, m)[c].claim = None
          /\ \A d \in Conns \ {c} : Go(c, "push", k, m)[d] = conn[d]
      BY GoOne DEF Working, Ids
    <2>3. conn'[c].at \notin HoldingAt /\ conn'[c].claim = None
      BY <1>9, <2>2, <2>5 DEF Steer, HoldingAt
    <2>4. \A d \in Conns \ {c} : conn'[d] = conn[d]
      BY <1>9, <2>5 DEF Steer
    <2> QED BY <2>1, <2>2, <2>3, <2>4, OthersKeepTheirs
  <1>10. ASSUME NEW c \in Conns, NEW k \in Keys, Rewind(c, k) PROVE ClaimInv'
    <2>1. CASE Idle(k)
      <3>1. /\ conn[c].at \notin HoldingAt /\ conn[c].claim = None /\ ~rewinding[k]
            /\ UNCHANGED <<summary, closed>>
        BY <1>10, <2>1, RestingClaimsNothing DEF Rewind, Serving, Resting, HoldingAt, Idle
      <3>2. /\ rewinding'[k] /\ \A j \in Keys \ {k} : rewinding'[j] = rewinding[j]
            /\ conn'[c].at \in HoldingAt /\ conn'[c].key = k /\ conn'[c].claim = None
            /\ \A d \in Conns \ {c} : conn'[d] = conn[d]
        BY <1>10, <2>1, GoOne DEF Rewind, BeginRewind, HoldingAt, TypeOK, Working
      <3>3. /\ \A d \in Conns \ {c}, j \in Keys : HandlerHolds(d, j)' <=> HandlerHolds(d, j)
            /\ \A j \in Keys : ~HandlerHolds(c, j) /\ (HandlerHolds(c, j)' <=> j = k)
        BY <3>1, <3>2 DEF HandlerHolds
      <3>4. \A n \in Keys, j \in Keys : SummaryHolds(n, j)' <=> SummaryHolds(n, j)
        BY <3>1 DEF SummaryHolds
      <3>5. OneHolder'
        BY <3>1, <3>2, <3>3, <3>4 DEF ClaimInv, OneHolder
      <3>6. ClaimsKept'
        BY <3>1, <3>2 DEF ClaimInv, ClaimsKept
      <3> QED BY <3>5, <3>6 DEF ClaimInv
    <2>2. CASE ~Idle(k)
      BY <1>10, <2>2 DEF Rewind, ClaimInv, OneHolder, ClaimsKept, HandlerHolds, SummaryHolds
    <2> QED BY <2>1, <2>2
  <1>11. ASSUME NEW c \in Conns, Cut(c) PROVE ClaimInv'
    <2>1. /\ conn[c].at \in HoldingAt /\ conn'[c].at \in HoldingAt
          /\ conn'[c].key = conn[c].key /\ conn'[c].claim = conn[c].claim
          /\ \A d \in Conns \ {c} : conn'[d] = conn[d]
      BY <1>11 DEF Cut, HoldingAt, TypeOK, Handler
    <2>2. UNCHANGED <<rewinding, summary, closed>>
      BY <1>11 DEF Cut, sessionVars
    <2>3. \A d \in Conns, k \in Keys : HandlerHolds(d, k)' <=> HandlerHolds(d, k)
      BY <2>1 DEF HandlerHolds
    <2>4. OneHolder'
      BY <2>2, <2>3 DEF ClaimInv, OneHolder, SummaryHolds
    <2>5. ClaimsKept'
      BY <2>1, <2>2 DEF ClaimInv, ClaimsKept, HoldingAt
    <2> QED BY <2>4, <2>5 DEF ClaimInv
  <1>12. ASSUME NEW c \in Conns, Rerun(c) PROVE ClaimInv'
    <2>1. conn[c].at \in HoldingAt /\ conn[c].claim = None /\ conn[c].key \in Keys
      BY <1>12, HandlerUpdate DEF Rerun, HoldingAt, Working, ClaimInv, ClaimsKept
    <2>2. /\ conn'[c].at \notin HoldingAt /\ conn'[c].claim = None
          /\ \A d \in Conns \ {c} : conn'[d] = conn[d]
      BY <1>12, <2>1 DEF Rerun, HoldingAt, TypeOK, Handler
    <2>3. CASE conn[c].key \in live
      <3>1. rewinding' = [rewinding EXCEPT ![conn[c].key] = FALSE] /\ UNCHANGED <<summary, closed>>
        BY <1>12, <2>3 DEF Rerun
      <3> QED BY <2>1, <2>2, <3>1, HandlerLetsGo
    <2>4. CASE conn[c].key \notin live
      <3>1. closed
        BY <2>1, <2>4 DEF ClaimInv, OneHolder, HandlerHolds, TypeOK, Dormant, Idle
      <3>2. UNCHANGED <<summary, closed>>
        BY <1>12 DEF Rerun
      <3>3. ClaimsKept'
        BY <2>1, <2>2, <3>2 DEF ClaimInv, ClaimsKept
      <3> QED BY <3>1, <3>2, <3>3 DEF ClaimInv, OneHolder
    <2> QED BY <2>3, <2>4
  <1>13. ASSUME NEW c \in Conns, Release(c) PROVE ClaimInv'
    <2>1. conn[c].at \in HoldingAt /\ conn[c].claim = None
      BY <1>13 DEF Release, HoldingAt, ClaimInv, ClaimsKept
    <2>2. /\ conn'[c].at \notin HoldingAt /\ conn'[c].claim = None
          /\ \A d \in Conns \ {c} : conn'[d] = conn[d]
      BY <1>13, <2>1 DEF Release, HoldingAt, TypeOK, Handler
    <2>3. rewinding' = [rewinding EXCEPT ![conn[c].key] = FALSE] /\ UNCHANGED <<summary, closed>>
      BY <1>13 DEF Release
    <2> QED BY <2>1, <2>2, <2>3, HandlerLetsGo
  <1>14. ASSUME NEW c \in Conns, NEW k \in Keys, Compact(c, k) PROVE ClaimInv'
    <2>1. CASE Idle(k)
      <3>1. PICK n \in Fresh : summary' = [summary EXCEPT ![n] =
                                 [at |-> "asking", of |-> k, clients |-> {}]]
        BY <1>14, <2>1 DEF Compact
      <3>2. n \in Keys /\ summary[n].at = "idle"
        BY DEF Fresh
      <3>3. SummaryHolds(n, k)' /\ \A o \in Keys \ {n} : summary'[o] = summary[o]
        BY <3>1, <3>2 DEF SummaryHolds, TypeOK
      <3>4. /\ rewinding' = [rewinding EXCEPT ![k] = TRUE] /\ ~rewinding[k]
            /\ UNCHANGED <<conn, closed>>
        BY <1>14, <2>1 DEF Compact, BeginRewind, Idle
      <3>5. OneHolder'
        BY <3>3, <3>4, SummaryTakes DEF HandlerHolds
      <3>6. ClaimsKept'
        BY <3>2, <3>3, <3>4, ClaimsAreKeys DEF ClaimInv, ClaimsKept
      <3> QED BY <3>5, <3>6 DEF ClaimInv
    <2>2. CASE ~Idle(k)
      BY <1>14, <2>2 DEF Compact, ClaimInv, OneHolder, ClaimsKept, HandlerHolds, SummaryHolds
    <2> QED BY <2>1, <2>2
  <1>15. ASSUME NEW n \in Keys, SummaryFails(n) PROVE ClaimInv'
    <2>1. /\ summary[n].at = "asking" /\ UNCHANGED <<closed, conn>>
          /\ rewinding' = [rewinding EXCEPT ![summary[n].of] = FALSE]
      BY <1>15 DEF SummaryFails
    <2>2. /\ summary'[n].at \in {"idle", "moving"}
          /\ \A o \in Keys \ {n} : summary'[o] = summary[o]
      BY <1>15 DEF SummaryFails, NoSummary, TypeOK
    <2> QED BY <2>1, <2>2, SummaryLetsGo
  <1>16. ASSUME NEW n \in Keys, SummaryMoves(n) PROVE ClaimInv'
    <2>1. /\ summary[n].at = "asking" /\ UNCHANGED <<closed, conn>>
          /\ rewinding' = [rewinding EXCEPT ![summary[n].of] = FALSE]
      BY <1>16 DEF SummaryMoves
    <2>2. /\ summary'[n].at \in {"idle", "moving"}
          /\ \A o \in Keys \ {n} : summary'[o] = summary[o]
      BY <1>16 DEF SummaryMoves, NoSummary, TypeOK
    <2> QED BY <2>1, <2>2, SummaryLetsGo
  <1>17. ASSUME NEW n \in Keys, MoveClient(n) PROVE ClaimInv'
    <2>1. /\ summary[n].at = "moving" /\ summary'[n].at \in {"idle", "moving"}
          /\ \A o \in Keys \ {n} : summary'[o] = summary[o]
          /\ UNCHANGED <<conn, rewinding, closed>>
      BY <1>17 DEF MoveClient, NoSummary, sessionVars, TypeOK, Summary
    <2>2. \A c \in Conns, k \in Keys : HandlerHolds(c, k)' <=> HandlerHolds(c, k)
      BY <2>1 DEF HandlerHolds
    <2>3. \A o \in Keys, k \in Keys : SummaryHolds(o, k)' <=> SummaryHolds(o, k)
      BY <2>1 DEF SummaryHolds
    <2>4. OneHolder'
      BY <2>1, <2>2, <2>3 DEF ClaimInv, OneHolder
    <2>5. ClaimsKept'
      BY <2>1, ClaimsAreKeys DEF ClaimInv, ClaimsKept
    <2> QED BY <2>4, <2>5 DEF ClaimInv
  <1>18. ASSUME NEW n \in Keys, SummaryEnds(n) PROVE ClaimInv'
    <2>1. /\ summary[n].at = "moving" /\ summary'[n].at \in {"idle", "moving"}
          /\ \A o \in Keys \ {n} : summary'[o] = summary[o]
          /\ UNCHANGED <<conn, rewinding, closed>>
      BY <1>18 DEF SummaryEnds, NoSummary, sessionVars, TypeOK, Summary
    <2>2. \A c \in Conns, k \in Keys : HandlerHolds(c, k)' <=> HandlerHolds(c, k)
      BY <2>1 DEF HandlerHolds
    <2>3. \A o \in Keys, k \in Keys : SummaryHolds(o, k)' <=> SummaryHolds(o, k)
      BY <2>1 DEF SummaryHolds
    <2>4. OneHolder'
      BY <2>1, <2>2, <2>3 DEF ClaimInv, OneHolder
    <2>5. ClaimsKept'
      BY <2>1, ClaimsAreKeys DEF ClaimInv, ClaimsKept
    <2> QED BY <2>4, <2>5 DEF ClaimInv
  <1>19. ASSUME NEW c \in Conns, NEW k \in Keys, StopRunning(c, k) PROVE ClaimInv'
    BY <1>19 DEF StopRunning, ClaimInv, OneHolder, ClaimsKept, HandlerHolds, SummaryHolds, sessionVars, steerVars
  <1>20. ASSUME NEW c \in Conns, NEW k \in Keys, StopQueued(c, k) PROVE ClaimInv'
    BY <1>20 DEF StopQueued, ClaimInv, OneHolder, ClaimsKept, HandlerHolds, SummaryHolds, sessionVars, steerVars
  <1>21. ASSUME NEW s \in Slots, OpenTurn(s) PROVE ClaimInv'
    BY <1>21 DEF OpenTurn, ClaimInv, OneHolder, ClaimsKept, HandlerHolds, SummaryHolds, sessionVars, steerVars
  <1>22. ASSUME NEW s \in Slots, ReadSteer(s) PROVE ClaimInv'
    BY <1>22 DEF ReadSteer, ClaimInv, OneHolder, ClaimsKept, HandlerHolds, SummaryHolds, sessionVars, steerVars
  <1>23. ASSUME NEW s \in Slots, EndLoop(s) PROVE ClaimInv'
    BY <1>23 DEF EndLoop, ClaimInv, OneHolder, ClaimsKept, HandlerHolds, SummaryHolds, sessionVars, steerVars
  <1>24. ASSUME NEW s \in Slots, Settle(s) PROVE ClaimInv'
    BY <1>24 DEF Settle, ClaimInv, OneHolder, ClaimsKept, HandlerHolds, SummaryHolds, sessionVars, steerVars
  <1>25. ASSUME NEW k \in Keys, TaskDrains(k) PROVE ClaimInv'
    BY <1>25 DEF TaskDrains, ClaimInv, OneHolder, ClaimsKept, HandlerHolds, SummaryHolds, sessionVars, steerVars
  <1>26. ASSUME NEW p \in Posts, NEW k \in Keys, Post(p, k) PROVE ClaimInv'
    BY <1>26 DEF Post, ClaimInv, OneHolder, ClaimsKept, HandlerHolds, SummaryHolds, sessionVars, steerVars
  <1>27. ASSUME NEW k \in Keys, Evict(k) PROVE ClaimInv'
    BY <1>27 DEF Evict, ClaimInv, OneHolder, ClaimsKept, HandlerHolds, SummaryHolds, sessionVars, steerVars
  <1>28. ASSUME Close PROVE ClaimInv'
    BY <1>28, HandlerUpdate DEF Close, ClaimInv, OneHolder, ClaimsKept
  <1>29. CASE UNCHANGED vars
    BY <1>29 DEF vars, ClaimInv, OneHolder, ClaimsKept, HandlerHolds, SummaryHolds, sessionVars, steerVars, ghostVars
  <1> QED
    BY <1>1, <1>2, <1>3, <1>4, <1>5, <1>6, <1>7, <1>8, <1>9, <1>10, <1>11, <1>12, <1>13, <1>14, <1>15, <1>16, <1>17, <1>18, <1>19, <1>20, <1>21, <1>22, <1>23, <1>24, <1>25, <1>26, <1>27, <1>28, <1>29
       DEF Next, HandlerStep, TurnStep, SummaryStep, Frame

-----------------------------------------------------------------------------
(* Steering *)

\* A drain that starts a turn gives the session what its steering needs.
LEMMA DrainKeepsSteering ==
  ASSUME TypeOK, SteeringFollowsTurn, NEW k \in Keys, Drain(k), UNCHANGED <<closed, steering>>
  PROVE  SteeringFollowsTurn'
  <1>1. CASE ~CanDrain(k)
    BY <1>1 DEF Drain, SteeringFollowsTurn
  <1>2. CASE CanDrain(k)
    BY <1>2, DrainStarts, NoneIsNoSlot DEF SteeringFollowsTurn
  <1> QED BY <1>1, <1>2

\* Every step keeps steering with a turn to read it.
LEMMA SteeringStep ==
  TypeOK /\ SteeringFollowsTurn /\ [Next]_vars => SteeringFollowsTurn'
  <1> SUFFICES ASSUME TypeOK, SteeringFollowsTurn, [Next]_vars
               PROVE  SteeringFollowsTurn'
    OBVIOUS
  <1>1. ASSUME NEW c \in Conns, NEW k \in Keys, Connect(c, k) PROVE SteeringFollowsTurn'
    BY <1>1 DEF Connect, SteeringFollowsTurn, TypeOK, sessionVars, steerVars, ghostVars
  <1>2. ASSUME NEW c \in Conns, Leave(c) PROVE SteeringFollowsTurn'
    BY <1>2 DEF Leave, SteeringFollowsTurn, TypeOK, sessionVars, steerVars, ghostVars
  <1>3. ASSUME NEW c \in Conns, Disconnect(c) PROVE SteeringFollowsTurn'
    BY <1>3 DEF Disconnect, SteeringFollowsTurn, TypeOK, sessionVars, steerVars, ghostVars
  <1>4. ASSUME NEW c \in Conns, NEW k \in Keys, Switch(c, k) PROVE SteeringFollowsTurn'
    BY <1>4 DEF Switch, SteeringFollowsTurn, TypeOK, sessionVars, steerVars, ghostVars
  <1>5. ASSUME NEW c \in Conns, NEW k \in Keys, NEW m \in Msgs, Submit(c, k, m) PROVE SteeringFollowsTurn'
    BY <1>5 DEF Submit, SteeringFollowsTurn, TypeOK, sessionVars, steerVars, ghostVars
  <1>6. ASSUME NEW c \in Conns, Check(c) PROVE SteeringFollowsTurn'
    BY <1>6 DEF Check, SteeringFollowsTurn, TypeOK, sessionVars, steerVars, ghostVars
  <1>7. ASSUME NEW c \in Conns, Push(c) PROVE SteeringFollowsTurn'
    BY <1>7 DEF Push, SteeringFollowsTurn, TypeOK, sessionVars, steerVars, ghostVars
  <1>8. ASSUME NEW c \in Conns, DrainStep(c) PROVE SteeringFollowsTurn'
    <2>1. conn[c].key \in Keys
      BY <1>8, HandlerUpdate DEF DrainStep, Working
    <2> QED BY <1>8, <2>1, DrainKeepsSteering DEF DrainStep
  <1>9. ASSUME NEW c \in Conns, NEW k \in Keys, NEW m \in Steers, Steer(c, k, m) PROVE SteeringFollowsTurn'
    BY <1>9 DEF Steer, SteeringFollowsTurn, TypeOK, sessionVars, steerVars, ghostVars
  <1>10. ASSUME NEW c \in Conns, NEW k \in Keys, Rewind(c, k) PROVE SteeringFollowsTurn'
    BY <1>10 DEF Rewind, SteeringFollowsTurn, TypeOK, sessionVars, steerVars, ghostVars
  <1>11. ASSUME NEW c \in Conns, Cut(c) PROVE SteeringFollowsTurn'
    BY <1>11 DEF Cut, SteeringFollowsTurn, TypeOK, sessionVars, steerVars, ghostVars
  <1>12. ASSUME NEW c \in Conns, Rerun(c) PROVE SteeringFollowsTurn'
    BY <1>12 DEF Rerun, SteeringFollowsTurn, TypeOK, sessionVars, steerVars, ghostVars
  <1>13. ASSUME NEW c \in Conns, Release(c) PROVE SteeringFollowsTurn'
    BY <1>13 DEF Release, SteeringFollowsTurn, TypeOK, sessionVars, steerVars, ghostVars
  <1>14. ASSUME NEW c \in Conns, NEW k \in Keys, Compact(c, k) PROVE SteeringFollowsTurn'
    BY <1>14 DEF Compact, SteeringFollowsTurn, TypeOK, sessionVars, steerVars, ghostVars
  <1>15. ASSUME NEW n \in Keys, SummaryFails(n) PROVE SteeringFollowsTurn'
    BY <1>15 DEF SummaryFails, SteeringFollowsTurn, TypeOK, sessionVars, steerVars, ghostVars
  <1>16. ASSUME NEW n \in Keys, SummaryMoves(n) PROVE SteeringFollowsTurn'
    BY <1>16 DEF SummaryMoves, SteeringFollowsTurn, TypeOK, sessionVars, steerVars, ghostVars
  <1>17. ASSUME NEW n \in Keys, MoveClient(n) PROVE SteeringFollowsTurn'
    BY <1>17 DEF MoveClient, SteeringFollowsTurn, TypeOK, sessionVars, steerVars, ghostVars
  <1>18. ASSUME NEW n \in Keys, SummaryEnds(n) PROVE SteeringFollowsTurn'
    BY <1>18 DEF SummaryEnds, SteeringFollowsTurn, TypeOK, sessionVars, steerVars, ghostVars
  <1>19. ASSUME NEW c \in Conns, NEW k \in Keys, StopRunning(c, k) PROVE SteeringFollowsTurn'
    BY <1>19 DEF StopRunning, SteeringFollowsTurn, TypeOK, sessionVars, steerVars, ghostVars
  <1>20. ASSUME NEW c \in Conns, NEW k \in Keys, StopQueued(c, k) PROVE SteeringFollowsTurn'
    BY <1>20 DEF StopQueued, SteeringFollowsTurn, TypeOK, sessionVars, steerVars, ghostVars
  <1>21. ASSUME NEW s \in Slots, OpenTurn(s) PROVE SteeringFollowsTurn'
    BY <1>21 DEF OpenTurn, SteeringFollowsTurn, TypeOK, sessionVars, steerVars, ghostVars
  <1>22. ASSUME NEW s \in Slots, ReadSteer(s) PROVE SteeringFollowsTurn'
    BY <1>22 DEF ReadSteer, SteeringFollowsTurn, TypeOK, sessionVars, steerVars, ghostVars
  <1>23. ASSUME NEW s \in Slots, EndLoop(s) PROVE SteeringFollowsTurn'
    BY <1>23 DEF EndLoop, SteeringFollowsTurn, TypeOK, sessionVars, steerVars, ghostVars
  <1>24. ASSUME NEW s \in Slots, Settle(s) PROVE SteeringFollowsTurn'
    BY <1>24 DEF Settle, CloseSteering, SteeringFollowsTurn, TypeOK, sessionVars, steerVars, ghostVars
  <1>25. ASSUME NEW k \in Keys, TaskDrains(k) PROVE SteeringFollowsTurn'
    BY <1>25, DrainKeepsSteering DEF TaskDrains
  <1>26. ASSUME NEW p \in Posts, NEW k \in Keys, Post(p, k) PROVE SteeringFollowsTurn'
    BY <1>26 DEF Post, SteeringFollowsTurn, TypeOK, sessionVars, steerVars, ghostVars
  <1>27. ASSUME NEW k \in Keys, Evict(k) PROVE SteeringFollowsTurn'
    BY <1>27 DEF Evict, SteeringFollowsTurn, TypeOK, sessionVars, steerVars, ghostVars
  <1>28. ASSUME Close PROVE SteeringFollowsTurn'
    BY <1>28 DEF Close, SteeringFollowsTurn, TypeOK, sessionVars, steerVars, ghostVars
  <1>29. CASE UNCHANGED vars
    BY <1>29 DEF vars, SteeringFollowsTurn, TypeOK, sessionVars, steerVars, ghostVars
  <1> QED
    BY <1>1, <1>2, <1>3, <1>4, <1>5, <1>6, <1>7, <1>8, <1>9, <1>10, <1>11, <1>12, <1>13, <1>14, <1>15, <1>16, <1>17, <1>18, <1>19, <1>20, <1>21, <1>22, <1>23, <1>24, <1>25, <1>26, <1>27, <1>28, <1>29
       DEF Next, HandlerStep, TurnStep, SummaryStep, Frame

-----------------------------------------------------------------------------
(* A waiting queue is on its way *)

\* Who is on the way to drain stays on the way until it has.
LEMMA DrainsStay ==
  ASSUME \A d \in Conns : conn[d].at = "drain" =>
           conn'[d].at = "drain" /\ conn'[d].key = conn[d].key,
         \A n \in Keys : summary[n].at = "moving" => summary'[n].at = "moving",
         draining \subseteq draining'
  PROVE  \A k \in Keys : Drains(k) => Drains(k)'
  BY DEF Drains

\* A drain leaves its own session's queue empty, or a turn that will drain it.
LEMMA DrainStrandsNothing ==
  ASSUME TypeOK, NoStrandedQueue, NEW k \in Keys, Drain(k), UNCHANGED rewinding,
         \A j \in Keys \ {k} : Drains(j) => Drains(j)'
  PROVE  NoStrandedQueue'
  <1>1. CASE ~CanDrain(k)
    BY <1>1 DEF Drain, CanDrain, NoStrandedQueue, TypeOK, Dormant, Idle
  <1>2. CASE CanDrain(k)
    BY <1>2, DrainStarts, NoneIsNoSlot DEF NoStrandedQueue
  <1> QED BY <1>1, <1>2

\* Every step keeps somebody responsible for each queue.
LEMMA StrandedStep ==
  TypeOK /\ ClaimInv /\ NoStrandedQueue /\ [Next]_vars => NoStrandedQueue'
  <1> SUFFICES ASSUME TypeOK, ClaimInv, NoStrandedQueue, [Next]_vars
               PROVE  NoStrandedQueue'
    OBVIOUS
  <1>1. ASSUME NEW c \in Conns, NEW k \in Keys, Connect(c, k) PROVE NoStrandedQueue'
    <2>1. \A d \in Conns : conn[d].at = "drain" =>
            conn'[d].at = "drain" /\ conn'[d].key = conn[d].key
      BY <1>1 DEF Connect, TypeOK
    <2>2. /\ \A n \in Keys : summary[n].at = "moving" => summary'[n].at = "moving"
          /\ draining \subseteq draining'
      BY <1>1 DEF Connect, TypeOK
    <2>3. /\ UNCHANGED <<queue, running>>
          /\ \A j \in Keys : rewinding'[j] = rewinding[j] \/ rewinding'[j]
      BY <1>1 DEF Connect, BeginRewind, sessionVars, TypeOK
    <2> QED BY <2>1, <2>2, <2>3, DrainsStay DEF NoStrandedQueue
  <1>2. ASSUME NEW c \in Conns, Leave(c) PROVE NoStrandedQueue'
    <2>1. \A d \in Conns : conn[d].at = "drain" =>
            conn'[d].at = "drain" /\ conn'[d].key = conn[d].key
      BY <1>2 DEF Leave, TypeOK, Handler
    <2>2. /\ \A n \in Keys : summary[n].at = "moving" => summary'[n].at = "moving"
          /\ draining \subseteq draining'
      BY <1>2 DEF Leave, TypeOK
    <2>3. /\ UNCHANGED <<queue, running>>
          /\ \A j \in Keys : rewinding'[j] = rewinding[j] \/ rewinding'[j]
      BY <1>2 DEF Leave, BeginRewind, sessionVars, TypeOK
    <2> QED BY <2>1, <2>2, <2>3, DrainsStay DEF NoStrandedQueue
  <1>3. ASSUME NEW c \in Conns, Disconnect(c) PROVE NoStrandedQueue'
    <2>1. \A d \in Conns : conn[d].at = "drain" =>
            conn'[d].at = "drain" /\ conn'[d].key = conn[d].key
      BY <1>3 DEF Disconnect, Serving, TypeOK
    <2>2. /\ \A n \in Keys : summary[n].at = "moving" => summary'[n].at = "moving"
          /\ draining \subseteq draining'
      BY <1>3 DEF Disconnect, TypeOK
    <2>3. /\ UNCHANGED <<queue, running>>
          /\ \A j \in Keys : rewinding'[j] = rewinding[j] \/ rewinding'[j]
      BY <1>3 DEF Disconnect, BeginRewind, sessionVars, TypeOK
    <2> QED BY <2>1, <2>2, <2>3, DrainsStay DEF NoStrandedQueue
  <1>4. ASSUME NEW c \in Conns, NEW k \in Keys, Switch(c, k) PROVE NoStrandedQueue'
    <2>1. \A d \in Conns : conn[d].at = "drain" =>
            conn'[d].at = "drain" /\ conn'[d].key = conn[d].key
      BY <1>4 DEF Switch
    <2>2. /\ \A n \in Keys : summary[n].at = "moving" => summary'[n].at = "moving"
          /\ draining \subseteq draining'
      BY <1>4 DEF Switch, TypeOK
    <2>3. /\ UNCHANGED <<queue, running>>
          /\ \A j \in Keys : rewinding'[j] = rewinding[j] \/ rewinding'[j]
      BY <1>4 DEF Switch, BeginRewind, sessionVars, TypeOK
    <2> QED BY <2>1, <2>2, <2>3, DrainsStay DEF NoStrandedQueue
  <1>5. ASSUME NEW c \in Conns, NEW k \in Keys, NEW m \in Msgs, Submit(c, k, m) PROVE NoStrandedQueue'
    <2>1. \A d \in Conns : conn[d].at = "drain" =>
            conn'[d].at = "drain" /\ conn'[d].key = conn[d].key
      BY <1>5 DEF Submit, Serving, TypeOK
    <2>2. /\ \A n \in Keys : summary[n].at = "moving" => summary'[n].at = "moving"
          /\ draining \subseteq draining'
      BY <1>5 DEF Submit, TypeOK
    <2>3. /\ UNCHANGED <<queue, running>>
          /\ \A j \in Keys : rewinding'[j] = rewinding[j] \/ rewinding'[j]
      BY <1>5 DEF Submit, BeginRewind, sessionVars, TypeOK
    <2> QED BY <2>1, <2>2, <2>3, DrainsStay DEF NoStrandedQueue
  <1>6. ASSUME NEW c \in Conns, Check(c) PROVE NoStrandedQueue'
    <2>1. \A d \in Conns : conn[d].at = "drain" =>
            conn'[d].at = "drain" /\ conn'[d].key = conn[d].key
      BY <1>6 DEF Check, TypeOK
    <2>2. /\ \A n \in Keys : summary[n].at = "moving" => summary'[n].at = "moving"
          /\ draining \subseteq draining'
      BY <1>6 DEF Check, Fresh, TypeOK
    <2>3. /\ UNCHANGED <<queue, running>>
          /\ \A j \in Keys : rewinding'[j] = rewinding[j] \/ rewinding'[j]
      BY <1>6 DEF Check, BeginRewind, sessionVars, TypeOK
    <2> QED BY <2>1, <2>2, <2>3, DrainsStay DEF NoStrandedQueue
  <1>7. ASSUME NEW c \in Conns, Push(c) PROVE NoStrandedQueue'
    <2>1. conn[c].key \in Keys /\ conn[c].at = "push"
      BY <1>7, HandlerUpdate DEF Push, Working
    <2> PICK k \in Keys : k = conn[c].key
      BY <2>1
    <2>2. \A d \in Conns : conn[d].at = "drain" =>
            conn'[d].at = "drain" /\ conn'[d].key = conn[d].key
      BY <1>7, <2>1 DEF Push, Ready, Go, TypeOK
    <2>3. \A n \in Keys : summary[n].at = "moving" => summary'[n].at = "moving"
      BY <1>7 DEF Push, ClaimInv, ClaimsKept, TypeOK
    <2>4. /\ UNCHANGED <<running, rewinding, draining>>
          /\ \A j \in Keys \ {k} : queue'[j] = queue[j]
      BY <1>7, <2>1 DEF Push, PushTurn, TypeOK
    <2>5. CASE Full(k) \/ running[k] # None
      <3>1. queue'[k] = queue[k] \/ running[k] # None
        BY <1>7, <2>5 DEF Push
      <3> QED BY <2>1, <2>2, <2>3, <2>4, <3>1, DrainsStay DEF NoStrandedQueue
    <2>6. CASE ~(Full(k) \/ running[k] # None)
      <3>1. conn' = Go(c, "drain", k, None)
        BY <1>7, <2>6 DEF Push
      <3>2. Drains(k)'
        BY <2>1, <3>1, GoOne DEF Drains, Working
      <3> QED BY <2>1, <2>2, <2>3, <2>4, <3>2, DrainsStay DEF NoStrandedQueue
    <2> QED BY <2>5, <2>6
  <1>8. ASSUME NEW c \in Conns, DrainStep(c) PROVE NoStrandedQueue'
    <2>1. conn[c].key \in Keys
      BY <1>8, HandlerUpdate DEF DrainStep, Working
    <2>2. \A j \in Keys \ {conn[c].key} : Drains(j) => Drains(j)'
      BY <1>8 DEF DrainStep, Drains, Ready, Go, TypeOK
    <2> QED BY <1>8, <2>1, <2>2, DrainStrandsNothing DEF DrainStep
  <1>9. ASSUME NEW c \in Conns, NEW k \in Keys, NEW m \in Steers, Steer(c, k, m) PROVE NoStrandedQueue'
    <2>1. \A d \in Conns : conn[d].at = "drain" =>
            conn'[d].at = "drain" /\ conn'[d].key = conn[d].key
      BY <1>9, GoOne DEF Steer, Serving, Working, Ids
    <2>2. /\ \A n \in Keys : summary[n].at = "moving" => summary'[n].at = "moving"
          /\ draining \subseteq draining'
      BY <1>9 DEF Steer, TypeOK
    <2>3. /\ UNCHANGED <<queue, running>>
          /\ \A j \in Keys : rewinding'[j] = rewinding[j] \/ rewinding'[j]
      BY <1>9 DEF Steer, BeginRewind, sessionVars, TypeOK
    <2> QED BY <2>1, <2>2, <2>3, DrainsStay DEF NoStrandedQueue
  <1>10. ASSUME NEW c \in Conns, NEW k \in Keys, Rewind(c, k) PROVE NoStrandedQueue'
    <2>1. \A d \in Conns : conn[d].at = "drain" =>
            conn'[d].at = "drain" /\ conn'[d].key = conn[d].key
      BY <1>10, GoOne DEF Rewind, Serving, Working
    <2>2. /\ \A n \in Keys : summary[n].at = "moving" => summary'[n].at = "moving"
          /\ draining \subseteq draining'
      BY <1>10 DEF Rewind, TypeOK
    <2>3. /\ UNCHANGED <<queue, running>>
          /\ \A j \in Keys : rewinding'[j] = rewinding[j] \/ rewinding'[j]
      BY <1>10 DEF Rewind, BeginRewind, sessionVars, TypeOK
    <2> QED BY <2>1, <2>2, <2>3, DrainsStay DEF NoStrandedQueue
  <1>11. ASSUME NEW c \in Conns, Cut(c) PROVE NoStrandedQueue'
    BY <1>11 DEF Cut, NoStrandedQueue, Drains, TypeOK, sessionVars, steerVars, ghostVars
  <1>12. ASSUME NEW c \in Conns, Rerun(c) PROVE NoStrandedQueue'
    BY <1>12 DEF Rerun, PushFront, NoStrandedQueue, Drains, TypeOK, sessionVars, steerVars, ghostVars
  <1>13. ASSUME NEW c \in Conns, Release(c) PROVE NoStrandedQueue'
    <2>1. conn[c].key \in Keys
      BY <1>13, HandlerUpdate DEF Release, Working
    <2>2. /\ \A d \in Conns : conn[d].at = "drain" => conn'[d] = conn[d]
          /\ conn'[c].at = "drain" /\ conn'[c].key = conn[c].key
      BY <1>13 DEF Release, TypeOK
    <2>3. /\ UNCHANGED <<queue, running, summary, draining>>
          /\ \A j \in Keys \ {conn[c].key} : rewinding'[j] = rewinding[j]
      BY <1>13, <2>1 DEF Release, steerVars, TypeOK
    <2> QED BY <2>1, <2>2, <2>3, DrainsStay DEF NoStrandedQueue, Drains
  <1>14. ASSUME NEW c \in Conns, NEW k \in Keys, Compact(c, k) PROVE NoStrandedQueue'
    <2>1. \A d \in Conns : conn[d].at = "drain" =>
            conn'[d].at = "drain" /\ conn'[d].key = conn[d].key
      BY <1>14 DEF Compact
    <2>2. /\ \A n \in Keys : summary[n].at = "moving" => summary'[n].at = "moving"
          /\ draining \subseteq draining'
      BY <1>14 DEF Compact, Fresh, TypeOK
    <2>3. /\ UNCHANGED <<queue, running>>
          /\ \A j \in Keys : rewinding'[j] = rewinding[j] \/ rewinding'[j]
      BY <1>14 DEF Compact, BeginRewind, sessionVars, TypeOK
    <2> QED BY <2>1, <2>2, <2>3, DrainsStay DEF NoStrandedQueue
  <1>15. ASSUME NEW n \in Keys, SummaryFails(n) PROVE NoStrandedQueue'
    BY <1>15 DEF SummaryFails, NoStrandedQueue, Drains, TypeOK, sessionVars, steerVars, ghostVars
  <1>16. ASSUME NEW n \in Keys, SummaryMoves(n) PROVE NoStrandedQueue'
    BY <1>16 DEF SummaryMoves, MoveQueue, NoStrandedQueue, Drains, TypeOK, sessionVars, steerVars, ghostVars
  <1>17. ASSUME NEW n \in Keys, MoveClient(n) PROVE NoStrandedQueue'
    BY <1>17 DEF MoveClient, NoStrandedQueue, Drains, TypeOK, sessionVars, steerVars, ghostVars
  <1>18. ASSUME NEW n \in Keys, SummaryEnds(n) PROVE NoStrandedQueue'
    BY <1>18 DEF SummaryEnds, NoStrandedQueue, Drains, TypeOK, sessionVars, steerVars, ghostVars
  <1>19. ASSUME NEW c \in Conns, NEW k \in Keys, StopRunning(c, k) PROVE NoStrandedQueue'
    BY <1>19 DEF StopRunning, NoStrandedQueue, Drains, TypeOK, sessionVars, steerVars, ghostVars
  <1>20. ASSUME NEW c \in Conns, NEW k \in Keys, StopQueued(c, k) PROVE NoStrandedQueue'
    BY <1>20 DEF StopQueued, NoStrandedQueue, Drains, TypeOK, sessionVars, steerVars, ghostVars
  <1>21. ASSUME NEW s \in Slots, OpenTurn(s) PROVE NoStrandedQueue'
    BY <1>21 DEF OpenTurn, NoStrandedQueue, Drains, TypeOK, sessionVars, steerVars, ghostVars
  <1>22. ASSUME NEW s \in Slots, ReadSteer(s) PROVE NoStrandedQueue'
    BY <1>22 DEF ReadSteer, NoStrandedQueue, Drains, TypeOK, sessionVars, steerVars, ghostVars
  <1>23. ASSUME NEW s \in Slots, EndLoop(s) PROVE NoStrandedQueue'
    BY <1>23 DEF EndLoop, NoStrandedQueue, Drains, TypeOK, sessionVars, steerVars, ghostVars
  <1>24. ASSUME NEW s \in Slots, Settle(s) PROVE NoStrandedQueue'
    BY <1>24 DEF Settle, QueueUnread, NoStrandedQueue, Drains, TypeOK, sessionVars, steerVars, ghostVars
  <1>25. ASSUME NEW k \in Keys, TaskDrains(k) PROVE NoStrandedQueue'
    <2>1. \A j \in Keys \ {k} : Drains(j) => Drains(j)'
      BY <1>25 DEF TaskDrains, Drains
    <2> QED BY <1>25, <2>1, DrainStrandsNothing DEF TaskDrains
  <1>26. ASSUME NEW p \in Posts, NEW k \in Keys, Post(p, k) PROVE NoStrandedQueue'
    BY <1>26 DEF Post, PushTurn, NoStrandedQueue, Drains, TypeOK, sessionVars, steerVars, ghostVars
  <1>27. ASSUME NEW k \in Keys, Evict(k) PROVE NoStrandedQueue'
    BY <1>27 DEF Evict, NoStrandedQueue, Drains, TypeOK, sessionVars, steerVars, ghostVars
  <1>28. ASSUME Close PROVE NoStrandedQueue'
    BY <1>28 DEF Close, NoStrandedQueue, Drains, TypeOK, sessionVars, steerVars, ghostVars
  <1>29. CASE UNCHANGED vars
    BY <1>29 DEF vars, NoStrandedQueue, Drains, TypeOK, sessionVars, steerVars, ghostVars
  <1> QED
    BY <1>1, <1>2, <1>3, <1>4, <1>5, <1>6, <1>7, <1>8, <1>9, <1>10, <1>11, <1>12, <1>13, <1>14, <1>15, <1>16, <1>17, <1>18, <1>19, <1>20, <1>21, <1>22, <1>23, <1>24, <1>25, <1>26, <1>27, <1>28, <1>29
       DEF Next, HandlerStep, TurnStep, SummaryStep, Frame

-----------------------------------------------------------------------------
(* A rerun goes first *)

NoRedo(turns) == \A i \in 1..Len(turns) : ~turns[i].redo
RedoFirst(turns) == \A i \in 1..Len(turns) : turns[i].redo => i = 1

\* A rerun is in front of its queue, and only of one nothing holds.
RerunInv ==
  \A k \in Keys :
    /\ NoRedo(steering[k])
    /\ ~closed => /\ RedoFirst(queue[k])
                  /\ NoRedo(queue[k]) \/ (running[k] = None /\ ~rewinding[k])

\* The strengthened form gives the property.
LEMMA RerunFirst == ASSUME RerunInv PROVE RerunIsNext
  BY DEF RerunInv, NoRedo, RedoFirst, RerunIsNext

\* A message joining at the back disturbs no rerun.
LEMMA AppendRedo ==
  ASSUME NEW q \in Seq(Turn), NEW t \in Turn, ~t.redo
  PROVE  /\ NoRedo(q) => NoRedo(Append(q, t))
         /\ RedoFirst(q) => RedoFirst(Append(q, t))
  BY DEF NoRedo, RedoFirst

\* Nor does a queue with no rerun in it, put behind another.
LEMMA ConcatRedo ==
  ASSUME NEW p \in Seq(Turn), NEW q \in Seq(Turn), NoRedo(q)
  PROVE  /\ NoRedo(p) => NoRedo(p \o q)
         /\ RedoFirst(p) => RedoFirst(p \o q)
  <1>1. /\ Len(p \o q) = Len(p) + Len(q)
        /\ \A i \in 1..(Len(p) + Len(q)) :
             (p \o q)[i] = IF i <= Len(p) THEN p[i] ELSE q[i - Len(p)]
    BY ConcatProperties
  <1>2. \A i \in 1..(Len(p) + Len(q)) : i <= Len(p) \/ i - Len(p) \in 1..Len(q)
    OBVIOUS
  <1> QED BY <1>1, <1>2 DEF NoRedo, RedoFirst

\* A rerun put in front of a queue with none is the first in it.
LEMMA FrontRedo ==
  ASSUME NEW q \in Seq(Turn), NEW t \in Turn, NoRedo(q)
  PROVE  RedoFirst(<<t>> \o q)
  <1>1. RedoFirst(<<t>>) /\ <<t>> \in Seq(Turn)
    BY DEF RedoFirst
  <1> QED BY <1>1, ConcatRedo

\* Behind the first there is no rerun.
LEMMA TailRedo ==
  ASSUME NEW q \in Seq(Turn), q # <<>>, RedoFirst(q)
  PROVE  NoRedo(Tail(q)) /\ RedoFirst(Tail(q))
  <1>1. Len(Tail(q)) = Len(q) - 1 /\ \A i \in 1..Len(Tail(q)) : Tail(q)[i] = q[i + 1]
    OBVIOUS
  <1>2. \A i \in 1..Len(Tail(q)) : i + 1 \in 1..Len(q) /\ i + 1 # 1
    BY <1>1
  <1> QED BY <1>1, <1>2 DEF NoRedo, RedoFirst

\* Withdrawing a turn leaves the rerun first.
LEMMA RemoveRedo ==
  ASSUME NEW q \in Seq(Turn), NEW i \in 1..Len(q), RedoFirst(q)
  PROVE  LET r == SubSeq(q, 1, i - 1) \o SubSeq(q, i + 1, Len(q))
         IN  RedoFirst(r) /\ (NoRedo(q) => NoRedo(r))
  <1> DEFINE a == SubSeq(q, 1, i - 1)
             b == SubSeq(q, i + 1, Len(q))
  <1>1. a \in Seq(Turn) /\ Len(a) = i - 1 /\ \A j \in 1..Len(a) : j \in 1..Len(q) /\ a[j] = q[j]
    OBVIOUS
  <1>2. b \in Seq(Turn) /\ Len(b) = Len(q) - i
        /\ \A j \in 1..Len(b) : i + j \in 1..Len(q) /\ b[j] = q[i + j] /\ i + j # 1
    OBVIOUS
  <1>3. RedoFirst(a) /\ (NoRedo(q) => NoRedo(a))
    BY <1>1 DEF RedoFirst, NoRedo
  <1>4. NoRedo(b)
    BY <1>2 DEF RedoFirst, NoRedo
  <1> QED BY <1>1, <1>2, <1>3, <1>4, ConcatRedo

\* A drain takes the rerun before anything else.
LEMMA DrainKeepsRerun ==
  ASSUME TypeOK, RerunInv, NEW k \in Keys, Drain(k), UNCHANGED <<closed, steering, rewinding>>
  PROVE  RerunInv'
  <1>1. CASE ~CanDrain(k)
    BY <1>1 DEF Drain, RerunInv
  <1>2. CASE CanDrain(k)
    <2>1. /\ queue[k] # <<>> /\ queue'[k] = Tail(queue[k]) /\ queue[k] \in Seq(Turn)
          /\ \A j \in Keys \ {k} : running'[j] = running[j] /\ queue'[j] = queue[j]
      BY <1>2, DrainStarts DEF TypeOK
    <2>2. ~closed => NoRedo(queue'[k]) /\ RedoFirst(queue'[k])
      BY <2>1, TailRedo DEF RerunInv
    <2> QED BY <2>1, <2>2 DEF RerunInv
  <1> QED BY <1>1, <1>2

\* Every step keeps the rerun first, and alone until it starts.
LEMMA RerunStep ==
  TypeOK /\ ClaimInv /\ NoTurnUnderClaim /\ RerunInv /\ [Next]_vars => RerunInv'
  <1> SUFFICES ASSUME TypeOK, ClaimInv, NoTurnUnderClaim, RerunInv, [Next]_vars
               PROVE  RerunInv'
    OBVIOUS
  <1>1. ASSUME NEW c \in Conns, NEW k \in Keys, Connect(c, k) PROVE RerunInv'
    BY <1>1 DEF Connect, Touch, RerunInv, sessionVars, steerVars
  <1>2. ASSUME NEW c \in Conns, Leave(c) PROVE RerunInv'
    BY <1>2 DEF Leave, RerunInv, sessionVars, steerVars
  <1>3. ASSUME NEW c \in Conns, Disconnect(c) PROVE RerunInv'
    BY <1>3 DEF Disconnect, RerunInv, sessionVars, steerVars
  <1>4. ASSUME NEW c \in Conns, NEW k \in Keys, Switch(c, k) PROVE RerunInv'
    BY <1>4 DEF Switch, Touch, RerunInv, sessionVars, steerVars
  <1>5. ASSUME NEW c \in Conns, NEW k \in Keys, NEW m \in Msgs, Submit(c, k, m) PROVE RerunInv'
    BY <1>5 DEF Submit, RerunInv, sessionVars, steerVars
  <1>6. ASSUME NEW c \in Conns, Check(c) PROVE RerunInv'
    <2>1. /\ UNCHANGED <<queue, steering, running, closed>>
          /\ \A j \in Keys : rewinding'[j] = rewinding[j] \/ queue[j] = <<>>
      BY <1>6 DEF Check, BeginRewind, Idle, steerVars, TypeOK
    <2> QED BY <2>1 DEF RerunInv, NoRedo
  <1>7. ASSUME NEW c \in Conns, Push(c) PROVE RerunInv'
    <2>1. PICK k \in Keys : k = conn[c].key /\ conn[c].msg \in Ids \cup {None}
      BY <1>7, HandlerUpdate DEF Push, Working
    <2>2. PICK t \in Turn : t = [msg |-> conn[c].msg, from |-> c, redo |-> FALSE]
      BY <2>1, TurnType
    <2>3. /\ UNCHANGED <<steering, running, rewinding, closed>>
          /\ queue' = queue \/ queue' = [queue EXCEPT ![k] = Append(@, t)]
      BY <1>7, <2>1, <2>2 DEF Push, PushTurn, steerVars
    <2>4. CASE queue' = [queue EXCEPT ![k] = Append(@, t)]
      <3>1. /\ queue[k] \in Seq(Turn) /\ queue'[k] = Append(queue[k], t)
            /\ \A j \in Keys \ {k} : queue'[j] = queue[j]
        BY <2>4 DEF TypeOK
      <3> QED BY <2>2, <2>3, <3>1, AppendRedo DEF RerunInv
    <2> QED BY <2>3, <2>4 DEF RerunInv
  <1>8. ASSUME NEW c \in Conns, DrainStep(c) PROVE RerunInv'
    <2>1. conn[c].key \in Keys
      BY <1>8, HandlerUpdate DEF DrainStep, Working
    <2> QED BY <1>8, <2>1, DrainKeepsRerun DEF DrainStep
  <1>9. ASSUME NEW c \in Conns, NEW k \in Keys, NEW m \in Steers, Steer(c, k, m) PROVE RerunInv'
    <2>1. PICK t \in Turn : t = [msg |-> m, from |-> c, redo |-> FALSE]
      BY TurnType DEF Ids
    <2>2. /\ UNCHANGED <<queue, running, rewinding, closed>>
          /\ UNCHANGED steering \/ steering' = [steering EXCEPT ![k] = Append(@, t)]
      BY <1>9, <2>1 DEF Steer
    <2>3. CASE steering' = [steering EXCEPT ![k] = Append(@, t)]
      <3>1. /\ steering[k] \in Seq(Turn) /\ steering'[k] = Append(steering[k], t)
            /\ \A j \in Keys \ {k} : steering'[j] = steering[j]
        BY <2>3 DEF TypeOK
      <3> QED BY <2>1, <2>2, <3>1, AppendRedo DEF RerunInv
    <2> QED BY <2>2, <2>3 DEF RerunInv
  <1>10. ASSUME NEW c \in Conns, NEW k \in Keys, Rewind(c, k) PROVE RerunInv'
    <2>1. /\ UNCHANGED <<queue, steering, running, closed>>
          /\ \A j \in Keys : rewinding'[j] = rewinding[j] \/ queue[j] = <<>>
      BY <1>10 DEF Rewind, BeginRewind, Idle, steerVars, TypeOK
    <2> QED BY <2>1 DEF RerunInv, NoRedo
  <1>11. ASSUME NEW c \in Conns, Cut(c) PROVE RerunInv'
    BY <1>11 DEF Cut, RerunInv, sessionVars, steerVars
  <1>12. ASSUME NEW c \in Conns, Rerun(c) PROVE RerunInv'
    <2>1. PICK k \in Keys : k = conn[c].key /\ conn[c].at = "rerun"
      BY <1>12, HandlerUpdate DEF Rerun, Working
    <2>2. PICK t \in Turn : t = [msg |-> None, from |-> c, redo |-> TRUE]
      BY TurnType
    <2>3. CASE k \in live
      <3>1. /\ UNCHANGED <<steering, running, closed>>
            /\ queue' = [queue EXCEPT ![k] = <<t>> \o @]
            /\ rewinding' = [rewinding EXCEPT ![k] = FALSE]
        BY <1>12, <2>1, <2>2, <2>3 DEF Rerun, PushFront, steerVars
      <3>2. /\ queue[k] \in Seq(Turn) /\ queue'[k] = <<t>> \o queue[k] /\ ~rewinding'[k]
            /\ \A j \in Keys \ {k} : queue'[j] = queue[j] /\ rewinding'[j] = rewinding[j]
        BY <3>1 DEF TypeOK
      <3>3. ~closed => rewinding[k] /\ running[k] = None
        BY <2>1 DEF ClaimInv, OneHolder, HandlerHolds, HoldingAt, NoTurnUnderClaim
      <3>4. ~closed => RedoFirst(queue'[k])
        BY <3>2, <3>3, FrontRedo DEF RerunInv
      <3> QED BY <3>1, <3>2, <3>3, <3>4 DEF RerunInv
    <2>4. CASE k \notin live
      BY <1>12, <2>1, <2>4 DEF Rerun, RerunInv, steerVars
    <2> QED BY <2>3, <2>4
  <1>13. ASSUME NEW c \in Conns, Release(c) PROVE RerunInv'
    BY <1>13 DEF Release, RerunInv, steerVars, TypeOK
  <1>14. ASSUME NEW c \in Conns, NEW k \in Keys, Compact(c, k) PROVE RerunInv'
    <2>1. /\ UNCHANGED <<queue, steering, running, closed>>
          /\ \A j \in Keys : rewinding'[j] = rewinding[j] \/ queue[j] = <<>>
      BY <1>14 DEF Compact, BeginRewind, Idle, steerVars, TypeOK
    <2> QED BY <2>1 DEF RerunInv, NoRedo
  <1>15. ASSUME NEW n \in Keys, SummaryFails(n) PROVE RerunInv'
    BY <1>15 DEF SummaryFails, RerunInv, steerVars, TypeOK
  <1>16. ASSUME NEW n \in Keys, SummaryMoves(n) PROVE RerunInv'
    <2>1. PICK k \in Keys : k = summary[n].of /\ summary[n].at = "asking"
      BY <1>16, SummaryUpdate DEF SummaryMoves
    <2>2. /\ UNCHANGED <<steering, running, closed>>
          /\ queue' = [queue EXCEPT ![n] = @ \o queue[k], ![k] = <<>>]
          /\ rewinding' = [rewinding EXCEPT ![k] = FALSE]
      BY <1>16, <2>1 DEF SummaryMoves, MoveQueue, steerVars
    <2>3. queue[k] \in Seq(Turn) /\ queue[n] \in Seq(Turn)
      BY DEF TypeOK
    <2>4. ~closed => NoRedo(queue[k])
      BY <2>1 DEF ClaimInv, OneHolder, SummaryHolds, RerunInv
    <2>5. \A j \in Keys \ {k, n} : queue'[j] = queue[j]
      BY <2>2 DEF TypeOK
    <2>6. \A j \in Keys : rewinding'[j] => rewinding[j]
      BY <2>2 DEF TypeOK
    <2>7. CASE n # k
      <3>1. queue'[k] = <<>> /\ queue'[n] = queue[n] \o queue[k]
        BY <2>2, <2>7 DEF TypeOK
      <3>2. NoRedo(queue'[k]) /\ RedoFirst(queue'[k])
        BY <3>1 DEF NoRedo, RedoFirst
      <3>3. ~closed => /\ RedoFirst(queue'[n])
                       /\ NoRedo(queue[n]) => NoRedo(queue'[n])
        BY <2>3, <2>4, <3>1, ConcatRedo DEF RerunInv
      <3> QED BY <2>2, <2>5, <2>6, <3>2, <3>3 DEF RerunInv
    <2>8. CASE n = k
      <3>1. queue'[k] = <<>>
        BY <2>2, <2>8 DEF TypeOK
      <3>2. NoRedo(queue'[k]) /\ RedoFirst(queue'[k])
        BY <3>1 DEF NoRedo, RedoFirst
      <3> QED BY <2>2, <2>5, <2>6, <2>8, <3>2 DEF RerunInv
    <2> QED BY <2>7, <2>8
  <1>17. ASSUME NEW n \in Keys, MoveClient(n) PROVE RerunInv'
    BY <1>17 DEF MoveClient, RerunInv, sessionVars, steerVars
  <1>18. ASSUME NEW n \in Keys, SummaryEnds(n) PROVE RerunInv'
    BY <1>18 DEF SummaryEnds, RerunInv, sessionVars, steerVars
  <1>19. ASSUME NEW c \in Conns, NEW k \in Keys, StopRunning(c, k) PROVE RerunInv'
    BY <1>19 DEF StopRunning, RerunInv, sessionVars, steerVars
  <1>20. ASSUME NEW c \in Conns, NEW k \in Keys, StopQueued(c, k) PROVE RerunInv'
    <2>1. PICK i \in 1..Len(queue[k]) :
            queue' = [queue EXCEPT ![k] = SubSeq(@, 1, i - 1) \o SubSeq(@, i + 1, Len(@))]
      BY <1>20 DEF StopQueued
    <2>2. /\ queue[k] \in Seq(Turn)
          /\ queue'[k] = SubSeq(queue[k], 1, i - 1) \o SubSeq(queue[k], i + 1, Len(queue[k]))
          /\ \A j \in Keys \ {k} : queue'[j] = queue[j]
      BY <2>1 DEF TypeOK
    <2>3. UNCHANGED <<steering, running, rewinding, closed>>
      BY <1>20 DEF StopQueued, steerVars
    <2>4. ~closed => RedoFirst(queue'[k]) /\ (NoRedo(queue[k]) => NoRedo(queue'[k]))
      BY <2>2, RemoveRedo DEF RerunInv
    <2> QED BY <2>2, <2>3, <2>4 DEF RerunInv
  <1>21. ASSUME NEW s \in Slots, OpenTurn(s) PROVE RerunInv'
    BY <1>21 DEF OpenTurn, RerunInv, sessionVars, steerVars
  <1>22. ASSUME NEW s \in Slots, ReadSteer(s) PROVE RerunInv'
    <2>1. PICK k \in Keys : k = task[s].key
      BY <1>22, TaskUpdate DEF ReadSteer
    <2>2. /\ UNCHANGED <<queue, running, rewinding, closed>> /\ steering[k] # <<>>
          /\ steering' = [steering EXCEPT ![k] = Tail(@)]
      BY <1>22, <2>1 DEF ReadSteer, sessionVars
    <2>3. /\ steering[k] \in Seq(Turn) /\ steering'[k] = Tail(steering[k])
          /\ \A j \in Keys \ {k} : steering'[j] = steering[j]
      BY <2>2 DEF TypeOK
    <2>4. NoRedo(steering'[k])
      BY <2>2, <2>3, TailRedo DEF RerunInv, NoRedo, RedoFirst
    <2> QED BY <2>2, <2>3, <2>4 DEF RerunInv
  <1>23. ASSUME NEW s \in Slots, EndLoop(s) PROVE RerunInv'
    BY <1>23 DEF EndLoop, RerunInv, sessionVars, steerVars
  <1>24. ASSUME NEW s \in Slots, Settle(s) PROVE RerunInv'
    <2>1. PICK k \in Keys : k = task[s].key
      BY <1>24, TaskUpdate DEF Settle
    <2>2. CASE running[k] = s
      <3>1. /\ UNCHANGED <<rewinding, closed>> /\ running' = [running EXCEPT ![k] = None]
            /\ queue' = [queue EXCEPT ![k] = @ \o steering[k]]
            /\ steering' = [steering EXCEPT ![k] = <<>>]
        BY <1>24, <2>1, <2>2 DEF Settle, OwnMarker, CloseSteering, QueueUnread
      <3>2. /\ queue[k] \in Seq(Turn) /\ steering[k] \in Seq(Turn)
            /\ queue'[k] = queue[k] \o steering[k] /\ steering'[k] = <<>>
            /\ \A j \in Keys \ {k} : /\ queue'[j] = queue[j] /\ steering'[j] = steering[j]
                                     /\ running'[j] = running[j]
        BY <3>1 DEF TypeOK
      <3>3. NoRedo(steering'[k])
        BY <3>2 DEF NoRedo
      <3>4. ~closed => NoRedo(queue'[k]) /\ RedoFirst(queue'[k])
        BY <2>2, <3>2, NoneIsNoSlot, ConcatRedo DEF RerunInv
      <3> QED BY <3>1, <3>2, <3>3, <3>4 DEF RerunInv
    <2>3. CASE running[k] # s
      BY <1>24, <2>1, <2>3 DEF Settle, OwnMarker, RerunInv
    <2> QED BY <2>2, <2>3
  <1>25. ASSUME NEW k \in Keys, TaskDrains(k) PROVE RerunInv'
    BY <1>25, DrainKeepsRerun DEF TaskDrains
  <1>26. ASSUME NEW p \in Posts, NEW k \in Keys, Post(p, k) PROVE RerunInv'
    <2>1. PICK t \in Turn : t = [msg |-> p, from |-> None, redo |-> FALSE]
      BY TurnType DEF Ids
    <2>2. /\ UNCHANGED <<running, rewinding, closed>>
          /\ \/ queue' = [queue EXCEPT ![k] = Append(@, t)] /\ UNCHANGED steering
             \/ steering' = [steering EXCEPT ![k] = Append(@, t)] /\ UNCHANGED queue
      BY <1>26, <2>1 DEF Post, PushTurn
    <2>3. CASE queue' = [queue EXCEPT ![k] = Append(@, t)] /\ UNCHANGED steering
      <3>1. /\ queue[k] \in Seq(Turn) /\ queue'[k] = Append(queue[k], t)
            /\ \A j \in Keys \ {k} : queue'[j] = queue[j]
        BY <2>3 DEF TypeOK
      <3> QED BY <2>1, <2>2, <2>3, <3>1, AppendRedo DEF RerunInv
    <2>4. CASE steering' = [steering EXCEPT ![k] = Append(@, t)] /\ UNCHANGED queue
      <3>1. /\ steering[k] \in Seq(Turn) /\ steering'[k] = Append(steering[k], t)
            /\ \A j \in Keys \ {k} : steering'[j] = steering[j]
        BY <2>4 DEF TypeOK
      <3> QED BY <2>1, <2>2, <2>4, <3>1, AppendRedo DEF RerunInv
    <2> QED BY <2>2, <2>3, <2>4
  <1>27. ASSUME NEW k \in Keys, Evict(k) PROVE RerunInv'
    BY <1>27 DEF Evict, RerunInv, sessionVars, steerVars
  <1>28. ASSUME Close PROVE RerunInv'
    BY <1>28 DEF Close, RerunInv, sessionVars, steerVars
  <1>29. CASE UNCHANGED vars
    BY <1>29 DEF vars, RerunInv, sessionVars, steerVars, ghostVars
  <1> QED
    BY <1>1, <1>2, <1>3, <1>4, <1>5, <1>6, <1>7, <1>8, <1>9, <1>10, <1>11, <1>12, <1>13, <1>14, <1>15, <1>16, <1>17, <1>18, <1>19, <1>20, <1>21, <1>22, <1>23, <1>24, <1>25, <1>26, <1>27, <1>28, <1>29
       DEF Next, HandlerStep, TurnStep, SummaryStep, Frame

-----------------------------------------------------------------------------
(* Which keys are in use                                                   *)

\* Sessions, handlers and summaries name minted keys, a summary continues
\* under one nobody has, and nothing is steered into a closed queue.
KeysInUse ==
  /\ live \subseteq minted /\ opened \subseteq minted
  /\ \A c \in Conns : conn[c].key # None => conn[c].key \in minted
  /\ \A n \in Keys :
       /\ summary[n].at # "idle" => summary[n].of \in minted
       /\ summary[n].at \in {"claimed", "asking"} => n \notin minted
       /\ summary[n].at = "moving" => n \in minted
  /\ \A k \in Keys \ opened : steering[k] = <<>>

\* What a handler's next step leaves of the frame it serves.
LEMMA GoFrame ==
  ASSUME TypeOK, NEW c \in Conns
  PROVE  /\ \A at, k, m : /\ Go(c, at, k, m)[c].key = k /\ Go(c, at, k, m)[c].msg = m
                          /\ \A d \in Conns \ {c} : Go(c, at, k, m)[d] = conn[d]
         /\ \A at : LET next == [conn EXCEPT ![c].at = at]
                    IN  /\ next[c].key = conn[c].key /\ next[c].msg = conn[c].msg
                        /\ \A d \in Conns \ {c} : next[d] = conn[d]
  <1>1. conn \in [Conns -> Handler] /\ conn[c] \in Handler
    BY DEF TypeOK
  <1> QED BY <1>1 DEF Go, Handler

\* Steps that mint no key, open no queue and start no summary.
LEMMA KeysKept ==
  ASSUME TypeOK, KeysInUse, UNCHANGED <<minted, opened, summary, steering>>, live' \subseteq minted,
         \A c \in Conns : conn'[c].key \in {conn[c].key, None} \cup minted
  PROVE  KeysInUse'
  BY DEF KeysInUse

\* A summary takes a key nobody has, or goes on under the one it took.
LEMMA SummaryBegins ==
  ASSUME TypeOK, KeysInUse, UNCHANGED <<minted, opened, steering>>, live' \subseteq minted,
         \A c \in Conns : conn'[c].key \in {conn[c].key, None} \cup minted,
         NEW n \in Keys \ minted, NEW k \in minted, NEW at \in {"claimed", "asking"},
         summary' = [summary EXCEPT ![n] = [at |-> at, of |-> k, clients |-> {}]]
  PROVE  KeysInUse'
  <1>1. summary'[n].at = at /\ summary'[n].of = k /\ \A o \in Keys \ {n} : summary'[o] = summary[o]
    BY DEF TypeOK
  <1>2. \A o \in Keys \ {n} :
          /\ summary'[o].at # "idle" => summary'[o].of \in minted'
          /\ summary'[o].at \in {"claimed", "asking"} => o \notin minted'
          /\ summary'[o].at = "moving" => o \in minted'
    BY <1>1 DEF KeysInUse
  <1>3. /\ live' \subseteq minted' /\ opened' \subseteq minted'
        /\ \A c \in Conns : conn'[c].key # None => conn'[c].key \in minted'
        /\ \A j \in Keys \ opened' : steering'[j] = <<>>
    BY DEF KeysInUse
  <1> QED BY <1>1, <1>2, <1>3 DEF KeysInUse

\* A drain opens the steering queue of a session the hub has.
LEMMA DrainKeepsKeys ==
  ASSUME TypeOK, KeysInUse, NEW k \in Keys, Drain(k),
         UNCHANGED <<live, minted, summary, steering>>,
         \A c \in Conns : conn'[c].key \in {conn[c].key, None}
  PROVE  KeysInUse'
  <1>1. opened' = opened \/ (opened' = opened \cup {k} /\ k \in live)
    BY DEF Drain, CanDrain
  <1> QED BY <1>1 DEF KeysInUse

\* Every step keeps the keys in use apart from those yet to be minted.
LEMMA KeysStep ==
  TypeOK /\ ClaimInv /\ KeysInUse /\ [Next]_vars => KeysInUse'
  <1> SUFFICES ASSUME TypeOK, ClaimInv, KeysInUse, [Next]_vars
               PROVE  KeysInUse'
    OBVIOUS
  <1>0. live \subseteq minted /\ None \notin minted
    BY NoneIsNoSession DEF KeysInUse, TypeOK
  <1>1. ASSUME NEW c \in Conns, NEW k \in Keys, Connect(c, k) PROVE KeysInUse'
    <2>1. UNCHANGED <<minted, opened, summary, steering>> /\ live' \subseteq minted
      BY <1>0, <1>1 DEF Connect, Touch, steerVars
    <2>2. \A d \in Conns : conn'[d].key \in {conn[d].key, None}
      BY <1>1 DEF Connect, NotConnected, TypeOK
    <2> QED BY <2>1, <2>2, KeysKept
  <1>2. ASSUME NEW c \in Conns, Leave(c) PROVE KeysInUse'
    <2>1. UNCHANGED <<minted, opened, summary, steering>> /\ live' \subseteq minted
      BY <1>0, <1>2 DEF Leave, sessionVars, steerVars
    <2>2. \A d \in Conns : conn'[d].key \in {conn[d].key, None}
      BY <1>2 DEF Leave, TypeOK, Handler
    <2> QED BY <2>1, <2>2, KeysKept
  <1>3. ASSUME NEW c \in Conns, Disconnect(c) PROVE KeysInUse'
    <2>1. UNCHANGED <<minted, opened, summary, steering>> /\ live' \subseteq minted
      BY <1>0, <1>3 DEF Disconnect, sessionVars, steerVars
    <2>2. \A d \in Conns : conn'[d].key \in {conn[d].key, None}
      BY <1>3 DEF Disconnect, NotConnected, TypeOK
    <2> QED BY <2>1, <2>2, KeysKept
  <1>4. ASSUME NEW c \in Conns, NEW k \in Keys, Switch(c, k) PROVE KeysInUse'
    <2>1. UNCHANGED <<minted, opened, summary, steering, conn>> /\ live' \subseteq minted
      BY <1>0, <1>4 DEF Switch, Touch, steerVars
    <2> QED BY <2>1, KeysKept
  <1>5. ASSUME NEW c \in Conns, NEW k \in Keys, NEW m \in Msgs, Submit(c, k, m) PROVE KeysInUse'
    <2>1. UNCHANGED <<minted, opened, summary, steering>> /\ live' \subseteq minted /\ k \in minted
      BY <1>0, <1>5 DEF Submit, MaySend, Touch, steerVars
    <2>2. \A d \in Conns : conn'[d].key \in {conn[d].key, k}
      BY <1>5 DEF Submit, TypeOK, Handler
    <2> QED BY <2>1, <2>2, KeysKept
  <1>6. ASSUME NEW c \in Conns, Check(c) PROVE KeysInUse'
    <2>1. UNCHANGED <<minted, opened, steering>> /\ live' \subseteq minted
      BY <1>0, <1>6 DEF Check, steerVars
    <2>2. \A d \in Conns : conn'[d].key = conn[d].key
      <3>1. \/ conn' = [conn EXCEPT ![c].at = "push"]
            \/ \E n \in Fresh : conn' = [conn EXCEPT ![c] = [@ EXCEPT !.at = "push", !.claim = n]]
        BY <1>6 DEF Check
      <3>2. conn \in [Conns -> Handler] /\ conn[c] \in Handler
        BY DEF TypeOK
      <3>3. ASSUME NEW n, conn' = [conn EXCEPT ![c] = [@ EXCEPT !.at = "push", !.claim = n]]
            PROVE  \A d \in Conns : conn'[d].key = conn[d].key
        BY <3>2, <3>3 DEF Handler
      <3>4. CASE conn' = [conn EXCEPT ![c].at = "push"]
        BY <3>2, <3>4 DEF Handler
      <3> QED BY <3>1, <3>3, <3>4
    <2>3. conn[c].key \in minted
      <3>1. conn[c].key \in Keys
        BY <1>6, HandlerUpdate DEF Check, Working
      <3> QED BY <3>1, NoneIsNoSession DEF KeysInUse
    <2>4. \/ summary' = summary
          \/ \E n \in Fresh : summary' = [summary EXCEPT ![n] =
               [at |-> "claimed", of |-> conn[c].key, clients |-> {}]]
      BY <1>6 DEF Check
    <2>5. \A d \in Conns : conn'[d].key \in {conn[d].key, None} \cup minted
      BY <2>2
    <2>6. CASE summary' = summary
      BY <2>1, <2>5, <2>6, KeysKept
    <2>7. ASSUME NEW n \in Fresh, summary' = [summary EXCEPT ![n] =
                   [at |-> "claimed", of |-> conn[c].key, clients |-> {}]]
          PROVE  KeysInUse'
      <3>1. n \in Keys \ minted
        BY DEF Fresh
      <3> QED BY <2>1, <2>3, <2>5, <2>7, <3>1, SummaryBegins
    <2> QED BY <2>4, <2>6, <2>7
  <1>7. ASSUME NEW c \in Conns, Push(c) PROVE KeysInUse'
    <2>1. PICK k \in Keys : k = conn[c].key
      BY <1>7, HandlerUpdate DEF Push, Working
    <2>2. k \in minted
      BY <2>1, NoneIsNoSession DEF KeysInUse
    <2>3. UNCHANGED <<minted, opened, steering>> /\ live' \subseteq minted
      BY <1>0, <1>7, <2>1, <2>2 DEF Push, Touch, steerVars
    <2>4. \A d \in Conns : conn'[d].key \in {conn[d].key, None}
      <3>1. conn' = Ready(c) \/ conn' = Go(c, "drain", k, None)
        BY <1>7, <2>1 DEF Push
      <3> QED BY <2>1, <3>1, GoFrame DEF Ready
    <2>5. CASE conn[c].claim = None
      <3>1. summary' = summary
        BY <1>7, <2>5 DEF Push
      <3> QED BY <2>3, <2>4, <3>1, KeysKept
    <2>6. CASE conn[c].claim # None
      <3>1. PICK n \in Keys : n = conn[c].claim /\ summary[n].at = "claimed" /\ summary[n].of = k
        BY <2>1, <2>6, ClaimsAreKeys DEF ClaimInv, ClaimsKept
      <3>2. summary' = [summary EXCEPT ![n] = [at |-> "asking", of |-> k, clients |-> {}]]
        BY <1>7, <2>1, <2>6, <3>1 DEF Push
      <3>3. n \notin minted
        BY <3>1 DEF KeysInUse
      <3> QED BY <2>2, <2>3, <2>4, <3>2, <3>3, SummaryBegins
    <2> QED BY <2>5, <2>6
  <1>8. ASSUME NEW c \in Conns, DrainStep(c) PROVE KeysInUse'
    <2>1. conn[c].key \in Keys
      BY <1>8, HandlerUpdate DEF DrainStep, Working
    <2>2. \A d \in Conns : conn'[d].key \in {conn[d].key, None}
      BY <1>8, GoFrame DEF DrainStep, Ready
    <2> QED BY <1>8, <2>1, <2>2, DrainKeepsKeys DEF DrainStep
  <1>9. ASSUME NEW c \in Conns, NEW k \in Keys, NEW m \in Steers, Steer(c, k, m) PROVE KeysInUse'
    <2>1. UNCHANGED <<live, minted, opened, summary>> /\ k \in minted
      BY <1>9 DEF Steer, MaySend
    <2>2. \A d \in Conns : conn'[d].key \in {conn[d].key, k}
      <3>1. conn' = conn \/ conn' = Go(c, "push", k, m)
        BY <1>9 DEF Steer
      <3> QED BY <3>1, GoFrame
    <2>3. \A j \in Keys \ opened : steering'[j] = steering[j]
      BY <1>9 DEF Steer, TypeOK
    <2> QED BY <2>1, <2>2, <2>3 DEF KeysInUse
  <1>10. ASSUME NEW c \in Conns, NEW k \in Keys, Rewind(c, k) PROVE KeysInUse'
    <2>1. UNCHANGED <<minted, opened, summary, steering>> /\ live' \subseteq minted /\ k \in minted
      BY <1>0, <1>10 DEF Rewind, Touch, steerVars
    <2>2. \A d \in Conns : conn'[d].key \in {conn[d].key, k}
      <3>1. conn' = conn \/ conn' = Go(c, "cut", k, None)
        BY <1>10 DEF Rewind
      <3> QED BY <3>1, GoFrame
    <2> QED BY <2>1, <2>2, KeysKept
  <1>11. ASSUME NEW c \in Conns, Cut(c) PROVE KeysInUse'
    <2>1. UNCHANGED <<minted, opened, summary, steering>> /\ live' \subseteq minted
      BY <1>0, <1>11 DEF Cut, sessionVars, steerVars
    <2> QED BY <1>11, <2>1, GoFrame, KeysKept DEF Cut
  <1>12. ASSUME NEW c \in Conns, Rerun(c) PROVE KeysInUse'
    <2>1. UNCHANGED <<minted, opened, summary, steering>> /\ live' \subseteq minted
      BY <1>0, <1>12 DEF Rerun, steerVars
    <2> QED BY <1>12, <2>1, GoFrame, KeysKept DEF Rerun
  <1>13. ASSUME NEW c \in Conns, Release(c) PROVE KeysInUse'
    <2>1. UNCHANGED <<minted, opened, summary, steering>> /\ live' \subseteq minted
      BY <1>0, <1>13 DEF Release, steerVars
    <2> QED BY <1>13, <2>1, GoFrame, KeysKept DEF Release
  <1>14. ASSUME NEW c \in Conns, NEW k \in Keys, Compact(c, k) PROVE KeysInUse'
    <2>1. UNCHANGED <<minted, opened, steering, conn>> /\ live' \subseteq minted /\ k \in minted
      BY <1>0, <1>14 DEF Compact, Touch, steerVars
    <2>2. \/ summary' = summary
          \/ \E n \in Fresh : summary' = [summary EXCEPT ![n] =
               [at |-> "asking", of |-> k, clients |-> {}]]
      BY <1>14 DEF Compact
    <2>3. CASE summary' = summary
      BY <2>1, <2>3, KeysKept
    <2>4. ASSUME NEW n \in Fresh,
                 summary' = [summary EXCEPT ![n] = [at |-> "asking", of |-> k, clients |-> {}]]
          PROVE  KeysInUse'
      <3>1. n \in Keys \ minted
        BY DEF Fresh
      <3> QED BY <2>1, <2>4, <3>1, SummaryBegins
    <2> QED BY <2>2, <2>3, <2>4
  <1>15. ASSUME NEW n \in Keys, SummaryFails(n) PROVE KeysInUse'
    BY <1>15 DEF SummaryFails, KeysInUse, steerVars, TypeOK, NoSummary
  <1>16. ASSUME NEW n \in Keys, SummaryMoves(n) PROVE KeysInUse'
    <2>1. /\ live' = live \cup {n} /\ minted' = minted \cup {n}
          /\ UNCHANGED <<opened, steering, conn>>
          /\ summary[n].at = "asking" /\ summary'[n].at = "moving" /\ summary'[n].of = summary[n].of
          /\ \A o \in Keys \ {n} : summary'[o] = summary[o]
      BY <1>16 DEF SummaryMoves, steerVars, TypeOK
    <2>2. \A o \in Keys \ {n} : summary[o].at \in {"claimed", "asking"} => o \notin minted'
      BY <2>1 DEF KeysInUse
    <2> QED BY <2>1, <2>2 DEF KeysInUse
  <1>17. ASSUME NEW n \in Keys, MoveClient(n) PROVE KeysInUse'
    <2>1. /\ live' = live \cup {n} /\ n \in minted /\ UNCHANGED <<minted, opened, steering, conn>>
          /\ \A o \in Keys : summary'[o].at = summary[o].at /\ summary'[o].of = summary[o].of
      BY <1>17 DEF MoveClient, KeysInUse, steerVars, TypeOK, Summary, NoSummary
    <2> QED BY <2>1 DEF KeysInUse
  <1>18. ASSUME NEW n \in Keys, SummaryEnds(n) PROVE KeysInUse'
    BY <1>18 DEF SummaryEnds, KeysInUse, sessionVars, steerVars, TypeOK, NoSummary
  <1>19. ASSUME NEW c \in Conns, NEW k \in Keys, StopRunning(c, k) PROVE KeysInUse'
    BY <1>19 DEF StopRunning, KeysInUse, sessionVars, steerVars
  <1>20. ASSUME NEW c \in Conns, NEW k \in Keys, StopQueued(c, k) PROVE KeysInUse'
    BY <1>20 DEF StopQueued, KeysInUse, steerVars
  <1>21. ASSUME NEW s \in Slots, OpenTurn(s) PROVE KeysInUse'
    BY <1>21 DEF OpenTurn, KeysInUse, sessionVars, steerVars
  <1>22. ASSUME NEW s \in Slots, ReadSteer(s) PROVE KeysInUse'
    <2>1. /\ UNCHANGED <<live, minted, opened, summary, conn>>
          /\ \A j \in Keys \ opened : steering'[j] = steering[j]
      BY <1>22, TaskUpdate DEF ReadSteer, sessionVars, TypeOK
    <2> QED BY <2>1 DEF KeysInUse
  <1>23. ASSUME NEW s \in Slots, EndLoop(s) PROVE KeysInUse'
    BY <1>23 DEF EndLoop, KeysInUse, sessionVars, steerVars
  <1>24. ASSUME NEW s \in Slots, Settle(s) PROVE KeysInUse'
    <2>1. PICK k \in Keys : k = task[s].key
      BY <1>24, TaskUpdate DEF Settle
    <2>2. /\ UNCHANGED <<live, minted, summary, conn>>
          /\ \/ UNCHANGED <<opened, steering>>
             \/ opened' = opened \ {k} /\ steering' = [steering EXCEPT ![k] = <<>>]
      BY <1>24, <2>1 DEF Settle, CloseSteering
    <2> QED BY <2>2 DEF KeysInUse, TypeOK
  <1>25. ASSUME NEW k \in Keys, TaskDrains(k) PROVE KeysInUse'
    BY <1>25, DrainKeepsKeys DEF TaskDrains
  <1>26. ASSUME NEW p \in Posts, NEW k \in Keys, Post(p, k) PROVE KeysInUse'
    <2>1. UNCHANGED <<minted, opened, summary, conn>> /\ live' \subseteq minted
      BY <1>0, <1>26 DEF Post, Touch
    <2>2. \A j \in Keys \ opened : steering'[j] = steering[j]
      BY <1>26 DEF Post, TypeOK
    <2> QED BY <2>1, <2>2 DEF KeysInUse
  <1>27. ASSUME NEW k \in Keys, Evict(k) PROVE KeysInUse'
    BY <1>27 DEF Evict, KeysInUse, steerVars
  <1>28. ASSUME Close PROVE KeysInUse'
    BY <1>28 DEF Close, KeysInUse, steerVars
  <1>29. CASE UNCHANGED vars
    BY <1>29 DEF vars, KeysInUse, sessionVars, steerVars, ghostVars
  <1> QED
    BY <1>1, <1>2, <1>3, <1>4, <1>5, <1>6, <1>7, <1>8, <1>9, <1>10, <1>11, <1>12, <1>13, <1>14, <1>15, <1>16, <1>17, <1>18, <1>19, <1>20, <1>21, <1>22, <1>23, <1>24, <1>25, <1>26, <1>27, <1>28, <1>29
       DEF Next, HandlerStep, TurnStep, SummaryStep, Frame

-----------------------------------------------------------------------------
(* What a step does with the messages                                      *)

Elsewhere(f, g, k) == \A j \in Keys \ {k} : g[j] = f[j]

\* No frame is taken up: a handler goes on with its own or is done with it.
FramesGo ==
  \A c \in Conns : conn'[c].msg = None \/ (conn'[c].msg = conn[c].msg /\ conn'[c].key = conn[c].key)

\* Where a frame was sent is not forgotten.
SentKept == \A m \in Ids : sentTo[m] # None => sentTo'[m] = sentTo[m]

\* Nothing waiting moves.
Rests ==
  /\ UNCHANGED <<queue, steering, opened, runs, acked, owed, withdrawn, forgotten, moved>>
  /\ FramesGo /\ SentKept

\* A handler takes up a frame that the session does not remember.
Sends(c, k, m) ==
  /\ UNCHANGED <<queue, steering, opened, runs, acked, owed, withdrawn, forgotten, moved>>
  /\ MaySend(c, k, m) /\ m \in (Msgs \cup Steers) \ acked[k]
  /\ sentTo' = [sentTo EXCEPT ![m] = k]
  /\ conn'[c].msg = m /\ conn'[c].key = k /\ \A d \in Conns \ {c} : conn'[d] = conn[d]

\* A turn joins the back of a queue: a frame that was let in, or a result.
Queues(k, t) ==
  /\ ~t.redo
  /\ queue'[k] = Append(queue[k], t) /\ Elsewhere(queue, queue', k)
  /\ acked'[k] = acked[k] \cup ({t.msg} \ {None}) /\ Elsewhere(acked, acked', k)
  /\ owed' = owed \cup ({t.msg} \ {None})
  /\ UNCHANGED <<steering, opened, runs, withdrawn, forgotten, moved>> /\ FramesGo
  /\ \/ /\ ~Full(k) /\ UNCHANGED sentTo
        /\ \E c \in Conns : conn[c].msg = t.msg /\ conn[c].key = k /\ conn'[c].msg = None
     \/ /\ t.from = None /\ t.msg \in Posts /\ sentTo[t.msg] = None
        /\ sentTo' = [sentTo EXCEPT ![t.msg] = k]

\* A running turn's steering takes a frame or a result.
Steered(k, t) ==
  /\ ~t.redo /\ t.msg \in Steers \cup Posts /\ k \in opened
  /\ steering'[k] = Append(steering[k], t) /\ Elsewhere(steering, steering', k)
  /\ owed' = owed \cup {t.msg} /\ sentTo' = [sentTo EXCEPT ![t.msg] = k]
  /\ UNCHANGED <<queue, opened, runs, withdrawn, forgotten, moved>> /\ FramesGo
  /\ Elsewhere(acked, acked', k)
  /\ \/ /\ ~Full(k) /\ t.msg \in Steers \ acked[k] /\ acked'[k] = acked[k] \cup {t.msg}
        /\ \E c \in Conns : MaySend(c, k, t.msg)
     \/ /\ t.from = None /\ t.msg \in Posts /\ sentTo[t.msg] = None /\ acked'[k] = acked[k]

Drained(k) ==
  /\ k \in live /\ queue[k] # <<>> /\ queue'[k] = Tail(queue[k]) /\ Elsewhere(queue, queue', k)
  /\ opened' = opened \cup {k} /\ runs' = Started(Head(queue[k]).msg)
  /\ UNCHANGED <<steering, acked, owed, withdrawn, forgotten, moved, sentTo>> /\ FramesGo

Reran(k, t) ==
  /\ t.redo /\ t.msg = None
  /\ queue'[k] = <<t>> \o queue[k] /\ Elsewhere(queue, queue', k)
  /\ UNCHANGED <<steering, opened, runs, acked, owed, withdrawn, forgotten, moved, sentTo>>
  /\ FramesGo

MovedOver(k, n) ==
  /\ n # k /\ queue[n] = <<>> /\ steering[n] = <<>>
  /\ queue'[n] = queue[k] /\ queue'[k] = <<>> /\ \A j \in Keys \ {k, n} : queue'[j] = queue[j]
  /\ acked'[n] = acked[k] /\ acked'[k] = {} /\ acked[n] = {}
  /\ \A j \in Keys \ {k, n} : acked'[j] = acked[j]
  /\ moved' = moved \cup acked[k]
  /\ UNCHANGED <<steering, opened, runs, owed, withdrawn, forgotten, sentTo>> /\ FramesGo

Without(q, i) == SubSeq(q, 1, i - 1) \o SubSeq(q, i + 1, Len(q))

Withdrew(k, i) ==
  /\ i \in 1..Len(queue[k])
  /\ queue'[k] = Without(queue[k], i) /\ Elsewhere(queue, queue', k)
  /\ withdrawn' = withdrawn \cup ({queue[k][i].msg} \ {None})
  /\ UNCHANGED <<steering, opened, runs, acked, owed, forgotten, moved, sentTo>> /\ FramesGo

ReadOne(k) ==
  /\ k \in opened /\ steering[k] # <<>>
  /\ steering'[k] = Tail(steering[k]) /\ Elsewhere(steering, steering', k)
  /\ runs' = Started(Head(steering[k]).msg)
  /\ UNCHANGED <<queue, opened, acked, owed, withdrawn, forgotten, moved, sentTo>> /\ FramesGo

Settled(k) ==
  /\ queue'[k] = queue[k] \o steering[k] /\ Elsewhere(queue, queue', k)
  /\ steering'[k] = <<>> /\ Elsewhere(steering, steering', k)
  /\ opened' = opened \ {k}
  /\ acked'[k] = acked[k] \cup (Messages(steering[k]) \ {None}) /\ Elsewhere(acked, acked', k)
  /\ UNCHANGED <<runs, owed, withdrawn, forgotten, moved, sentTo>> /\ FramesGo

Evicted(k) ==
  /\ queue[k] = <<>> /\ running[k] = None
  /\ acked'[k] = {} /\ Elsewhere(acked, acked', k) /\ forgotten' = forgotten \cup acked[k]
  /\ UNCHANGED <<queue, steering, opened, runs, owed, withdrawn, moved, sentTo>> /\ FramesGo

Closes ==
  /\ closed' /\ \A k \in Keys : queue'[k] = <<>> /\ acked'[k] = {}
  /\ forgotten' = forgotten \cup UNION {acked[k] : k \in Keys}
  /\ UNCHANGED <<steering, opened, runs, owed, withdrawn, moved, sentTo>> /\ FramesGo

FlowIs ==
  \/ Closes
  \/ /\ closed' = closed
     /\ \/ Rests
        \/ \E c \in Conns, k \in Keys, m \in Ids : Sends(c, k, m)
        \/ \E k \in Keys, t \in Turn : Queues(k, t) \/ Steered(k, t) \/ Reran(k, t)
        \/ \E k \in Keys : Drained(k) \/ ReadOne(k) \/ Settled(k) \/ Evicted(k)
        \/ \E k \in Keys, n \in Keys : MovedOver(k, n)
        \/ \E k \in Keys, i \in Nat : Withdrew(k, i)

\* A drain that starts nothing moves nothing.
LEMMA DrainFlow ==
  ASSUME TypeOK, NEW k \in Keys, Drain(k), FramesGo,
         UNCHANGED <<steering, acked, owed, withdrawn, forgotten, moved, sentTo, closed>>
  PROVE  FlowIs
  <1>1. CASE ~CanDrain(k)
    BY <1>1 DEF Drain, FlowIs, Rests, SentKept
  <1>2. CASE CanDrain(k)
    <2>1. /\ k \in live /\ queue[k] # <<>> /\ queue' = [queue EXCEPT ![k] = Tail(@)]
          /\ opened' = opened \cup {k} /\ runs' = Started(Head(queue[k]).msg)
      BY <1>2 DEF Drain, CanDrain
    <2>2. Drained(k)
      BY <2>1 DEF Drained, Elsewhere, TypeOK
    <2> QED BY <2>2 DEF FlowIs
  <1> QED BY <1>1, <1>2

\* A message that goes to one session goes to no other.
LEMMA SentOnce ==
  ASSUME TypeOK, NEW k \in Keys, NEW m \in Ids, sentTo[m] \in {None, k},
         sentTo' = sentTo \/ sentTo' = [sentTo EXCEPT ![m] = k]
  PROVE  SentKept
  BY DEF TypeOK, SentKept

\* Every step moves messages in one of the ways FlowIs lists: the proofs below
\* go through those, not through the actions.
LEMMA FlowStep ==
  ASSUME TypeOK, KeysInUse, [Next]_vars
  PROVE  FlowIs
  <1>0. ASSUME UNCHANGED <<queue, steering, opened, runs, acked, owed, withdrawn, forgotten, moved>>,
               UNCHANGED <<sentTo, closed>>, FramesGo
        PROVE  FlowIs
    BY <1>0 DEF FlowIs, Rests, SentKept
  <1>1. ASSUME NEW c \in Conns, NEW k \in Keys, Connect(c, k) PROVE FlowIs
    <2>1. FramesGo
      BY <1>1 DEF Connect, FramesGo, NotConnected, TypeOK
    <2> QED BY <1>0, <1>1, <2>1 DEF Connect, steerVars, ghostVars
  <1>2. ASSUME NEW c \in Conns, Leave(c) PROVE FlowIs
    <2>1. FramesGo
      BY <1>2 DEF Leave, FramesGo, TypeOK, Handler
    <2> QED BY <1>0, <1>2, <2>1 DEF Leave, sessionVars, steerVars, ghostVars
  <1>3. ASSUME NEW c \in Conns, Disconnect(c) PROVE FlowIs
    <2>1. FramesGo
      BY <1>3 DEF Disconnect, FramesGo, NotConnected, TypeOK
    <2> QED BY <1>0, <1>3, <2>1 DEF Disconnect, sessionVars, steerVars, ghostVars
  <1>4. ASSUME NEW c \in Conns, NEW k \in Keys, Switch(c, k) PROVE FlowIs
    BY <1>0, <1>4 DEF Switch, FramesGo, steerVars, ghostVars
  <1>5. ASSUME NEW c \in Conns, NEW k \in Keys, NEW m \in Msgs, Submit(c, k, m) PROVE FlowIs
    <2>1. /\ UNCHANGED <<queue, steering, opened, runs, acked, owed, withdrawn, forgotten, moved>>
          /\ closed' = closed /\ MaySend(c, k, m) /\ sentTo' = [sentTo EXCEPT ![m] = k] /\ m \in Ids
      BY <1>5 DEF Submit, steerVars, Ids
    <2>2. CASE m \in acked[k]
      <3>1. FramesGo /\ SentKept
        BY <1>5, <2>1, <2>2, SentOnce DEF Submit, FramesGo, MaySend
      <3> QED BY <2>1, <3>1 DEF FlowIs, Rests
    <2>3. CASE m \notin acked[k]
      <3>1. conn' = [conn EXCEPT ![c] = [@ EXCEPT !.at = "check", !.key = k, !.msg = m, !.sent = TRUE]]
        BY <1>5, <2>3 DEF Submit
      <3>2. conn'[c].msg = m /\ conn'[c].key = k /\ \A d \in Conns \ {c} : conn'[d] = conn[d]
        BY <3>1 DEF TypeOK, Handler
      <3>3. Sends(c, k, m)
        BY <2>1, <2>3, <3>2 DEF Sends
      <3> QED BY <2>1, <3>3 DEF FlowIs
    <2> QED BY <2>2, <2>3
  <1>6. ASSUME NEW c \in Conns, Check(c) PROVE FlowIs
    <2>1. FramesGo
      <3>1. \/ conn' = [conn EXCEPT ![c].at = "push"]
            \/ \E n \in Fresh : conn' = [conn EXCEPT ![c] = [@ EXCEPT !.at = "push", !.claim = n]]
        BY <1>6 DEF Check
      <3>2. conn \in [Conns -> Handler] /\ conn[c] \in Handler
        BY DEF TypeOK
      <3>3. ASSUME NEW n, conn' = [conn EXCEPT ![c] = [@ EXCEPT !.at = "push", !.claim = n]]
            PROVE  FramesGo
        BY <3>2, <3>3 DEF Handler, FramesGo
      <3>4. CASE conn' = [conn EXCEPT ![c].at = "push"]
        BY <3>2, <3>4 DEF Handler, FramesGo
      <3> QED BY <3>1, <3>3, <3>4
    <2> QED BY <1>0, <1>6, <2>1 DEF Check, steerVars, ghostVars
  <1>7. ASSUME NEW c \in Conns, Push(c) PROVE FlowIs
    <2>1. PICK k \in Keys : k = conn[c].key /\ conn[c].msg \in Ids \cup {None}
      BY <1>7, HandlerUpdate DEF Push, Working
    <2>2. conn'[c].msg = None /\ FramesGo
      <3>1. conn' = Ready(c) \/ conn' = Go(c, "drain", k, None)
        BY <1>7, <2>1 DEF Push
      <3> QED BY <3>1, GoFrame DEF Ready, FramesGo
    <2>3. CASE Full(k)
      <3>1. UNCHANGED <<queue, acked, owed>>
        BY <1>7, <2>1, <2>3 DEF Push
      <3> QED BY <1>0, <1>7, <2>2, <3>1 DEF Push, steerVars
    <2>4. CASE ~Full(k)
      <3>1. PICK t \in Turn : t = [msg |-> conn[c].msg, from |-> c, redo |-> FALSE]
        BY <2>1, TurnType
      <3>2. PushTurn(k, t)
        BY <1>7, <2>1, <2>4, <3>1 DEF Push
      <3>3. /\ queue'[k] = Append(queue[k], t) /\ Elsewhere(queue, queue', k)
            /\ acked'[k] = acked[k] \cup ({t.msg} \ {None}) /\ Elsewhere(acked, acked', k)
            /\ owed' = owed \cup ({t.msg} \ {None})
        BY <3>2 DEF PushTurn, Elsewhere, TypeOK
      <3>4. Queues(k, t)
        BY <1>7, <2>1, <2>2, <2>4, <3>1, <3>3 DEF Queues, Push, steerVars
      <3> QED BY <1>7, <3>4 DEF FlowIs, Push
    <2> QED BY <2>3, <2>4
  <1>8. ASSUME NEW c \in Conns, DrainStep(c) PROVE FlowIs
    <2>1. conn[c].key \in Keys
      BY <1>8, HandlerUpdate DEF DrainStep, Working
    <2>2. FramesGo
      BY <1>8, GoFrame DEF DrainStep, Ready, FramesGo
    <2> QED BY <1>8, <2>1, <2>2, DrainFlow DEF DrainStep
  <1>9. ASSUME NEW c \in Conns, NEW k \in Keys, NEW m \in Steers, Steer(c, k, m) PROVE FlowIs
    <2>1. /\ UNCHANGED <<queue, opened, runs, withdrawn, forgotten, moved, closed>>
          /\ MaySend(c, k, m) /\ sentTo' = [sentTo EXCEPT ![m] = k] /\ m \in Ids
      BY <1>9 DEF Steer, Ids
    <2>2. CASE UNCHANGED <<conn, steering, acked, owed>>
      <3>1. FramesGo /\ SentKept
        BY <2>1, <2>2, SentOnce DEF FramesGo, MaySend
      <3> QED BY <2>1, <2>2, <3>1 DEF FlowIs, Rests
    <2>3. CASE /\ m \notin acked[k] /\ conn' = Go(c, "push", k, m) /\ UNCHANGED <<steering, acked, owed>>
      <3>1. Sends(c, k, m)
        BY <2>1, <2>3, GoFrame DEF Sends
      <3> QED BY <2>1, <3>1 DEF FlowIs
    <2>4. CASE /\ m \notin acked[k] /\ ~Full(k) /\ k \in opened
               /\ steering' = [steering EXCEPT ![k] = Append(@, [msg |-> m, from |-> c, redo |-> FALSE])]
               /\ acked' = [acked EXCEPT ![k] = @ \cup {m}]
               /\ owed' = owed \cup {m} /\ UNCHANGED conn
      <3>1. PICK t \in Turn : t = [msg |-> m, from |-> c, redo |-> FALSE]
        BY <2>1, TurnType
      <3>2. /\ steering'[k] = Append(steering[k], t) /\ Elsewhere(steering, steering', k)
            /\ acked'[k] = acked[k] \cup {m} /\ Elsewhere(acked, acked', k)
        BY <2>4, <3>1 DEF Elsewhere, TypeOK
      <3>3. FramesGo
        BY <2>4 DEF FramesGo
      <3>4. Steered(k, t)
        BY <2>1, <2>4, <3>1, <3>2, <3>3 DEF Steered
      <3> QED BY <2>1, <3>4 DEF FlowIs
    <2> QED BY <1>9, <2>2, <2>3, <2>4 DEF Steer
  <1>10. ASSUME NEW c \in Conns, NEW k \in Keys, Rewind(c, k) PROVE FlowIs
    <2>1. FramesGo
      <3>1. conn' = conn \/ conn' = Go(c, "cut", k, None)
        BY <1>10 DEF Rewind
      <3> QED BY <3>1, GoFrame DEF FramesGo
    <2> QED BY <1>0, <1>10, <2>1 DEF Rewind, steerVars, ghostVars
  <1>11. ASSUME NEW c \in Conns, Cut(c) PROVE FlowIs
    <2>1. FramesGo
      BY <1>11, GoFrame DEF Cut, FramesGo
    <2> QED BY <1>0, <1>11, <2>1 DEF Cut, sessionVars, steerVars, ghostVars
  <1>12. ASSUME NEW c \in Conns, Rerun(c) PROVE FlowIs
    <2>1. PICK k \in Keys : k = conn[c].key
      BY <1>12, HandlerUpdate DEF Rerun, Working
    <2>2. FramesGo
      BY <1>12, GoFrame DEF Rerun, FramesGo
    <2>3. CASE k \in live
      <3>1. PICK t \in Turn : t = [msg |-> None, from |-> c, redo |-> TRUE]
        BY TurnType
      <3>2. queue' = [queue EXCEPT ![k] = <<t>> \o @]
        BY <1>12, <2>1, <2>3, <3>1 DEF Rerun, PushFront
      <3>3. queue'[k] = <<t>> \o queue[k] /\ Elsewhere(queue, queue', k)
        BY <3>2 DEF Elsewhere, TypeOK
      <3>4. Reran(k, t)
        BY <1>12, <2>2, <3>1, <3>3 DEF Rerun, Reran, steerVars, ghostVars
      <3> QED BY <1>12, <3>4 DEF FlowIs, Rerun
    <2>4. CASE k \notin live
      BY <1>0, <1>12, <2>1, <2>2, <2>4 DEF Rerun, steerVars, ghostVars
    <2> QED BY <2>3, <2>4
  <1>13. ASSUME NEW c \in Conns, Release(c) PROVE FlowIs
    <2>1. FramesGo
      BY <1>13, GoFrame DEF Release, FramesGo
    <2> QED BY <1>0, <1>13, <2>1 DEF Release, steerVars, ghostVars
  <1>14. ASSUME NEW c \in Conns, NEW k \in Keys, Compact(c, k) PROVE FlowIs
    BY <1>0, <1>14 DEF Compact, FramesGo, steerVars, ghostVars
  <1>15. ASSUME NEW n \in Keys, SummaryFails(n) PROVE FlowIs
    BY <1>0, <1>15 DEF SummaryFails, FramesGo, steerVars, ghostVars
  <1>16. ASSUME NEW n \in Keys, SummaryMoves(n) PROVE FlowIs
    <2>1. PICK k \in Keys : k = summary[n].of /\ summary[n].at = "asking"
      BY <1>16, SummaryUpdate DEF SummaryMoves
    <2>2. n \notin minted /\ k \in minted
      BY <2>1 DEF KeysInUse
    <2>3. queue[n] = <<>> /\ steering[n] = <<>> /\ acked[n] = {}
      <3>1. n \in Keys \ live /\ n \in Keys \ opened
        BY <2>2 DEF KeysInUse
      <3> QED BY <3>1 DEF KeysInUse, TypeOK, Dormant, Idle
    <2>4. /\ queue' = [queue EXCEPT ![n] = @ \o queue[k], ![k] = <<>>]
          /\ acked' = [acked EXCEPT ![k] = {}, ![n] = @ \cup acked[k]]
          /\ moved' = moved \cup acked[k]
      BY <1>16, <2>1 DEF SummaryMoves, MoveQueue
    <2>5. /\ queue'[n] = queue[n] \o queue[k] /\ queue'[k] = <<>>
          /\ \A j \in Keys \ {k, n} : queue'[j] = queue[j]
      BY <2>2, <2>4 DEF TypeOK
    <2>6. queue'[n] = queue[k]
      <3>1. queue[k] \in Seq(Turn)
        BY DEF TypeOK
      <3> QED BY <2>3, <2>5, <3>1
    <2>7. /\ acked'[n] = acked[k] /\ acked'[k] = {}
          /\ \A j \in Keys \ {k, n} : acked'[j] = acked[j]
      BY <2>2, <2>3, <2>4 DEF TypeOK
    <2>8. FramesGo /\ UNCHANGED <<steering, opened, runs, owed, withdrawn, forgotten, sentTo, closed>>
      BY <1>16 DEF SummaryMoves, FramesGo, steerVars
    <2>9. MovedOver(k, n)
      BY <2>2, <2>3, <2>4, <2>5, <2>6, <2>7, <2>8 DEF MovedOver
    <2> QED BY <2>8, <2>9 DEF FlowIs
  <1>17. ASSUME NEW n \in Keys, MoveClient(n) PROVE FlowIs
    BY <1>0, <1>17 DEF MoveClient, FramesGo, steerVars, ghostVars
  <1>18. ASSUME NEW n \in Keys, SummaryEnds(n) PROVE FlowIs
    BY <1>0, <1>18 DEF SummaryEnds, FramesGo, sessionVars, steerVars, ghostVars
  <1>19. ASSUME NEW c \in Conns, NEW k \in Keys, StopRunning(c, k) PROVE FlowIs
    BY <1>0, <1>19 DEF StopRunning, FramesGo, sessionVars, steerVars, ghostVars
  <1>20. ASSUME NEW c \in Conns, NEW k \in Keys, StopQueued(c, k) PROVE FlowIs
    <2>1. PICK i \in 1..Len(queue[k]) :
            /\ queue' = [queue EXCEPT ![k] = SubSeq(@, 1, i - 1) \o SubSeq(@, i + 1, Len(@))]
            /\ withdrawn' = withdrawn \cup ({queue[k][i].msg} \ {None})
      BY <1>20 DEF StopQueued
    <2>2. queue'[k] = Without(queue[k], i) /\ Elsewhere(queue, queue', k)
      BY <2>1 DEF Without, Elsewhere, TypeOK
    <2>3. FramesGo
      BY <1>20 DEF StopQueued, FramesGo
    <2>4. i \in Nat
      <3>1. Len(queue[k]) \in Nat
        BY DEF TypeOK
      <3> QED BY <3>1
    <2>5. Withdrew(k, i)
      BY <1>20, <2>1, <2>2, <2>3 DEF StopQueued, Withdrew, steerVars
    <2> QED BY <1>20, <2>4, <2>5 DEF FlowIs, StopQueued
  <1>21. ASSUME NEW s \in Slots, OpenTurn(s) PROVE FlowIs
    BY <1>0, <1>21 DEF OpenTurn, FramesGo, sessionVars, steerVars, ghostVars
  <1>22. ASSUME NEW s \in Slots, ReadSteer(s) PROVE FlowIs
    <2>1. PICK k \in Keys : k = task[s].key
      BY <1>22, TaskUpdate DEF ReadSteer
    <2>2. /\ k \in opened /\ steering[k] # <<>> /\ runs' = Started(Head(steering[k]).msg)
          /\ steering' = [steering EXCEPT ![k] = Tail(@)]
      BY <1>22, <2>1 DEF ReadSteer
    <2>3. steering'[k] = Tail(steering[k]) /\ Elsewhere(steering, steering', k)
      BY <2>2 DEF Elsewhere, TypeOK
    <2>4. ReadOne(k)
      BY <1>22, <2>2, <2>3 DEF ReadSteer, ReadOne, FramesGo, sessionVars
    <2> QED BY <1>22, <2>4 DEF FlowIs, ReadSteer
  <1>23. ASSUME NEW s \in Slots, EndLoop(s) PROVE FlowIs
    BY <1>0, <1>23 DEF EndLoop, FramesGo, sessionVars, steerVars, ghostVars
  <1>24. ASSUME NEW s \in Slots, Settle(s) PROVE FlowIs
    <2>1. PICK k \in Keys : k = task[s].key
      BY <1>24, TaskUpdate DEF Settle
    <2>2. CASE running[k] = s
      <3>1. /\ queue' = [queue EXCEPT ![k] = @ \o steering[k]]
            /\ steering' = [steering EXCEPT ![k] = <<>>] /\ opened' = opened \ {k}
            /\ acked' = [acked EXCEPT ![k] = @ \cup (Messages(steering[k]) \ {None})]
        BY <1>24, <2>1, <2>2 DEF Settle, OwnMarker, CloseSteering, QueueUnread
      <3>2. /\ queue'[k] = queue[k] \o steering[k] /\ Elsewhere(queue, queue', k)
            /\ steering'[k] = <<>> /\ Elsewhere(steering, steering', k)
            /\ acked'[k] = acked[k] \cup (Messages(steering[k]) \ {None})
            /\ Elsewhere(acked, acked', k)
        BY <3>1 DEF Elsewhere, TypeOK
      <3>3. Settled(k)
        BY <1>24, <3>1, <3>2 DEF Settle, Settled, FramesGo, ghostVars
      <3> QED BY <1>24, <3>3 DEF FlowIs, Settle
    <2>3. CASE running[k] # s
      BY <1>0, <1>24, <2>1, <2>3 DEF Settle, OwnMarker, FramesGo, ghostVars
    <2> QED BY <2>2, <2>3
  <1>25. ASSUME NEW k \in Keys, TaskDrains(k) PROVE FlowIs
    BY <1>25, DrainFlow DEF TaskDrains, FramesGo
  <1>26. ASSUME NEW p \in Posts, NEW k \in Keys, Post(p, k) PROVE FlowIs
    <2>1. PICK t \in Turn : t = [msg |-> p, from |-> None, redo |-> FALSE]
      BY TurnType DEF Ids
    <2>2. /\ UNCHANGED <<opened, runs, withdrawn, forgotten, moved, conn, closed>>
          /\ sentTo[p] = None /\ sentTo' = [sentTo EXCEPT ![p] = k]
      BY <1>26 DEF Post
    <2>3. FramesGo
      BY <2>2 DEF FramesGo
    <2>4. CASE PushTurn(k, t) /\ UNCHANGED steering
      <3>1. /\ queue'[k] = Append(queue[k], t) /\ Elsewhere(queue, queue', k)
            /\ acked'[k] = acked[k] \cup ({t.msg} \ {None}) /\ Elsewhere(acked, acked', k)
            /\ owed' = owed \cup ({t.msg} \ {None})
        BY <2>4 DEF PushTurn, Elsewhere, TypeOK
      <3>2. Queues(k, t)
        BY <2>1, <2>2, <2>3, <2>4, <3>1 DEF Queues
      <3> QED BY <2>2, <3>2 DEF FlowIs
    <2>5. CASE /\ k \in opened /\ steering' = [steering EXCEPT ![k] = Append(@, t)]
               /\ owed' = owed \cup {p} /\ UNCHANGED <<queue, acked>>
      <3>1. steering'[k] = Append(steering[k], t) /\ Elsewhere(steering, steering', k)
        BY <2>5 DEF Elsewhere, TypeOK
      <3>2. Steered(k, t)
        BY <2>1, <2>2, <2>3, <2>5, <3>1 DEF Steered, Elsewhere
      <3> QED BY <2>2, <3>2 DEF FlowIs
    <2> QED BY <1>26, <2>1, <2>4, <2>5 DEF Post
  <1>27. ASSUME NEW k \in Keys, Evict(k) PROVE FlowIs
    <2>1. acked'[k] = {} /\ Elsewhere(acked, acked', k)
      BY <1>27 DEF Evict, Elsewhere, TypeOK
    <2>2. Evicted(k)
      BY <1>27, <2>1 DEF Evict, Evictable, Idle, Evicted, FramesGo, steerVars
    <2> QED BY <1>27, <2>2 DEF FlowIs, Evict
  <1>28. ASSUME Close PROVE FlowIs
    BY <1>28 DEF Close, Closes, FlowIs, FramesGo, steerVars
  <1>29. CASE UNCHANGED vars
    BY <1>0, <1>29 DEF vars, FramesGo, sessionVars, steerVars, ghostVars
  <1> QED
    BY <1>1, <1>2, <1>3, <1>4, <1>5, <1>6, <1>7, <1>8, <1>9, <1>10, <1>11, <1>12, <1>13, <1>14, <1>15, <1>16, <1>17, <1>18, <1>19, <1>20, <1>21, <1>22, <1>23, <1>24, <1>25, <1>26, <1>27, <1>28, <1>29
       DEF Next, HandlerStep, TurnStep, SummaryStep, Frame

-----------------------------------------------------------------------------
(* What was accepted is kept                                               *)

\* The messages of a queue as it grows, shrinks and is joined to another.
LEMMA MessagesAppend ==
  ASSUME NEW q \in Seq(Turn), NEW t \in Turn
  PROVE  Messages(Append(q, t)) = Messages(q) \cup {t.msg}
  <1>1. /\ Len(Append(q, t)) = Len(q) + 1 /\ Len(q) \in Nat /\ Append(q, t)[Len(q) + 1] = t
        /\ \A i \in 1..Len(q) : Append(q, t)[i] = q[i]
    OBVIOUS
  <1>2. 1..(Len(q) + 1) = 1..Len(q) \cup {Len(q) + 1}
    BY <1>1
  <1> QED BY <1>1, <1>2 DEF Messages

\* Joined queues hold the messages of both.
LEMMA MessagesConcat ==
  ASSUME NEW p \in Seq(Turn), NEW q \in Seq(Turn)
  PROVE  Messages(p \o q) = Messages(p) \cup Messages(q)
  <1> DEFINE s == p \o q
  <1>1. /\ Len(s) = Len(p) + Len(q) /\ Len(p) \in Nat /\ Len(q) \in Nat
        /\ \A i \in 1..Len(p) : s[i] = p[i]
        /\ \A i \in 1..Len(q) : s[Len(p) + i] = q[i]
    OBVIOUS
  <1> HIDE DEF s
  <1>2. Messages(s) \subseteq Messages(p) \cup Messages(q)
    <2> SUFFICES ASSUME NEW i \in 1..Len(s) PROVE s[i].msg \in Messages(p) \cup Messages(q)
      BY DEF Messages
    <2>1. CASE i <= Len(p)
      BY <1>1, <2>1 DEF Messages
    <2>2. CASE i > Len(p)
      <3> DEFINE j == i - Len(p)
      <3>1. j \in 1..Len(q) /\ i = Len(p) + j
        BY <1>1, <2>2
      <3> HIDE DEF j
      <3> QED BY <1>1, <3>1 DEF Messages
    <2> QED BY <1>1, <2>1, <2>2
  <1>3. Messages(p) \subseteq Messages(s)
    <2>1. 1..Len(p) \subseteq 1..Len(s)
      BY <1>1
    <2> QED BY <1>1, <2>1 DEF Messages
  <1>4. Messages(q) \subseteq Messages(s)
    <2>1. \A i \in 1..Len(q) : Len(p) + i \in 1..Len(s)
      BY <1>1
    <2> QED BY <1>1, <2>1 DEF Messages
  <1> QED BY <1>2, <1>3, <1>4 DEF s

\* A queue is its head and its tail.
LEMMA MessagesTail ==
  ASSUME NEW q \in Seq(Turn), q # <<>>
  PROVE  Messages(q) = {Head(q).msg} \cup Messages(Tail(q))
  <1>1. /\ Len(Tail(q)) = Len(q) - 1 /\ Len(q) \in Nat \ {0} /\ Head(q) = q[1]
        /\ \A i \in 1..Len(Tail(q)) : Tail(q)[i] = q[i + 1]
    OBVIOUS
  <1> DEFINE r == Tail(q)
  <1> HIDE DEF r
  <1>2. Len(r) = Len(q) - 1 /\ \A i \in 1..Len(r) : r[i] = q[i + 1]
    BY <1>1 DEF r
  <1>3. \A i \in 1..Len(q) : i = 1 \/ (i - 1 \in 1..Len(r) /\ r[i - 1] = q[i])
    BY <1>1, <1>2
  <1>4. \A i \in 1..Len(r) : i + 1 \in 1..Len(q)
    BY <1>1, <1>2
  <1>5. Head(q) = q[1] /\ 1 \in 1..Len(q)
    BY <1>1
  <1>6. Messages(q) \subseteq {Head(q).msg} \cup Messages(r)
    <2> SUFFICES ASSUME NEW i \in 1..Len(q)
                 PROVE  q[i].msg \in {Head(q).msg} \cup Messages(r)
      BY DEF Messages
    <2>1. CASE i = 1
      BY <1>5, <2>1
    <2>2. CASE i - 1 \in 1..Len(r) /\ r[i - 1] = q[i]
      <3>1. r[i - 1].msg \in Messages(r)
        BY <2>2 DEF Messages
      <3> QED BY <2>2, <3>1
    <2> QED BY <1>3, <2>1, <2>2
  <1>7. Messages(r) \subseteq Messages(q)
    BY <1>2, <1>4 DEF Messages
  <1>8. Head(q).msg \in Messages(q)
    BY <1>5 DEF Messages
  <1> QED BY <1>6, <1>7, <1>8 DEF r

\* Withdrawing one message keeps the others.
LEMMA MessagesWithout ==
  ASSUME NEW q \in Seq(Turn), NEW i \in 1..Len(q)
  PROVE  /\ Without(q, i) \in Seq(Turn)
         /\ Messages(Without(q, i)) \subseteq Messages(q)
         /\ Messages(q) \subseteq Messages(Without(q, i)) \cup {q[i].msg}
  <1> DEFINE a == SubSeq(q, 1, i - 1)
             b == SubSeq(q, i + 1, Len(q))
  <1>1. a \in Seq(Turn) /\ Len(a) = i - 1 /\ \A j \in 1..(i - 1) : j \in 1..Len(q) /\ a[j] = q[j]
    OBVIOUS
  <1>2. b \in Seq(Turn) /\ Len(b) = Len(q) - i
        /\ \A j \in 1..(Len(q) - i) : i + j \in 1..Len(q) /\ b[j] = q[i + j]
    OBVIOUS
  <1>3. Len(q) \in Nat /\ i \in Nat
    OBVIOUS
  <1>4. \A j \in 1..Len(q) : j \in 1..(i - 1) \/ j = i \/ (j - i \in 1..(Len(q) - i) /\ i + (j - i) = j)
    BY <1>3
  <1>5. Without(q, i) = a \o b
    BY DEF Without
  <1> HIDE DEF a, b
  <1>6. Messages(a \o b) = Messages(a) \cup Messages(b) /\ a \o b \in Seq(Turn)
    BY <1>1, <1>2, MessagesConcat
  <1>7. Messages(a) \subseteq Messages(q) /\ Messages(b) \subseteq Messages(q)
    <2>1. \A j \in 1..Len(a) : j \in 1..Len(q) /\ a[j] = q[j]
      BY <1>1
    <2>2. \A j \in 1..Len(b) : i + j \in 1..Len(q) /\ b[j] = q[i + j]
      BY <1>2
    <2> QED BY <2>1, <2>2 DEF Messages
  <1>8. \A j \in 1..Len(q) : j = i \/ q[j].msg \in Messages(a) \cup Messages(b)
    <2> SUFFICES ASSUME NEW j \in 1..Len(q), j # i PROVE q[j].msg \in Messages(a) \cup Messages(b)
      OBVIOUS
    <2>1. CASE j \in 1..(i - 1)
      BY <1>1, <2>1 DEF Messages
    <2>2. CASE j - i \in 1..(Len(q) - i) /\ i + (j - i) = j
      <3> DEFINE h == j - i
      <3>1. h \in 1..Len(b) /\ b[h] = q[j]
        BY <1>2, <2>2
      <3> HIDE DEF h
      <3> QED BY <3>1 DEF Messages
    <2> QED BY <1>4, <2>1, <2>2
  <1> QED BY <1>5, <1>6, <1>7, <1>8 DEF Messages

\* What is started, or read, has run; nothing that ran is undone.
LEMMA StartedRuns ==
  ASSUME TypeOK, NEW m \in Ids \cup {None}
  PROVE  /\ m # None => Started(m)[m] > 0
         /\ \A x \in Ids : runs[x] > 0 => Started(m)[x] > 0
         /\ \A x \in Ids \ {m} : Started(m)[x] = runs[x]
         /\ m # None /\ runs[m] = 0 => Started(m)[m] = 1
  BY DEF TypeOK, Started

\* What waits is turns.
LEMMA QueuesAreTurns ==
  ASSUME TypeOK, NEW k \in Keys
  PROVE  queue[k] \in Seq(Turn) /\ steering[k] \in Seq(Turn) /\ owed \subseteq Ids /\ None \notin Ids
  BY HubAssumption DEF TypeOK, Ids

\* So is what leaves a queue, and what it leaves behind.
LEMMA HeadIsTurn ==
  ASSUME NEW q \in Seq(Turn), q # <<>>
  PROVE  Head(q) \in Turn /\ Head(q).msg \in Ids \cup {None} /\ Tail(q) \in Seq(Turn)
  <1>1. Head(q) \in Turn /\ Tail(q) \in Seq(Turn)
    OBVIOUS
  <1> QED BY <1>1 DEF Turn

\* A queue, or an open steering, that keeps what it had keeps it waiting.
LEMMA StaysWaiting ==
  ASSUME NEW m,
         \A k \in Keys : m \in Messages(queue[k]) => m \in Messages(queue'[k]),
         \A k \in Keys : k \in opened /\ m \in Messages(steering[k]) =>
           k \in opened' /\ m \in Messages(steering'[k])
  PROVE  IsWaiting(m) => IsWaiting(m)'
  BY DEF IsWaiting

\* However a message moves, it is kept until it runs or is withdrawn.
LEMMA AcceptedStep ==
  ASSUME TypeOK, AcceptedIsKept, FlowIs
  PROVE  AcceptedIsKept'
  <1>1. CASE Closes
    BY <1>1 DEF Closes, AcceptedIsKept
  <1> SUFFICES ASSUME ~Closes, ~closed, NEW m \in owed'
               PROVE  IsWaiting(m)' \/ runs'[m] > 0 \/ m \in withdrawn'
    BY <1>1 DEF FlowIs, AcceptedIsKept
  <1> DEFINE Kept == IsWaiting(m)' \/ runs'[m] > 0 \/ m \in withdrawn'
  <1>0. /\ None \notin Ids /\ owed \subseteq Ids
        /\ \A k \in Keys : queue[k] \in Seq(Turn) /\ steering[k] \in Seq(Turn)
    BY QueuesAreTurns, HubAssumption DEF TypeOK, Ids
  <1>2. m \in owed => m \in Ids /\ (IsWaiting(m) \/ runs[m] > 0 \/ m \in withdrawn)
    BY <1>0 DEF AcceptedIsKept
  <1>3. CASE Rests \/ \E c \in Conns, k \in Keys, x \in Ids : Sends(c, k, x)
    BY <1>2, <1>3 DEF Rests, Sends, IsWaiting
  <1>4. ASSUME NEW k \in Keys, NEW t \in Turn, Queues(k, t) PROVE Kept
    <2>1. Messages(queue'[k]) = Messages(queue[k]) \cup {t.msg}
      BY <1>0, <1>4, MessagesAppend DEF Queues
    <2>2. m = t.msg \/ m \in owed
      BY <1>4 DEF Queues
    <2>3. m = t.msg => IsWaiting(m)'
      BY <2>1 DEF IsWaiting
    <2>4. IsWaiting(m) => IsWaiting(m)'
      BY <1>4, <2>1, StaysWaiting DEF Queues, Elsewhere
    <2> QED BY <1>2, <1>4, <2>2, <2>3, <2>4 DEF Queues
  <1>5. ASSUME NEW k \in Keys, NEW t \in Turn, Steered(k, t) PROVE Kept
    <2>1. Messages(steering'[k]) = Messages(steering[k]) \cup {t.msg} /\ k \in opened'
      BY <1>0, <1>5, MessagesAppend DEF Steered
    <2>2. m = t.msg \/ m \in owed
      BY <1>5 DEF Steered
    <2>3. m = t.msg => IsWaiting(m)'
      BY <2>1 DEF IsWaiting
    <2>4. IsWaiting(m) => IsWaiting(m)'
      BY <1>5, <2>1, StaysWaiting DEF Steered, Elsewhere
    <2> QED BY <1>2, <1>5, <2>2, <2>3, <2>4 DEF Steered
  <1>6. ASSUME NEW k \in Keys, NEW t \in Turn, Reran(k, t) PROVE Kept
    <2>1. Messages(queue[k]) \subseteq Messages(queue'[k])
      <3> DEFINE s == <<t>>
      <3>1. s \in Seq(Turn)
        OBVIOUS
      <3>2. queue'[k] = s \o queue[k]
        BY <1>6 DEF Reran
      <3> HIDE DEF s
      <3> QED BY <1>0, <3>1, <3>2, MessagesConcat
    <2>2. IsWaiting(m) => IsWaiting(m)'
      BY <1>6, <2>1, StaysWaiting DEF Reran, Elsewhere
    <2> QED BY <1>2, <1>6, <2>2 DEF Reran
  <1>7. ASSUME NEW k \in Keys, Drained(k) PROVE Kept
    <2>1. Messages(queue[k]) = {Head(queue[k]).msg} \cup Messages(queue'[k])
          /\ Head(queue[k]).msg \in Ids \cup {None}
      BY <1>0, <1>7, MessagesTail, HeadIsTurn DEF Drained
    <2>2. m \in Ids
      BY <1>2, <1>7 DEF Drained
    <2>3. CASE m = Head(queue[k]).msg
      BY <1>0, <1>7, <2>1, <2>2, <2>3, StartedRuns DEF Drained
    <2>4. CASE m # Head(queue[k]).msg
      <3>1. IsWaiting(m) => IsWaiting(m)'
        BY <1>7, <2>1, <2>4, StaysWaiting DEF Drained, Elsewhere
      <3>2. runs'[m] = runs[m]
        BY <1>7, <2>1, <2>2, <2>4, StartedRuns DEF Drained
      <3> QED BY <1>2, <1>7, <3>1, <3>2 DEF Drained
    <2> QED BY <2>3, <2>4
  <1>8. ASSUME NEW k \in Keys, ReadOne(k) PROVE Kept
    <2>1. Messages(steering[k]) = {Head(steering[k]).msg} \cup Messages(steering'[k])
          /\ Head(steering[k]).msg \in Ids \cup {None}
      BY <1>0, <1>8, MessagesTail, HeadIsTurn DEF ReadOne
    <2>2. m \in Ids
      BY <1>2, <1>8 DEF ReadOne
    <2>3. CASE m = Head(steering[k]).msg
      BY <1>0, <1>8, <2>1, <2>2, <2>3, StartedRuns DEF ReadOne
    <2>4. CASE m # Head(steering[k]).msg
      <3>1. IsWaiting(m) => IsWaiting(m)'
        BY <1>8, <2>1, <2>4, StaysWaiting DEF ReadOne, Elsewhere
      <3>2. runs'[m] = runs[m]
        BY <1>8, <2>1, <2>2, <2>4, StartedRuns DEF ReadOne
      <3> QED BY <1>2, <1>8, <3>1, <3>2 DEF ReadOne
    <2> QED BY <2>3, <2>4
  <1>9. ASSUME NEW k \in Keys, Settled(k) PROVE Kept
    <2>1. Messages(queue'[k]) = Messages(queue[k]) \cup Messages(steering[k])
      BY <1>0, <1>9, MessagesConcat DEF Settled
    <2>2. ASSUME IsWaiting(m) PROVE IsWaiting(m)'
      <3>1. PICK j \in Keys : m \in Messages(queue[j]) \/ (j \in opened /\ m \in Messages(steering[j]))
        BY <2>2 DEF IsWaiting
      <3>2. CASE j = k
        BY <2>1, <3>1, <3>2 DEF IsWaiting
      <3>3. CASE j # k
        BY <1>9, <3>1, <3>3 DEF Settled, Elsewhere, IsWaiting
      <3> QED BY <3>2, <3>3
    <2> QED BY <1>2, <1>9, <2>2 DEF Settled
  <1>10. ASSUME NEW k \in Keys, Evicted(k) PROVE Kept
    BY <1>2, <1>10 DEF Evicted, IsWaiting
  <1>11. ASSUME NEW k \in Keys, NEW n \in Keys, MovedOver(k, n) PROVE Kept
    <2>1. ASSUME IsWaiting(m) PROVE IsWaiting(m)'
      <3>1. PICK j \in Keys : m \in Messages(queue[j]) \/ (j \in opened /\ m \in Messages(steering[j]))
        BY <2>1 DEF IsWaiting
      <3>2. CASE j \in opened /\ m \in Messages(steering[j])
        BY <1>11, <3>2 DEF MovedOver, IsWaiting
      <3>3. CASE m \in Messages(queue[j])
        <4>1. j # n
          <5>1. Messages(<<>>) = {}
            BY DEF Messages
          <5> QED BY <1>11, <3>3, <5>1 DEF MovedOver
        <4>2. m \in Messages(queue'[n]) \/ m \in Messages(queue'[j])
          BY <1>11, <3>3, <4>1 DEF MovedOver
        <4> QED BY <4>2 DEF IsWaiting
      <3> QED BY <3>1, <3>2, <3>3
    <2> QED BY <1>2, <1>11, <2>1 DEF MovedOver
  <1>12. ASSUME NEW k \in Keys, NEW i \in Nat, Withdrew(k, i) PROVE Kept
    <2>1. Messages(queue[k]) \subseteq Messages(queue'[k]) \cup {queue[k][i].msg}
      BY <1>0, <1>12, MessagesWithout DEF Withdrew
    <2>2. CASE m = queue[k][i].msg
      BY <1>0, <1>2, <1>12, <2>2 DEF Withdrew
    <2>3. CASE m # queue[k][i].msg
      <3>1. IsWaiting(m) => IsWaiting(m)'
        BY <1>12, <2>1, <2>3, StaysWaiting DEF Withdrew, Elsewhere
      <3> QED BY <1>2, <1>12, <3>1 DEF Withdrew
    <2> QED BY <2>2, <2>3
  <1> QED
    BY <1>3, <1>4, <1>5, <1>6, <1>7, <1>8, <1>9, <1>10, <1>11, <1>12 DEF FlowIs

-----------------------------------------------------------------------------
(* How much clients have waiting                                           *)

Counted(turns) == Cardinality(FromClients(turns))

\* How many client turns a queue counts is a number within its length.
LEMMA CountedType ==
  ASSUME NEW q \in Seq(Turn)
  PROVE  /\ FromClients(q) \subseteq 1..Len(q) /\ IsFiniteSet(FromClients(q))
         /\ Counted(q) \in Nat /\ Len(q) \in Nat /\ Counted(q) <= Len(q)
  <1>1. FromClients(q) \in SUBSET (1..Len(q)) /\ Len(q) \in Nat
    BY DEF FromClients
  <1>2. IsFiniteSet(1..Len(q)) /\ Cardinality(1..Len(q)) = Len(q)
    <2>1. 1 \in Int /\ Len(q) \in Int
      BY <1>1
    <2>2. IsFiniteSet(1..Len(q)) /\ Cardinality(1..Len(q)) = IF 1 > Len(q) THEN 0 ELSE Len(q) - 1 + 1
      BY <2>1, FS_Interval
    <2> QED BY <1>1, <2>2
  <1>3. IsFiniteSet(FromClients(q)) /\ Cardinality(FromClients(q)) <= Len(q)
    BY <1>1, <1>2, FS_Subset
  <1>4. Cardinality(FromClients(q)) \in Nat
    BY <1>3, FS_CardinalityType
  <1> QED BY <1>1, <1>3, <1>4 DEF Counted

\* An empty queue counts none.
LEMMA CountedNothing == Counted(<<>>) = 0
  <1>1. FromClients(<<>>) = {}
    BY DEF FromClients
  <1> QED BY <1>1, FS_EmptySet DEF Counted

\* Where the turns of a joined queue come from.
LEMMA ConcatTurns ==
  ASSUME NEW p \in Seq(Turn), NEW q \in Seq(Turn)
  PROVE  /\ p \o q \in Seq(Turn) /\ Len(p \o q) = Len(p) + Len(q)
         /\ Len(p) \in Nat /\ Len(q) \in Nat
         /\ \A i \in 1..Len(p) : (p \o q)[i] = p[i]
         /\ \A i \in (Len(p) + 1)..(Len(p) + Len(q)) : (p \o q)[i] = q[i - Len(p)]
  OBVIOUS

\* The turns of p are turns of q, each a different one.
Within(p, q) ==
  \E f \in [1..Len(p) -> 1..Len(q)] :
    /\ \A j \in 1..Len(p) : q[f[j]] = p[j]
    /\ \A i, j \in 1..Len(p) : f[i] = f[j] => i = j

\* Then p has no more of them.
LEMMA CountedFewer ==
  ASSUME NEW p \in Seq(Turn), NEW q \in Seq(Turn), Within(p, q)
  PROVE  Counted(p) <= Counted(q)
  <1> PICK f \in [1..Len(p) -> 1..Len(q)] :
        /\ \A j \in 1..Len(p) : q[f[j]] = p[j]
        /\ \A i, j \in 1..Len(p) : f[i] = f[j] => i = j
    BY DEF Within
  <1> DEFINE S == FromClients(p)
             T == FromClients(q)
             g == [j \in S |-> f[j]]
  <1>1. \A j \in S : j \in 1..Len(p) /\ f[j] \in T
    BY DEF FromClients
  <1>2. g \in [S -> T] /\ \A j \in S : g[j] = f[j]
    BY <1>1
  <1>3. \A i, j \in S : g[i] = g[j] => i = j
    BY <1>1, <1>2
  <1>4. IsFiniteSet(T)
    BY CountedType
  <1> HIDE DEF S, T, g
  <1>5. g \in Injection(S, T)
    BY <1>2, <1>3, Fun_IsInj
  <1>6. Cardinality(S) <= Cardinality(T)
    BY <1>4, <1>5, FS_Injection
  <1> QED BY <1>6 DEF S, T, Counted

\* What is behind the head is part of the queue.
LEMMA TailWithin ==
  ASSUME NEW q \in Seq(Turn), q # <<>>
  PROVE  Tail(q) \in Seq(Turn) /\ Within(Tail(q), q)
  <1> DEFINE r == Tail(q)
             f == [j \in 1..Len(r) |-> j + 1]
  <1>1. r \in Seq(Turn) /\ Len(r) = Len(q) - 1 /\ Len(q) \in Nat \ {0}
        /\ \A j \in 1..Len(r) : r[j] = q[j + 1]
    OBVIOUS
  <1> HIDE DEF r
  <1>2. \A j \in 1..Len(r) : f[j] = j + 1 /\ f[j] \in 1..Len(q)
    BY <1>1
  <1>3. \A i, j \in 1..Len(r) : f[i] = f[j] => i = j
    BY <1>2
  <1>4. f \in [1..Len(r) -> 1..Len(q)]
    BY <1>2
  <1> HIDE DEF f
  <1>5. \A j \in 1..Len(r) : q[f[j]] = r[j]
    BY <1>1, <1>2
  <1>6. Within(r, q)
    BY <1>2, <1>3, <1>5, <1>4 DEF Within
  <1> QED BY <1>1, <1>6 DEF r

\* Skipping one place maps no two places to one.
LEMMA SkipOne ==
  ASSUME NEW i \in Nat, NEW j \in Nat, NEW h \in Nat,
         (IF j < i THEN j ELSE j + 1) = (IF h < i THEN h ELSE h + 1)
  PROVE  j = h
  OBVIOUS

\* A queue with one turn withdrawn is part of the queue.
LEMMA WithoutWithin ==
  ASSUME NEW q \in Seq(Turn), NEW i \in 1..Len(q)
  PROVE  Without(q, i) \in Seq(Turn) /\ Within(Without(q, i), q)
  <1> DEFINE a == SubSeq(q, 1, i - 1)
             b == SubSeq(q, i + 1, Len(q))
             r == a \o b
             f == [j \in 1..Len(r) |-> IF j < i THEN j ELSE j + 1]
  <1>1. a \in Seq(Turn) /\ Len(a) = i - 1 /\ \A j \in 1..(i - 1) : a[j] = q[j]
    OBVIOUS
  <1>2. b \in Seq(Turn) /\ Len(b) = Len(q) - i /\ \A j \in 1..(Len(q) - i) : b[j] = q[i + j]
    OBVIOUS
  <1>3. Len(q) \in Nat /\ i \in Nat /\ 1 <= i /\ i <= Len(q)
    OBVIOUS
  <1> HIDE DEF a, b
  <1>4. /\ r \in Seq(Turn) /\ Len(r) = Len(a) + Len(b)
        /\ \A j \in 1..Len(a) : r[j] = a[j]
        /\ \A j \in (Len(a) + 1)..(Len(a) + Len(b)) : r[j] = b[j - Len(a)]
    BY <1>1, <1>2, ConcatTurns
  <1> HIDE DEF r
  <1>5. Len(r) = Len(q) - 1
    BY <1>1, <1>2, <1>3, <1>4
  <1>6. \A j \in 1..Len(r) : f[j] = (IF j < i THEN j ELSE j + 1)
    OBVIOUS
  <1>7. \A j \in 1..Len(r) : f[j] \in 1..Len(q)
    BY <1>3, <1>5, <1>6
  <1>11. f \in [1..Len(r) -> 1..Len(q)]
    BY <1>7
  <1> HIDE DEF f
  <1>8. \A j, h \in 1..Len(r) : f[j] = f[h] => j = h
    <2> SUFFICES ASSUME NEW j \in 1..Len(r), NEW h \in 1..Len(r), f[j] = f[h] PROVE j = h
      OBVIOUS
    <2>1. j \in Nat /\ h \in Nat
      BY <1>3, <1>5
    <2>2. f[j] = (IF j < i THEN j ELSE j + 1) /\ f[h] = (IF h < i THEN h ELSE h + 1)
      BY <1>6
    <2>3. i \in Nat
      BY <1>3
    <2> QED BY <2>1, <2>2, <2>3, SkipOne
  <1>9. \A j \in 1..Len(r) : q[f[j]] = r[j]
    <2> SUFFICES ASSUME NEW j \in 1..Len(r) PROVE q[f[j]] = r[j]
      OBVIOUS
    <2>1. CASE j < i
      <3>1. f[j] = j /\ j \in 1..(i - 1) /\ j \in 1..Len(a)
        BY <1>1, <1>3, <1>5, <1>6, <2>1
      <3> QED BY <1>1, <1>4, <3>1
    <2>2. CASE ~(j < i)
      <3>1. f[j] = j + 1
        BY <1>6, <2>2
      <3> DEFINE h == j - (i - 1)
      <3>2. h \in 1..(Len(q) - i) /\ i + h = j + 1
        BY <1>3, <1>5, <2>2
      <3>3. j \in (Len(a) + 1)..(Len(a) + Len(b)) /\ j - Len(a) = h
        BY <1>1, <1>2, <1>3, <1>5, <2>2
      <3> HIDE DEF h
      <3>4. r[j] = b[h]
        BY <1>4, <3>3
      <3>5. b[h] = q[i + h]
        BY <1>2, <3>2
      <3> QED BY <3>1, <3>2, <3>4, <3>5
    <2> QED BY <2>1, <2>2
  <1>10. Within(r, q)
    BY <1>8, <1>9, <1>11 DEF Within
  <1> QED BY <1>4, <1>10 DEF Without, r, a, b

\* Joined queues count no more than both.
LEMMA CountedConcat ==
  ASSUME NEW p \in Seq(Turn), NEW q \in Seq(Turn)
  PROVE  p \o q \in Seq(Turn) /\ Counted(p \o q) <= Counted(p) + Counted(q)
  <1> DEFINE s == p \o q
             n == Len(p)
             A == FromClients(p)
             B == FromClients(q)
             C == {j \in FromClients(s) : j > n}
             f == [j \in C |-> j - n]
  <1>1. /\ s \in Seq(Turn) /\ Len(s) = n + Len(q) /\ n \in Nat /\ Len(q) \in Nat
        /\ \A i \in 1..n : s[i] = p[i]
        /\ \A i \in (n + 1)..(n + Len(q)) : s[i] = q[i - n]
    BY ConcatTurns
  <1>2. IsFiniteSet(A) /\ IsFiniteSet(B) /\ Cardinality(A) \in Nat /\ Cardinality(B) \in Nat
    BY CountedType DEF Counted
  <1> HIDE DEF s, n
  <1>3. FromClients(s) \subseteq A \cup C
    <2> SUFFICES ASSUME NEW j \in FromClients(s), j \notin C PROVE j \in A
      OBVIOUS
    <2>1. j \in 1..Len(s) /\ ~(j > n) /\ s[j].from # None /\ ~s[j].redo
      BY DEF FromClients
    <2>2. j \in 1..n
      BY <1>1, <2>1
    <2>3. s[j] = p[j]
      BY <1>1, <2>2
    <2> QED BY <2>1, <2>2, <2>3 DEF FromClients, n
  <1>4. \A j \in C : j \in Nat /\ j - n \in B
    <2> SUFFICES ASSUME NEW j \in C PROVE j \in Nat /\ j - n \in B
      OBVIOUS
    <2>1. j \in 1..Len(s) /\ j > n /\ s[j].from # None /\ ~s[j].redo
      BY DEF FromClients
    <2>2. j \in Nat /\ j \in (n + 1)..(n + Len(q)) /\ j - n \in 1..Len(q)
      BY <1>1, <2>1
    <2>3. s[j] = q[j - n]
      BY <1>1, <2>2
    <2> QED BY <2>1, <2>2, <2>3 DEF FromClients
  <1> HIDE DEF A, B, C
  <1>5. f \in [C -> B] /\ \A j \in C : f[j] = j - n
    BY <1>4
  <1> HIDE DEF f
  <1>6. \A i, j \in C : f[i] = f[j] => i = j
    BY <1>1, <1>4, <1>5
  <1>7. f \in Injection(C, B)
    BY <1>5, <1>6, Fun_IsInj
  <1>8. IsFiniteSet(C) /\ Cardinality(C) <= Cardinality(B)
    BY <1>2, <1>7, FS_Injection
  <1>9. /\ IsFiniteSet(A \cup C) /\ IsFiniteSet(A \cap C)
        /\ Cardinality(A \cup C) = Cardinality(A) + Cardinality(C) - Cardinality(A \cap C)
    <2>1. IsFiniteSet(A \cap C)
      <3>1. A \cap C \in SUBSET A
        OBVIOUS
      <3> QED BY <1>2, <3>1, FS_Subset
    <2> QED BY <1>2, <1>8, <2>1, FS_Union
  <1>10. Cardinality(C) \in Nat /\ Cardinality(A \cap C) \in Nat
    BY <1>8, <1>9, FS_CardinalityType
  <1>11. Cardinality(FromClients(s)) <= Cardinality(A \cup C)
    <2>1. FromClients(s) \in SUBSET (A \cup C)
      BY <1>3
    <2> QED BY <1>9, <2>1, FS_Subset
  <1>12. Cardinality(FromClients(s)) \in Nat
    BY <1>1, CountedType DEF Counted
  <1>13. Cardinality(FromClients(s)) <= Cardinality(A) + Cardinality(B)
    BY <1>2, <1>8, <1>9, <1>10, <1>11, <1>12
  <1> QED BY <1>1, <1>13 DEF s, A, B, Counted

\* What is no client's new message does not count.
LEMMA CountedUnder ==
  ASSUME NEW q \in Seq(Turn), NEW t \in Turn, t.from = None \/ t.redo
  PROVE  /\ Append(q, t) \in Seq(Turn) /\ Counted(Append(q, t)) = Counted(q)
         /\ <<t>> \o q \in Seq(Turn) /\ (t.redo => Counted(<<t>> \o q) <= Counted(q))
  <1> DEFINE r == Append(q, t)
             o == <<t>>
  <1>1. /\ r \in Seq(Turn) /\ Len(r) = Len(q) + 1 /\ Len(q) \in Nat /\ r[Len(q) + 1] = t
        /\ \A i \in 1..Len(q) : r[i] = q[i]
    OBVIOUS
  <1>2. o \in Seq(Turn) /\ Len(o) = 1 /\ o[1] = t
    OBVIOUS
  <1> HIDE DEF r, o
  <1>3. FromClients(r) = FromClients(q)
    <2>1. \A i \in 1..Len(r) : i \in 1..Len(q) \/ i = Len(q) + 1
      BY <1>1
    <2>2. 1..Len(q) \subseteq 1..Len(r)
      BY <1>1
    <2> QED BY <1>1, <2>1, <2>2 DEF FromClients
  <1>4. FromClients(o) = {}
    BY <1>2 DEF FromClients
  <1>5. Counted(o) = 0
    BY <1>4, FS_EmptySet DEF Counted
  <1>6. o \o q \in Seq(Turn) /\ Counted(o \o q) <= Counted(o) + Counted(q)
    BY <1>2, CountedConcat
  <1>7. Counted(q) \in Nat
    BY CountedType
  <1>8. Counted(o \o q) <= Counted(q)
    BY <1>5, <1>6, <1>7
  <1> QED BY <1>1, <1>3, <1>6, <1>8 DEF r, o, Counted

\* The order of a sum.
LEMMA SumSwaps == \A a, b \in Nat : a + b = b + a
  OBVIOUS

\* A check that found room leaves room for the one it let in.
LEMMA RoomForOne ==
  ASSUME NEW a \in Nat, NEW b \in Nat, NEW x \in Nat, NEW y \in Nat, NEW n \in Nat,
         ~(a + b >= n), x <= a + 1, y <= b
  PROVE  x + y <= n /\ y + x <= n
  OBVIOUS

\* A turn end and a summary move what waits; only a frame that found room adds
\* to it.
LEMMA DepthStep ==
  ASSUME TypeOK, DepthIsBounded, FlowIs
  PROVE  DepthIsBounded'
  <1> DEFINE Depth(k) == Counted(queue[k]) + Counted(steering[k])
             Depth2(k) == Counted(queue'[k]) + Counted(steering'[k])
             Bounded == \A k \in Keys : Depth2(k) <= MaxQueueDepth
  <1>0. /\ \A k \in Keys : queue[k] \in Seq(Turn) /\ steering[k] \in Seq(Turn)
        /\ \A k \in Keys : Counted(queue[k]) \in Nat /\ Counted(steering[k]) \in Nat
        /\ \A k \in Keys : Len(queue[k]) \in Nat /\ Len(steering[k]) \in Nat
        /\ \A k \in Keys : Counted(queue[k]) <= Len(queue[k]) /\ Counted(steering[k]) <= Len(steering[k])
        /\ MaxQueueDepth \in Nat
    BY QueuesAreTurns, CountedType, HubAssumption
  <1>1. \A k \in Keys : Depth(k) <= MaxQueueDepth
    BY DEF DepthIsBounded, Counted
  <1>2. SUFFICES Bounded
    BY DEF DepthIsBounded, Counted
  \* One session's queue and steering change, and have no more than before.
  <1>3. ASSUME NEW k \in Keys, Elsewhere(queue, queue', k), Elsewhere(steering, steering', k),
               Depth2(k) <= MaxQueueDepth
        PROVE  Bounded
    BY <1>1, <1>3 DEF Elsewhere
  <1>4. CASE Closes
    <2> SUFFICES ASSUME NEW k \in Keys PROVE Depth2(k) <= MaxQueueDepth
      OBVIOUS
    <2>1. queue'[k] = <<>> /\ steering'[k] = steering[k]
      BY <1>4 DEF Closes
    <2>2. Depth2(k) = 0 + Counted(steering[k])
      BY <2>1, CountedNothing
    <2> QED BY <1>0, <1>1, <2>2
  <1>5. CASE Rests \/ \E c \in Conns, k \in Keys, x \in Ids : Sends(c, k, x)
    BY <1>1, <1>5 DEF Rests, Sends
  <1>6. ASSUME NEW k \in Keys, NEW t \in Turn, Queues(k, t) PROVE Bounded
    <2>1. /\ queue'[k] = Append(queue[k], t) /\ steering' = steering /\ Elsewhere(queue, queue', k)
          /\ ~Full(k) \/ t.from = None
      BY <1>6 DEF Queues
    <2>2. Append(queue[k], t) \in Seq(Turn) /\ Len(Append(queue[k], t)) = Len(queue[k]) + 1
      BY <1>0
    <2>3. CASE ~Full(k)
      <3>1. Counted(queue'[k]) <= Len(queue[k]) + 1 /\ Counted(queue'[k]) \in Nat
        BY <2>1, <2>2, CountedType
      <3>2. /\ Counted(steering'[k]) <= Len(steering[k]) /\ Counted(steering'[k]) \in Nat
            /\ Len(queue[k]) \in Nat /\ Len(steering[k]) \in Nat /\ MaxQueueDepth \in Nat
        BY <1>0, <2>1
      <3>3. ~(Len(queue[k]) + Len(steering[k]) >= MaxQueueDepth)
        BY <2>3 DEF Full, Waiting
      <3>4. Depth2(k) <= MaxQueueDepth
        BY <3>1, <3>2, <3>3, RoomForOne
      <3> QED BY <1>3, <2>1, <3>4 DEF Elsewhere
    <2>4. CASE t.from = None
      <3>1. Counted(queue'[k]) = Counted(queue[k])
        BY <1>0, <2>1, <2>4, CountedUnder
      <3>2. Depth2(k) <= MaxQueueDepth
        BY <1>1, <2>1, <3>1
      <3> QED BY <1>3, <2>1, <3>2 DEF Elsewhere
    <2> QED BY <2>1, <2>3, <2>4
  <1>7. ASSUME NEW k \in Keys, NEW t \in Turn, Steered(k, t) PROVE Bounded
    <2>1. /\ steering'[k] = Append(steering[k], t) /\ queue' = queue /\ Elsewhere(steering, steering', k)
          /\ ~Full(k) \/ t.from = None
      BY <1>7 DEF Steered
    <2>2. Append(steering[k], t) \in Seq(Turn) /\ Len(Append(steering[k], t)) = Len(steering[k]) + 1
      BY <1>0
    <2>3. CASE ~Full(k)
      <3>1. Counted(steering'[k]) <= Len(steering[k]) + 1 /\ Counted(steering'[k]) \in Nat
        BY <2>1, <2>2, CountedType
      <3>2. /\ Counted(queue'[k]) <= Len(queue[k]) /\ Counted(queue'[k]) \in Nat
            /\ Len(steering[k]) \in Nat /\ Len(queue[k]) \in Nat /\ MaxQueueDepth \in Nat
        BY <1>0, <2>1
      <3>3. ~(Len(steering[k]) + Len(queue[k]) >= MaxQueueDepth)
        BY <2>3, <3>2, SumSwaps DEF Full, Waiting
      <3>4. Depth2(k) <= MaxQueueDepth
        BY <3>1, <3>2, <3>3, RoomForOne
      <3> QED BY <1>3, <2>1, <3>4 DEF Elsewhere
    <2>4. CASE t.from = None
      <3>1. Counted(steering'[k]) = Counted(steering[k])
        BY <1>0, <2>1, <2>4, CountedUnder
      <3>2. Depth2(k) <= MaxQueueDepth
        BY <1>1, <2>1, <3>1
      <3> QED BY <1>3, <2>1, <3>2 DEF Elsewhere
    <2> QED BY <2>1, <2>3, <2>4
  <1>8. ASSUME NEW k \in Keys, NEW t \in Turn, Reran(k, t) PROVE Bounded
    <2>1. queue'[k] = <<t>> \o queue[k] /\ steering' = steering /\ Elsewhere(queue, queue', k) /\ t.redo
      BY <1>8 DEF Reran
    <2>2. Counted(queue'[k]) <= Counted(queue[k]) /\ queue'[k] \in Seq(Turn)
      BY <1>0, <2>1, CountedUnder
    <2>3. Counted(queue'[k]) \in Nat
      BY <2>2, CountedType
    <2>4. Depth2(k) <= MaxQueueDepth
      BY <1>0, <1>1, <2>1, <2>2, <2>3
    <2> QED BY <1>3, <2>1, <2>4 DEF Elsewhere
  <1>9. ASSUME NEW k \in Keys, Drained(k) PROVE Bounded
    <2>1. queue'[k] = Tail(queue[k]) /\ queue[k] # <<>> /\ steering' = steering /\ Elsewhere(queue, queue', k)
      BY <1>9 DEF Drained
    <2>2. Counted(queue'[k]) <= Counted(queue[k]) /\ queue'[k] \in Seq(Turn)
      BY <1>0, <2>1, TailWithin, CountedFewer
    <2>3. Counted(queue'[k]) \in Nat
      BY <2>2, CountedType
    <2>4. Depth2(k) <= MaxQueueDepth
      BY <1>0, <1>1, <2>1, <2>2, <2>3
    <2> QED BY <1>3, <2>1, <2>4 DEF Elsewhere
  <1>10. ASSUME NEW k \in Keys, ReadOne(k) PROVE Bounded
    <2>1. /\ steering'[k] = Tail(steering[k]) /\ steering[k] # <<>> /\ queue' = queue
          /\ Elsewhere(steering, steering', k)
      BY <1>10 DEF ReadOne
    <2>2. Counted(steering'[k]) <= Counted(steering[k]) /\ steering'[k] \in Seq(Turn)
      BY <1>0, <2>1, TailWithin, CountedFewer
    <2>3. Counted(steering'[k]) \in Nat
      BY <2>2, CountedType
    <2>4. Depth2(k) <= MaxQueueDepth
      BY <1>0, <1>1, <2>1, <2>2, <2>3
    <2> QED BY <1>3, <2>1, <2>4 DEF Elsewhere
  <1>11. ASSUME NEW k \in Keys, Settled(k) PROVE Bounded
    <2>1. /\ queue'[k] = queue[k] \o steering[k] /\ Elsewhere(queue, queue', k)
          /\ steering'[k] = <<>> /\ Elsewhere(steering, steering', k)
      BY <1>11 DEF Settled
    <2>2. queue'[k] \in Seq(Turn) /\ Counted(queue'[k]) <= Counted(queue[k]) + Counted(steering[k])
      BY <1>0, <2>1, CountedConcat
    <2>3. Counted(queue'[k]) \in Nat /\ Counted(steering'[k]) = 0
      BY <2>1, <2>2, CountedType, CountedNothing
    <2>4. Depth2(k) <= MaxQueueDepth
      BY <1>0, <1>1, <2>2, <2>3
    <2> QED BY <1>3, <2>1, <2>4
  <1>12. ASSUME NEW k \in Keys, Evicted(k) PROVE Bounded
    BY <1>1, <1>12 DEF Evicted
  <1>13. ASSUME NEW k \in Keys, NEW n \in Keys, MovedOver(k, n) PROVE Bounded
    <2> SUFFICES ASSUME NEW j \in Keys PROVE Depth2(j) <= MaxQueueDepth
      OBVIOUS
    <2>1. CASE j = k
      <3>1. queue'[j] = <<>> /\ steering'[j] = steering[j]
        BY <1>13, <2>1 DEF MovedOver
      <3>2. Depth2(j) = 0 + Counted(steering[j])
        BY <3>1, CountedNothing
      <3> QED BY <1>0, <1>1, <3>2
    <2>2. CASE j = n
      <3>1. queue'[j] = queue[k] /\ steering'[j] = <<>>
        BY <1>13, <2>2 DEF MovedOver
      <3>2. Depth2(j) = Counted(queue[k]) + 0
        BY <3>1, CountedNothing
      <3> QED BY <1>0, <1>1, <3>2
    <2>3. CASE j # k /\ j # n
      BY <1>1, <1>13, <2>3 DEF MovedOver
    <2> QED BY <2>1, <2>2, <2>3
  <1>14. ASSUME NEW k \in Keys, NEW i \in Nat, Withdrew(k, i) PROVE Bounded
    <2>1. /\ i \in 1..Len(queue[k]) /\ queue'[k] = Without(queue[k], i) /\ steering' = steering
          /\ Elsewhere(queue, queue', k)
      BY <1>14 DEF Withdrew
    <2>2. Counted(queue'[k]) <= Counted(queue[k]) /\ queue'[k] \in Seq(Turn)
      BY <1>0, <2>1, WithoutWithin, CountedFewer
    <2>3. Counted(queue'[k]) \in Nat
      BY <2>2, CountedType
    <2>4. Depth2(k) <= MaxQueueDepth
      BY <1>0, <1>1, <2>1, <2>2, <2>3
    <2> QED BY <1>3, <2>1, <2>4 DEF Elsewhere
  <1> QED
    BY <1>4, <1>5, <1>6, <1>7, <1>8, <1>9, <1>10, <1>11, <1>12, <1>13, <1>14 DEF FlowIs

-----------------------------------------------------------------------------
(* A message is in one place                                               *)

\* The turns of a queue with message m are one at most.
AtMostOnce(turns, m) == \A i, j \in 1..Len(turns) : turns[i].msg = m /\ turns[j].msg = m => i = j

\* What waits was sent to the session it waits in, has not run, and is
\* remembered there; a result is not while it waits to be read.
WaitsOnce(m) ==
  \A k \in Keys :
    /\ AtMostOnce(queue[k], m) /\ AtMostOnce(steering[k], m)
    /\ m \in Messages(queue[k]) => sentTo[m] = k /\ runs[m] = 0 /\ m \in acked[k]
    /\ m \in Messages(steering[k]) =>
         /\ sentTo[m] = k /\ runs[m] = 0 /\ m \in acked[k] \cup Posts
         /\ m \notin Messages(queue[k])

\* What has run is remembered where it was sent to.
RanOnce(m) ==
  /\ runs[m] <= 1
  /\ runs[m] > 0 => sentTo[m] # None /\ m \in acked[sentTo[m]] \cup Posts

\* The frame a handler serves is nowhere else.
ServedOnce(m) ==
  \A c \in Conns : conn[c].msg = m =>
    /\ sentTo[m] # None /\ sentTo[m] = conn[c].key /\ runs[m] = 0
    /\ \A k \in Keys : m \notin Messages(queue[k]) /\ m \notin Messages(steering[k])
    /\ \A d \in Conns \ {c} : conn[d].msg # m

\* A message the hub has not forgotten, or moved, is in one place, and a
\* resend of it finds it remembered.
OnceInv ==
  \A m \in Ids \ (forgotten \cup moved) : WaitsOnce(m) /\ RanOnce(m) /\ ServedOnce(m)

\* An empty queue holds nothing twice.
LEMMA OnceNothing == \A m : AtMostOnce(<<>>, m) /\ Messages(<<>>) = {}
  BY DEF AtMostOnce, Messages

\* Nor does a part of a queue that does not.
LEMMA OnceWithin ==
  ASSUME NEW p \in Seq(Turn), NEW q \in Seq(Turn), Within(p, q), NEW m, AtMostOnce(q, m)
  PROVE  AtMostOnce(p, m)
  <1> PICK f \in [1..Len(p) -> 1..Len(q)] :
        /\ \A j \in 1..Len(p) : q[f[j]] = p[j]
        /\ \A i, j \in 1..Len(p) : f[i] = f[j] => i = j
    BY DEF Within
  <1>1. \A j \in 1..Len(p) : f[j] \in 1..Len(q)
    OBVIOUS
  <1> QED BY <1>1 DEF AtMostOnce

\* Nor do two joined queues that share no message.
LEMMA OnceConcat ==
  ASSUME NEW p \in Seq(Turn), NEW q \in Seq(Turn), NEW m, AtMostOnce(p, m), AtMostOnce(q, m),
         m \notin Messages(p) \/ m \notin Messages(q)
  PROVE  AtMostOnce(p \o q, m)
  <1> DEFINE s == p \o q
  <1>1. /\ Len(s) = Len(p) + Len(q) /\ Len(p) \in Nat /\ Len(q) \in Nat
        /\ \A i \in 1..Len(p) : s[i] = p[i]
        /\ \A i \in (Len(p) + 1)..(Len(p) + Len(q)) : s[i] = q[i - Len(p)]
    BY ConcatTurns
  <1> HIDE DEF s
  <1>2. ASSUME NEW i \in 1..Len(s), s[i].msg = m
        PROVE  \/ i \in 1..Len(p) /\ p[i].msg = m /\ m \in Messages(p)
               \/ i - Len(p) \in 1..Len(q) /\ q[i - Len(p)].msg = m /\ m \in Messages(q)
    <2>1. CASE i <= Len(p)
      <3>1. i \in 1..Len(p) /\ s[i] = p[i]
        BY <1>1, <2>1
      <3> QED BY <1>2, <3>1 DEF Messages
    <2>2. CASE ~(i <= Len(p))
      <3> DEFINE h == i - Len(p)
      <3>1. h \in 1..Len(q) /\ i \in (Len(p) + 1)..(Len(p) + Len(q))
        BY <1>1, <2>2
      <3>2. s[i] = q[h]
        BY <1>1, <3>1
      <3> HIDE DEF h
      <3>3. q[h].msg = m /\ m \in Messages(q)
        BY <1>2, <3>1, <3>2 DEF Messages
      <3> QED BY <3>1, <3>3 DEF h
    <2> QED BY <2>1, <2>2
  <1>3. ASSUME NEW i \in 1..Len(s), NEW j \in 1..Len(s), s[i].msg = m, s[j].msg = m
        PROVE  i = j
    <2>0. i \in Nat /\ j \in Nat /\ Len(p) \in Nat
      BY <1>1
    <2>1. CASE m \notin Messages(q)
      <3>1. i \in 1..Len(p) /\ p[i].msg = m /\ j \in 1..Len(p) /\ p[j].msg = m
        BY <1>2, <1>3, <2>1
      <3> QED BY <3>1 DEF AtMostOnce
    <2>2. CASE m \notin Messages(p)
      <3>1. /\ i - Len(p) \in 1..Len(q) /\ q[i - Len(p)].msg = m
            /\ j - Len(p) \in 1..Len(q) /\ q[j - Len(p)].msg = m
        BY <1>2, <1>3, <2>2
      <3>2. i - Len(p) = j - Len(p)
        BY <3>1 DEF AtMostOnce
      <3> QED BY <2>0, <3>2
    <2> QED BY <2>1, <2>2
  <1> QED BY <1>3 DEF AtMostOnce, s

\* Nor does a queue of one turn.
LEMMA OnceFirst ==
  ASSUME NEW t \in Turn, NEW m
  PROVE  <<t>> \in Seq(Turn) /\ AtMostOnce(<<t>>, m) /\ Messages(<<t>>) = {t.msg}
  <1> DEFINE o == <<t>>
  <1>1. o \in Seq(Turn) /\ Len(o) = 1 /\ o[1] = t
    OBVIOUS
  <1>2. 1..Len(o) = {1}
    BY <1>1
  <1> HIDE DEF o
  <1>3. AtMostOnce(o, m) /\ Messages(o) = {t.msg}
    BY <1>1, <1>2 DEF AtMostOnce, Messages
  <1> QED BY <1>1, <1>3 DEF o

\* Nor does a queue with a message it did not hold at its end.
LEMMA OnceAppend ==
  ASSUME NEW q \in Seq(Turn), NEW t \in Turn, NEW m, AtMostOnce(q, m),
         t.msg # m \/ m \notin Messages(q)
  PROVE  AtMostOnce(Append(q, t), m)
  <1>1. Append(q, t) = q \o <<t>>
    OBVIOUS
  <1>2. <<t>> \in Seq(Turn) /\ AtMostOnce(<<t>>, m) /\ (t.msg # m => m \notin Messages(<<t>>))
    BY OnceFirst
  <1>3. AtMostOnce(q \o <<t>>, m)
    BY <1>2, OnceConcat
  <1> QED BY <1>1, <1>3

\* Behind the head of such a queue its message does not come again.
LEMMA OnceTail ==
  ASSUME NEW q \in Seq(Turn), q # <<>>, NEW m, AtMostOnce(q, m)
  PROVE  /\ AtMostOnce(Tail(q), m)
         /\ Head(q).msg = m => m \notin Messages(Tail(q))
  <1>1. Tail(q) \in Seq(Turn) /\ AtMostOnce(Tail(q), m)
    BY TailWithin, OnceWithin
  <1>2. /\ Len(Tail(q)) = Len(q) - 1 /\ Len(q) \in Nat \ {0} /\ Head(q) = q[1]
        /\ \A i \in 1..Len(Tail(q)) : Tail(q)[i] = q[i + 1]
    OBVIOUS
  <1> DEFINE r == Tail(q)
  <1> HIDE DEF r
  <1>3. Len(r) = Len(q) - 1 /\ Len(q) \in Nat \ {0} /\ \A i \in 1..Len(r) : r[i] = q[i + 1]
    BY <1>2 DEF r
  <1>4. ASSUME Head(q).msg = m, m \in Messages(r) PROVE FALSE
    <2>1. PICK i \in 1..Len(r) : r[i].msg = m
      BY <1>4 DEF Messages
    <2>2. i + 1 \in 1..Len(q) /\ 1 \in 1..Len(q) /\ i + 1 # 1
      BY <1>3
    <2>3. q[i + 1].msg = m /\ q[1].msg = m
      BY <1>2, <1>3, <1>4, <2>1
    <2> QED BY <2>2, <2>3 DEF AtMostOnce
  <1> QED BY <1>1, <1>4 DEF r

\* A frame being served stays nowhere else while nothing takes it up.
LEMMA ServedStays ==
  ASSUME NEW m \in Ids, None \notin Ids, ServedOnce(m), FramesGo,
         \/ \A c \in Conns : conn[c].msg # m
         \/ /\ runs'[m] = runs[m] /\ (sentTo[m] # None => sentTo'[m] = sentTo[m])
            /\ \A k \in Keys : m \in Messages(queue'[k]) \/ m \in Messages(steering'[k]) =>
                 \E j \in Keys : m \in Messages(queue[j]) \/ m \in Messages(steering[j])
  PROVE  ServedOnce(m)'
  <1> SUFFICES ASSUME NEW c \in Conns, conn'[c].msg = m
               PROVE  /\ sentTo'[m] # None /\ sentTo'[m] = conn'[c].key /\ runs'[m] = 0
                      /\ \A k \in Keys : m \notin Messages(queue'[k]) /\ m \notin Messages(steering'[k])
                      /\ \A d \in Conns \ {c} : conn'[d].msg # m
    BY DEF ServedOnce
  <1>1. conn[c].msg = m /\ conn'[c].key = conn[c].key
    BY DEF FramesGo
  <1>2. /\ sentTo[m] # None /\ sentTo[m] = conn[c].key /\ runs[m] = 0
        /\ \A k \in Keys : m \notin Messages(queue[k]) /\ m \notin Messages(steering[k])
        /\ \A d \in Conns \ {c} : conn[d].msg # m
    BY <1>1 DEF ServedOnce
  <1>3. \A d \in Conns \ {c} : conn'[d].msg # m
    BY <1>2 DEF FramesGo
  <1> QED BY <1>1, <1>2, <1>3

\* However a message moves between a frame, a queue, a steering queue and a
\* turn, it leaves the place it was in.
LEMMA OnceStep ==
  ASSUME TypeOK, OnceInv, FlowIs, "overlap" \notin Inputs
  PROVE  OnceInv'
  <1> SUFFICES ASSUME NEW m \in Ids, m \notin forgotten', m \notin moved'
               PROVE  WaitsOnce(m)' /\ RanOnce(m)' /\ ServedOnce(m)'
    BY DEF OnceInv
  <1> DEFINE Good == WaitsOnce(m)' /\ RanOnce(m)' /\ ServedOnce(m)'
  <1>0. /\ None \notin Ids /\ None \notin Keys /\ Posts \subseteq Ids
        /\ (Msgs \cup Steers) \cap Posts = {}
        /\ \A k \in Keys : queue[k] \in Seq(Turn) /\ steering[k] \in Seq(Turn)
        /\ runs[m] \in 0..2 /\ sentTo \in [Ids -> Keys \cup {None}]
    BY QueuesAreTurns, HubAssumption, NoneIsNoSession DEF TypeOK, Ids
  <1>1. m \notin forgotten /\ m \notin moved
    BY DEF FlowIs, Closes, Rests, Sends, Queues, Steered, Reran, Drained, ReadOne, Settled,
           Evicted, MovedOver, Withdrew
  <1>2. WaitsOnce(m) /\ RanOnce(m) /\ ServedOnce(m)
    BY <1>1 DEF OnceInv
  <1>3. /\ \A k \in Keys : AtMostOnce(queue[k], m) /\ AtMostOnce(steering[k], m)
        /\ \A k \in Keys : m \in Messages(queue[k]) => sentTo[m] = k /\ runs[m] = 0 /\ m \in acked[k]
        /\ \A k \in Keys : m \in Messages(steering[k]) =>
             sentTo[m] = k /\ runs[m] = 0 /\ m \in acked[k] \cup Posts /\ m \notin Messages(queue[k])
        /\ runs[m] <= 1 /\ (runs[m] > 0 => sentTo[m] # None /\ m \in acked[sentTo[m]] \cup Posts)
    BY <1>2 DEF WaitsOnce, RanOnce
  \* A message no frame, queue or turn has.
  <1>4. ASSUME sentTo[m] = None
        PROVE  /\ \A k \in Keys : m \notin Messages(queue[k]) /\ m \notin Messages(steering[k])
               /\ runs[m] = 0 /\ \A c \in Conns : conn[c].msg # m
    BY <1>0, <1>2, <1>3, <1>4 DEF ServedOnce
  <1>5. ASSUME NEW k \in Keys, NEW c \in Conns, MaySend(c, k, m), m \notin acked[k], m \notin Posts
        PROVE  /\ \A j \in Keys : m \notin Messages(queue[j]) /\ m \notin Messages(steering[j])
               /\ runs[m] = 0 /\ \A d \in Conns : conn[d].msg # m
    <2>1. sentTo[m] \in {None, k} /\ \A d \in Conns : conn[d].msg # m
      BY <1>5 DEF MaySend
    <2>2. CASE sentTo[m] = None
      BY <1>4, <2>2
    <2>3. CASE sentTo[m] = k
      BY <1>0, <1>3, <1>5, <2>1, <2>3
    <2> QED BY <2>1, <2>2, <2>3
  <1>6. CASE Closes
    <2>1. /\ \A k \in Keys : queue'[k] = <<>> /\ steering'[k] = steering[k] /\ m \notin acked[k]
          /\ runs' = runs /\ sentTo' = sentTo /\ FramesGo
      BY <1>6 DEF Closes
    <2>2. WaitsOnce(m)'
      BY <1>3, <2>1, OnceNothing DEF WaitsOnce
    <2>3. RanOnce(m)'
      BY <1>0, <1>3, <2>1 DEF RanOnce
    <2>4. ServedOnce(m)'
      BY <1>0, <1>2, <2>1, OnceNothing, ServedStays
    <2> QED BY <2>2, <2>3, <2>4
  <1>7. CASE Rests
    <2>1. /\ UNCHANGED <<queue, steering, acked, runs>> /\ FramesGo
          /\ sentTo[m] # None => sentTo'[m] = sentTo[m]
      BY <1>7 DEF Rests, SentKept
    <2>2. WaitsOnce(m)'
      BY <1>0, <1>3, <2>1 DEF WaitsOnce
    <2>3. RanOnce(m)'
      BY <1>0, <1>3, <2>1 DEF RanOnce
    <2>4. ServedOnce(m)'
      BY <1>0, <1>2, <2>1, ServedStays
    <2> QED BY <2>2, <2>3, <2>4
  <1>8. ASSUME NEW c \in Conns, NEW k \in Keys, NEW x \in Ids, Sends(c, k, x) PROVE Good
    <2>1. /\ UNCHANGED <<queue, steering, acked, runs>> /\ sentTo' = [sentTo EXCEPT ![x] = k]
          /\ conn'[c].msg = x /\ conn'[c].key = k /\ \A d \in Conns \ {c} : conn'[d] = conn[d]
      BY <1>8 DEF Sends
    <2>2. CASE x = m
      <3>1. /\ \A j \in Keys : m \notin Messages(queue[j]) /\ m \notin Messages(steering[j])
            /\ runs[m] = 0 /\ \A d \in Conns : conn[d].msg # m
        BY <1>0, <1>5, <1>8, <2>2 DEF Sends
      <3>2. sentTo'[m] = k
        BY <1>0, <2>1, <2>2
      <3>3. WaitsOnce(m)' /\ RanOnce(m)'
        BY <1>3, <2>1, <3>1 DEF WaitsOnce, RanOnce
      <3>4. ServedOnce(m)'
        BY <1>0, <2>1, <2>2, <3>1, <3>2 DEF ServedOnce
      <3> QED BY <3>3, <3>4
    <2>3. CASE x # m
      <3>1. sentTo'[m] = sentTo[m]
        BY <1>0, <2>1, <2>3
      <3>2. WaitsOnce(m)' /\ RanOnce(m)'
        BY <1>3, <2>1, <3>1 DEF WaitsOnce, RanOnce
      <3>3. ServedOnce(m)'
        BY <1>2, <2>1, <2>3, <3>1 DEF ServedOnce
      <3> QED BY <3>2, <3>3
    <2> QED BY <2>2, <2>3
  <1>9. ASSUME NEW k \in Keys, NEW t \in Turn, Queues(k, t) PROVE Good
    <2>1. /\ queue'[k] = Append(queue[k], t) /\ Elsewhere(queue, queue', k)
          /\ acked'[k] = acked[k] \cup ({t.msg} \ {None}) /\ Elsewhere(acked, acked', k)
          /\ steering' = steering /\ runs' = runs /\ FramesGo
          /\ \/ /\ sentTo' = sentTo
                /\ \E c \in Conns : conn[c].msg = t.msg /\ conn[c].key = k /\ conn'[c].msg = None
             \/ t.msg \in Posts /\ sentTo[t.msg] = None /\ sentTo' = [sentTo EXCEPT ![t.msg] = k]
      BY <1>9 DEF Queues
    <2>2. Messages(queue'[k]) = Messages(queue[k]) \cup {t.msg}
      BY <1>0, <2>1, MessagesAppend
    <2>3. \A j \in Keys : acked[j] \subseteq acked'[j]
      BY <2>1 DEF Elsewhere
    <2>4. CASE t.msg = m
      <3>1. /\ \A j \in Keys : m \notin Messages(queue[j]) /\ m \notin Messages(steering[j])
            /\ runs[m] = 0 /\ sentTo'[m] = k /\ \A c \in Conns : conn'[c].msg # m
        <4>1. CASE sentTo' = sentTo /\ \E c \in Conns : conn[c].msg = t.msg /\ conn[c].key = k /\ conn'[c].msg = None
          <5>1. PICK c \in Conns : conn[c].msg = m /\ conn[c].key = k /\ conn'[c].msg = None
            BY <2>4, <4>1
          <5> QED BY <1>0, <1>2, <2>1, <4>1, <5>1 DEF ServedOnce, FramesGo
        <4>2. CASE t.msg \in Posts /\ sentTo[t.msg] = None /\ sentTo' = [sentTo EXCEPT ![t.msg] = k]
          <5>1. sentTo[m] = None /\ sentTo'[m] = k
            BY <1>0, <2>4, <4>2
          <5> QED BY <1>0, <1>4, <2>1, <5>1 DEF FramesGo
        <4> QED BY <2>1, <4>1, <4>2
      <3>2. AtMostOnce(queue'[k], m)
        BY <1>0, <1>3, <2>1, <3>1, OnceAppend
      <3>3. m \in acked'[k]
        BY <1>0, <2>1, <2>4
      <3>4. WaitsOnce(m)'
        BY <1>3, <2>1, <3>1, <3>2, <3>3 DEF WaitsOnce, Elsewhere
      <3>5. RanOnce(m)' /\ ServedOnce(m)'
        BY <2>1, <3>1 DEF RanOnce, ServedOnce
      <3> QED BY <3>4, <3>5
    <2>5. CASE t.msg # m
      <3>1. sentTo'[m] = sentTo[m] /\ (m \in Messages(queue'[k]) <=> m \in Messages(queue[k]))
        BY <1>0, <2>1, <2>2, <2>5
      <3>2. AtMostOnce(queue'[k], m)
        BY <1>0, <1>3, <2>1, <2>5, OnceAppend
      <3>3. WaitsOnce(m)'
        BY <1>3, <2>1, <2>3, <3>1, <3>2 DEF WaitsOnce, Elsewhere
      <3>4. RanOnce(m)'
        BY <1>0, <1>3, <2>1, <2>3, <3>1 DEF RanOnce
      <3>5. ServedOnce(m)'
        BY <1>0, <1>2, <2>1, <3>1, ServedStays DEF Elsewhere
      <3> QED BY <3>3, <3>4, <3>5
    <2> QED BY <2>4, <2>5
  <1>10. ASSUME NEW k \in Keys, NEW t \in Turn, Steered(k, t) PROVE Good
    <2>1. /\ steering'[k] = Append(steering[k], t) /\ Elsewhere(steering, steering', k)
          /\ Elsewhere(acked, acked', k) /\ sentTo' = [sentTo EXCEPT ![t.msg] = k]
          /\ queue' = queue /\ runs' = runs /\ FramesGo
          /\ \/ /\ t.msg \in Steers \ acked[k] /\ acked'[k] = acked[k] \cup {t.msg}
                /\ \E c \in Conns : MaySend(c, k, t.msg)
             \/ t.msg \in Posts /\ sentTo[t.msg] = None /\ acked'[k] = acked[k]
      BY <1>10 DEF Steered
    <2>2. Messages(steering'[k]) = Messages(steering[k]) \cup {t.msg}
      BY <1>0, <2>1, MessagesAppend
    <2>3. \A j \in Keys : acked[j] \subseteq acked'[j]
      BY <2>1 DEF Elsewhere
    <2>4. CASE t.msg = m
      <3>1. /\ \A j \in Keys : m \notin Messages(queue[j]) /\ m \notin Messages(steering[j])
            /\ runs[m] = 0 /\ m \in acked'[k] \cup Posts /\ \A c \in Conns : conn[c].msg # m
        <4>1. CASE /\ t.msg \in Steers \ acked[k] /\ acked'[k] = acked[k] \cup {t.msg}
                   /\ \E c \in Conns : MaySend(c, k, t.msg)
          BY <1>0, <1>5, <2>4, <4>1
        <4>2. CASE t.msg \in Posts /\ sentTo[t.msg] = None /\ acked'[k] = acked[k]
          BY <1>4, <2>4, <4>2
        <4> QED BY <2>1, <4>1, <4>2
      <3>2. sentTo'[m] = k /\ AtMostOnce(steering'[k], m)
        BY <1>0, <1>3, <2>1, <2>4, <3>1, OnceAppend
      <3>3. WaitsOnce(m)'
        BY <1>3, <2>1, <3>1, <3>2 DEF WaitsOnce, Elsewhere
      <3>4. RanOnce(m)'
        BY <2>1, <3>1 DEF RanOnce
      <3>5. ServedOnce(m)'
        BY <1>0, <1>2, <2>1, <3>1, ServedStays
      <3> QED BY <3>3, <3>4, <3>5
    <2>5. CASE t.msg # m
      <3>1. sentTo'[m] = sentTo[m] /\ (m \in Messages(steering'[k]) <=> m \in Messages(steering[k]))
        BY <1>0, <2>1, <2>2, <2>5
      <3>2. AtMostOnce(steering'[k], m)
        BY <1>0, <1>3, <2>1, <2>5, OnceAppend
      <3>3. WaitsOnce(m)'
        BY <1>3, <2>1, <2>3, <3>1, <3>2 DEF WaitsOnce, Elsewhere
      <3>4. RanOnce(m)'
        BY <1>0, <1>3, <2>1, <2>3, <3>1 DEF RanOnce
      <3>5. ServedOnce(m)'
        BY <1>0, <1>2, <2>1, <3>1, ServedStays DEF Elsewhere
      <3> QED BY <3>3, <3>4, <3>5
    <2> QED BY <2>4, <2>5
  <1>11. ASSUME NEW k \in Keys, NEW t \in Turn, Reran(k, t) PROVE Good
    <2>1. /\ queue'[k] = <<t>> \o queue[k] /\ Elsewhere(queue, queue', k) /\ t.msg = None
          /\ UNCHANGED <<steering, runs, acked, sentTo>> /\ FramesGo
      BY <1>11 DEF Reran
    <2>2. <<t>> \in Seq(Turn) /\ AtMostOnce(<<t>>, m) /\ m \notin Messages(<<t>>)
      BY <1>0, <2>1, OnceFirst
    <2>3. AtMostOnce(queue'[k], m) /\ (m \in Messages(queue'[k]) <=> m \in Messages(queue[k]))
      <3> DEFINE o == <<t>>
      <3>1. o \in Seq(Turn) /\ AtMostOnce(o, m) /\ m \notin Messages(o) /\ queue'[k] = o \o queue[k]
        BY <2>1, <2>2
      <3> HIDE DEF o
      <3>2. AtMostOnce(queue'[k], m)
        BY <1>0, <1>3, <3>1, OnceConcat
      <3>3. Messages(queue'[k]) = Messages(o) \cup Messages(queue[k])
        BY <1>0, <3>1, MessagesConcat
      <3> QED BY <3>1, <3>2, <3>3
    <2>4. WaitsOnce(m)'
      BY <1>3, <2>1, <2>3 DEF WaitsOnce, Elsewhere
    <2>5. RanOnce(m)'
      BY <1>3, <2>1 DEF RanOnce
    <2>6. ServedOnce(m)'
      BY <1>0, <1>2, <2>1, <2>3, ServedStays DEF Elsewhere
    <2> QED BY <2>4, <2>5, <2>6
  <1>12. ASSUME NEW k \in Keys, Drained(k) PROVE Good
    <2>1. /\ queue[k] # <<>> /\ queue'[k] = Tail(queue[k]) /\ Elsewhere(queue, queue', k)
          /\ runs' = Started(Head(queue[k]).msg) /\ UNCHANGED <<steering, acked, sentTo>> /\ FramesGo
      BY <1>12 DEF Drained
    <2>2. /\ Messages(queue[k]) = {Head(queue[k]).msg} \cup Messages(queue'[k])
          /\ Head(queue[k]).msg \in Ids \cup {None}
      BY <1>0, <2>1, MessagesTail, HeadIsTurn
    <2>3. /\ AtMostOnce(queue'[k], m)
          /\ Head(queue[k]).msg = m => m \notin Messages(queue'[k])
      BY <1>0, <1>3, <2>1, OnceTail
    <2>4. CASE Head(queue[k]).msg = m
      <3>1. sentTo[m] = k /\ runs[m] = 0 /\ m \in acked[k] /\ m \notin Messages(queue'[k])
        BY <1>3, <2>2, <2>3, <2>4
      <3>2. runs'[m] = 1
        BY <1>0, <2>1, <2>4, <3>1, StartedRuns
      <3>3. \A c \in Conns : conn[c].msg # m
        BY <1>2, <2>2, <2>4 DEF ServedOnce
      <3>4. \A j \in Keys : m \notin Messages(steering[j]) /\ m \notin Messages(queue'[j])
        BY <1>3, <2>1, <2>2, <2>4, <3>1 DEF Elsewhere
      <3>5. WaitsOnce(m)'
        BY <1>3, <2>1, <2>3, <3>4 DEF WaitsOnce, Elsewhere
      <3>6. RanOnce(m)'
        BY <1>0, <2>1, <3>1, <3>2 DEF RanOnce
      <3>7. ServedOnce(m)'
        BY <1>0, <1>2, <2>1, <3>3, ServedStays
      <3> QED BY <3>5, <3>6, <3>7
    <2>5. CASE Head(queue[k]).msg # m
      <3>1. runs'[m] = runs[m] /\ (m \in Messages(queue'[k]) <=> m \in Messages(queue[k]))
        BY <1>0, <2>1, <2>2, <2>5, StartedRuns
      <3>2. WaitsOnce(m)'
        BY <1>3, <2>1, <2>3, <3>1 DEF WaitsOnce, Elsewhere
      <3>3. RanOnce(m)'
        BY <1>3, <2>1, <3>1 DEF RanOnce
      <3>4. ServedOnce(m)'
        BY <1>0, <1>2, <2>1, <3>1, ServedStays DEF Elsewhere
      <3> QED BY <3>2, <3>3, <3>4
    <2> QED BY <2>4, <2>5
  <1>13. ASSUME NEW k \in Keys, ReadOne(k) PROVE Good
    <2>1. /\ steering[k] # <<>> /\ steering'[k] = Tail(steering[k]) /\ Elsewhere(steering, steering', k)
          /\ runs' = Started(Head(steering[k]).msg) /\ UNCHANGED <<queue, acked, sentTo>> /\ FramesGo
      BY <1>13 DEF ReadOne
    <2>2. /\ Messages(steering[k]) = {Head(steering[k]).msg} \cup Messages(steering'[k])
          /\ Head(steering[k]).msg \in Ids \cup {None}
      BY <1>0, <2>1, MessagesTail, HeadIsTurn
    <2>3. /\ AtMostOnce(steering'[k], m)
          /\ Head(steering[k]).msg = m => m \notin Messages(steering'[k])
      BY <1>0, <1>3, <2>1, OnceTail
    <2>4. CASE Head(steering[k]).msg = m
      <3>1. /\ sentTo[m] = k /\ runs[m] = 0 /\ m \in acked[k] \cup Posts
            /\ m \notin Messages(steering'[k]) /\ m \notin Messages(queue[k])
        BY <1>3, <2>2, <2>3, <2>4
      <3>2. runs'[m] = 1
        BY <1>0, <2>1, <2>4, <3>1, StartedRuns
      <3>3. \A c \in Conns : conn[c].msg # m
        BY <1>2, <2>2, <2>4 DEF ServedOnce
      <3>4. \A j \in Keys : m \notin Messages(queue[j]) /\ m \notin Messages(steering'[j])
        BY <1>3, <2>1, <3>1 DEF Elsewhere
      <3>5. WaitsOnce(m)'
        BY <1>3, <2>1, <2>3, <3>4 DEF WaitsOnce, Elsewhere
      <3>6. RanOnce(m)'
        BY <1>0, <2>1, <3>1, <3>2 DEF RanOnce
      <3>7. ServedOnce(m)'
        BY <1>0, <1>2, <2>1, <3>3, ServedStays
      <3> QED BY <3>5, <3>6, <3>7
    <2>5. CASE Head(steering[k]).msg # m
      <3>1. runs'[m] = runs[m] /\ (m \in Messages(steering'[k]) <=> m \in Messages(steering[k]))
        BY <1>0, <2>1, <2>2, <2>5, StartedRuns
      <3>2. WaitsOnce(m)'
        BY <1>3, <2>1, <2>3, <3>1 DEF WaitsOnce, Elsewhere
      <3>3. RanOnce(m)'
        BY <1>3, <2>1, <3>1 DEF RanOnce
      <3>4. ServedOnce(m)'
        BY <1>0, <1>2, <2>1, <3>1, ServedStays DEF Elsewhere
      <3> QED BY <3>2, <3>3, <3>4
    <2> QED BY <2>4, <2>5
  <1>14. ASSUME NEW k \in Keys, Settled(k) PROVE Good
    <2>1. /\ queue'[k] = queue[k] \o steering[k] /\ Elsewhere(queue, queue', k)
          /\ steering'[k] = <<>> /\ Elsewhere(steering, steering', k)
          /\ acked'[k] = acked[k] \cup (Messages(steering[k]) \ {None}) /\ Elsewhere(acked, acked', k)
          /\ UNCHANGED <<runs, sentTo>> /\ FramesGo
      BY <1>14 DEF Settled
    <2>2. Messages(queue'[k]) = Messages(queue[k]) \cup Messages(steering[k])
      BY <1>0, <2>1, MessagesConcat
    <2>3. AtMostOnce(queue'[k], m)
      BY <1>0, <1>3, <2>1, OnceConcat
    <2>4. \A j \in Keys : acked[j] \subseteq acked'[j]
      BY <2>1 DEF Elsewhere
    <2>5. m \in Messages(queue'[k]) => sentTo[m] = k /\ runs[m] = 0 /\ m \in acked'[k]
      BY <1>0, <1>3, <2>1, <2>2
    <2>6. AtMostOnce(steering'[k], m) /\ m \notin Messages(steering'[k])
      BY <2>1, OnceNothing
    <2>7. WaitsOnce(m)'
      BY <1>3, <2>1, <2>3, <2>4, <2>5, <2>6 DEF WaitsOnce, Elsewhere
    <2>8. RanOnce(m)'
      BY <1>0, <1>3, <2>1, <2>4 DEF RanOnce
    <2>9. ServedOnce(m)'
      BY <1>0, <1>2, <2>1, <2>2, <2>6, ServedStays DEF Elsewhere
    <2> QED BY <2>7, <2>8, <2>9
  <1>15. ASSUME NEW k \in Keys, Evicted(k) PROVE Good
    <2>1. /\ queue[k] = <<>> /\ m \notin acked[k] /\ Elsewhere(acked, acked', k)
          /\ UNCHANGED <<queue, steering, runs, sentTo>> /\ FramesGo
      BY <1>15 DEF Evicted
    <2>2. \A j \in Keys : m \in acked[j] => m \in acked'[j]
      BY <2>1 DEF Elsewhere
    <2>3. WaitsOnce(m)'
      BY <1>3, <2>1, <2>2 DEF WaitsOnce
    <2>4. RanOnce(m)'
      BY <1>0, <1>3, <2>1, <2>2 DEF RanOnce
    <2>5. ServedOnce(m)'
      BY <1>0, <1>2, <2>1, ServedStays
    <2> QED BY <2>3, <2>4, <2>5
  <1>16. ASSUME NEW k \in Keys, NEW n \in Keys, MovedOver(k, n) PROVE Good
    <2>1. /\ queue'[n] = queue[k] /\ queue'[k] = <<>> /\ n # k
          /\ \A j \in Keys \ {k, n} : queue'[j] = queue[j]
          /\ m \notin acked[k] /\ acked[n] = {}
          /\ \A j \in Keys \ {k, n} : acked'[j] = acked[j]
          /\ UNCHANGED <<steering, runs, sentTo>> /\ FramesGo
      BY <1>16 DEF MovedOver
    <2>2. \A j \in Keys : m \in acked[j] => m \in acked'[j]
      BY <2>1
    <2>3. m \notin Messages(queue[k])
      BY <1>3, <2>1
    <2>4. \A j \in Keys : /\ AtMostOnce(queue'[j], m)
                          /\ m \in Messages(queue'[j]) => m \in Messages(queue[j])
      BY <1>3, <2>1, <2>3, OnceNothing
    <2>5. WaitsOnce(m)'
      BY <1>3, <2>1, <2>2, <2>4 DEF WaitsOnce
    <2>6. RanOnce(m)'
      BY <1>0, <1>3, <2>1, <2>2 DEF RanOnce
    <2>7. ServedOnce(m)'
      BY <1>0, <1>2, <2>1, <2>4, ServedStays
    <2> QED BY <2>5, <2>6, <2>7
  <1>17. ASSUME NEW k \in Keys, NEW i \in Nat, Withdrew(k, i) PROVE Good
    <2>1. /\ i \in 1..Len(queue[k]) /\ queue'[k] = Without(queue[k], i) /\ Elsewhere(queue, queue', k)
          /\ UNCHANGED <<steering, runs, acked, sentTo>> /\ FramesGo
      BY <1>17 DEF Withdrew
    <2>2. Messages(queue'[k]) \subseteq Messages(queue[k]) /\ AtMostOnce(queue'[k], m)
      BY <1>0, <1>3, <2>1, MessagesWithout, WithoutWithin, OnceWithin
    <2>3. WaitsOnce(m)'
      BY <1>3, <2>1, <2>2 DEF WaitsOnce, Elsewhere
    <2>4. RanOnce(m)'
      BY <1>3, <2>1 DEF RanOnce
    <2>5. ServedOnce(m)'
      BY <1>0, <1>2, <2>1, <2>2, ServedStays DEF Elsewhere
    <2> QED BY <2>3, <2>4, <2>5
  <1> QED
    BY <1>6, <1>7, <1>8, <1>9, <1>10, <1>11, <1>12, <1>13, <1>14, <1>15, <1>16, <1>17 DEF FlowIs

-----------------------------------------------------------------------------
(* The theorems *)

\* What every step needs of the state before it.
HubInv ==
  /\ TypeOK
  /\ NoTurnUnderClaim
  /\ OneTurn
  /\ ClaimInv
  /\ SteeringFollowsTurn
  /\ NoStrandedQueue
  /\ RerunInv
  /\ KeysInUse
  /\ AcceptedIsKept
  /\ DepthIsBounded

\* The inductive invariant holds at the start.
LEMMA InitHubInv == Init => HubInv
  <1> SUFFICES ASSUME Init PROVE HubInv
    OBVIOUS
  <1>1. TypeOK
    BY InitType
  <1>2. NoTurnUnderClaim /\ OneTurn
    BY NoneIsNoSlot DEF Init, NoTurnUnderClaim, OneTurn, TurnHoldsItsSession,
       MarkerHasItsTurn, Busy, NoTask
  <1>3. ClaimInv
    BY DEF Init, ClaimInv, OneHolder, ClaimsKept, HandlerHolds, SummaryHolds,
       HoldingAt, NotConnected, NoSummary
  <1>4. SteeringFollowsTurn /\ NoStrandedQueue
    BY DEF Init, SteeringFollowsTurn, NoStrandedQueue
  <1>5. RerunInv
    BY DEF Init, RerunInv, NoRedo, RedoFirst
  <1>6. KeysInUse
    BY DEF Init, KeysInUse, NotConnected, NoSummary
  <1>7. AcceptedIsKept
    BY DEF Init, AcceptedIsKept
  <1>8. DepthIsBounded
    <2> SUFFICES ASSUME NEW k \in Keys
                 PROVE  Counted(queue[k]) + Counted(steering[k]) <= MaxQueueDepth
      BY DEF DepthIsBounded, Counted
    <2>1. queue[k] = <<>> /\ steering[k] = <<>>
      BY DEF Init
    <2>2. Counted(queue[k]) = 0 /\ Counted(steering[k]) = 0
      BY <2>1, CountedNothing
    <2> QED BY <2>2, HubAssumption
  <1> QED BY <1>1, <1>2, <1>3, <1>4, <1>5, <1>6, <1>7, <1>8 DEF HubInv

\* Every step keeps it.
LEMMA HubInvStep == HubInv /\ [Next]_vars => HubInv'
  <1> SUFFICES ASSUME HubInv, [Next]_vars PROVE HubInv'
    OBVIOUS
  <1>1. TypeOK' /\ NoTurnUnderClaim' /\ OneTurn' /\ ClaimInv'
    BY TypeStep, ClaimStep, TurnStepKeeps, HolderStep DEF HubInv
  <1>2. SteeringFollowsTurn' /\ NoStrandedQueue' /\ RerunInv'
    BY SteeringStep, StrandedStep, RerunStep DEF HubInv
  <1>3. KeysInUse' /\ FlowIs
    BY KeysStep, FlowStep DEF HubInv
  <1>4. AcceptedIsKept' /\ DepthIsBounded'
    BY <1>3, AcceptedStep, DepthStep DEF HubInv
  <1> QED BY <1>1, <1>2, <1>3, <1>4 DEF HubInv

\* The inductive invariant the theorems below are read off.
THEOREM HubInvariant == Spec => []HubInv
  BY InitHubInv, HubInvStep, PTL DEF Spec

\* Every value has its shape, and a session the hub has evicted, or never
\* opened, has nothing waiting, running, claimed or remembered.
THEOREM TypeCorrect == Spec => []TypeOK
  <1>1. HubInv => TypeOK
    BY DEF HubInv
  <1> QED BY HubInvariant, <1>1, PTL

\* However turns, stops, evictions and a shutdown interleave, a session runs
\* one uncancelled turn at a time.
THEOREM OneTurnPerSession == Spec => []TurnHoldsItsSession
  <1>1. HubInv => TurnHoldsItsSession
    BY DEF HubInv, OneTurn
  <1> QED BY HubInvariant, <1>1, PTL

\* No session is left busy without a turn task that will free it.
THEOREM BusyMeansATurn == Spec => []MarkerHasItsTurn
  <1>1. HubInv => MarkerHasItsTurn
    BY DEF HubInv, OneTurn
  <1> QED BY HubInvariant, <1>1, PTL

\* No turn runs on a session while a rewind or a summary holds it.
THEOREM ClaimExcludesTurns == Spec => []NoTurnUnderClaim
  <1>1. HubInv => NoTurnUnderClaim
    BY DEF HubInv
  <1> QED BY HubInvariant, <1>1, PTL

\* Until a shutdown every claim has exactly one holder, which will let it go.
THEOREM OneHolderPerClaim == Spec => []ClaimHasOneHolder
  <1>1. HubInv => ClaimHasOneHolder
    BY HoldersOneByOne DEF HubInv, ClaimInv
  <1> QED BY HubInvariant, <1>1, PTL

\* The steering queue is open exactly while a turn runs, and empty otherwise.
THEOREM SteeringHasATurn == Spec => []SteeringFollowsTurn
  <1>1. HubInv => SteeringFollowsTurn
    BY DEF HubInv
  <1> QED BY HubInvariant, <1>1, PTL

\* A queue nothing stands in front of has somebody on the way to drain it.
THEOREM NothingStranded == Spec => []NoStrandedQueue
  <1>1. HubInv => NoStrandedQueue
    BY DEF HubInv
  <1> QED BY HubInvariant, <1>1, PTL

\* A rerun is always the next turn of its session.
THEOREM RerunGoesFirst == Spec => []RerunIsNext
  <1>1. HubInv => RerunIsNext
    BY RerunFirst DEF HubInv
  <1> QED BY HubInvariant, <1>1, PTL

\* What the hub accepted is waiting, was run or read, or was withdrawn: until
\* a shutdown no turn end, refusal, rewind, summary or eviction drops it.
THEOREM AcceptedStays == Spec => []AcceptedIsKept
  <1>1. HubInv => AcceptedIsKept
    BY DEF HubInv
  <1> QED BY HubInvariant, <1>1, PTL

\* What clients have waiting in a session stays under the depth cap, also when
\* a turn end or a summary joins two queues that were each under it.
THEOREM DepthStaysBounded == Spec => []DepthIsBounded
  <1>1. HubInv => DepthIsBounded
    BY DEF HubInv
  <1> QED BY HubInvariant, <1>1, PTL

\* While no two connections serve one frame at once, a message runs once
\* however often it is resent, unless the session that remembered it was
\* evicted, closed, or emptied into a summary's continuation.
THEOREM RunsOnceUnlessForgotten ==
  ASSUME "overlap" \notin Inputs
  PROVE  Spec => []RunsOnce
  <1>1. Init => OnceInv
    BY OnceNothing, HubAssumption DEF Init, OnceInv, WaitsOnce, RanOnce, ServedOnce,
       NotConnected, Ids
  <1>2. HubInv /\ OnceInv /\ [Next]_vars => OnceInv'
    BY FlowStep, OnceStep DEF HubInv
  <1>3. HubInv /\ OnceInv => RunsOnce
    <2> SUFFICES ASSUME HubInv, OnceInv, NEW m \in Ids, runs[m] > 1
                 PROVE  m \in forgotten \cup moved
      BY DEF RunsOnce
    <2>1. runs[m] \in 0..2
      BY DEF HubInv, TypeOK
    <2>2. m \notin forgotten \cup moved => runs[m] <= 1
      BY DEF OnceInv, RanOnce
    <2> QED BY <2>1, <2>2
  <1> QED BY HubInvariant, <1>1, <1>2, <1>3, PTL DEF Spec

=============================================================================
