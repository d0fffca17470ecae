--------------------------- MODULE SchedulerProofs ---------------------------
(***************************************************************************)
(* What TLAPS proves of Scheduler for every set of jobs, callers and runs, *)
(* any schedules and edits, and any limit.                                 *)
(***************************************************************************)
EXTENDS Scheduler, FiniteSetTheorems, TLAPS

-----------------------------------------------------------------------------
(* The inductive invariant *)

\* A task has its job, and until it has settled the copy it was started with.
TaskInv ==
  \A r \in Runs : run[r].at # "free" =>
    /\ run[r].id \in Jobs
    /\ run[r].at # "leave" => run[r].as \in Job

\* The slot of a run's job names the run.
SlotInv == \A r \in Runs : run[r].at \in InFlight => held[run[r].id] = r

\* A row that is pending has a task that will close it, or was left by a
\* process that ended.
PendingInv == \A r \in pending : run[r].at \in {"rowed", "turn", "missed", "free"}

\* The engine's thread exists after start, and has one start or miss of its own
\* in hand at most, in the middle of a pass.
ByEngine(r) == run[r].by \in {"boot", "tick"} /\ run[r].at \in Starting \cup Missing
EngineInv ==
  /\ proc \in {"down", "serving"} => loop = "off"
  /\ \A r \in Runs : ByEngine(r) => loop \in {"pass", "miss"}
  /\ \A r, q \in Runs : ByEngine(r) /\ ByEngine(q) => r = q

\* The copies of a job nobody edited under them say what its row says.
Same(as, row) == as.sched = row.sched /\ as.enabled = row.enabled
CopyInv ==
  \A j \in Jobs \ stale :
    /\ \A c \in todo : c.id = j => Same(c.as, job[j])
    /\ \A u \in Users : asking[u] \in Copy /\ asking[u].id = j => Same(asking[u].as, job[j])
    /\ \A r \in Runs : run[r].at \notin {"free", "leave"} /\ run[r].id = j
                         => Same(run[r].as, job[j])

\* What is to be written as a next time fits the copy it comes from.
Proper(as, t) == IF OneShot(as.sched) \/ ~as.enabled THEN t = 0 ELSE t > 0
Timed(e) ==
  /\ ~e.enabled => e.next = 0
  /\ e.enabled /\ OneShot(e.sched) => e.next = e.sched.when
  /\ e.enabled /\ ~OneShot(e.sched) => e.next > 0
TimeInv ==
  /\ \A u \in Users : asking[u] \in Change => Timed(asking[u])
  /\ \A c \in todo : c.as.enabled
  /\ \A r \in Runs : run[r].at \in Starting => Proper(run[r].as, run[r].next)
  /\ \A r \in Runs : run[r].at \in Missing => OneShot(run[r].as.sched)

\* What ticks have going.
Ticking == {r \in Runs : run[r].by = "tick" /\ run[r].at \in InFlight}

\* What a tick has counted, and then what it has read and not yet started, fits
\* in the limit beside what ticks have going: nothing but a tick adds to that.
LimitInv ==
  /\ Cardinality(Ticking) <= Concurrency
  /\ loop = "read" => Cardinality(Ticking) + room <= Concurrency
  /\ loop = "pass" /\ ~boot => /\ IsFiniteSet(todo)
                               /\ Cardinality(Ticking) + Cardinality(todo) <= Concurrency

\* A job the loop has in hand is in hand once: as a copy it has read, or as the
\* start or miss it is at.
HandInv ==
  /\ \A c, d \in todo : c.id = d.id => c = d
  /\ \A r \in Runs : ByEngine(r) => \A c \in todo : c.id # run[r].id

\* A one-shot the timer has started since it was last scheduled ...
Spent(j) == job[j].there /\ OneShot(job[j].sched) /\ drove[j] # 0

\* ... was started once, has no next time, and the loop has no copy of it and no
\* start.
SpentInv ==
  \A j \in Jobs \ stale : Spent(j) =>
    /\ drove[j] = 1 /\ job[j].next = 0
    /\ \A c \in todo : c.id # j
    /\ \A r \in Runs : ByEngine(r) /\ run[r].at \in Starting => run[r].id # j

SchedulerInv ==
  /\ TypeOK /\ TaskInv /\ SlotInv
  /\ PendingInv /\ PendingHasItsRun /\ EngineInv
  /\ CopyInv /\ TimeInv /\ NextRunFits
  /\ LimitInv /\ HandInv /\ SpentInv

-----------------------------------------------------------------------------
(* Types *)

\* A next time is a time.
LEMMA TimesAreTimes ==
  ASSUME NEW sched \in Schedules, NEW from \in Nat, NEW enabled \in BOOLEAN, now \in Nat
  PROVE  /\ NextRunAfter(sched, from) \in Nat
         /\ ~OneShot(sched) => NextRunAfter(sched, from) > 0
         /\ FirstRunAt(sched, enabled) \in Nat
BY SchedulerAssumption DEF NextRunAfter, FirstRunAt, OneShot

\* The time a run writes suits the job it holds.
LEMMA RunTimes ==
  ASSUME NEW as \in Job, now \in Nat
  PROVE  NextRunFor(as) \in Nat /\ Proper(as, NextRunFor(as))
BY TimesAreTimes DEF NextRunFor, Proper, Job

\* A table with one time moved is a table.
LEMMA ScheduledTypes ==
  ASSUME job \in [Jobs -> Job], NEW j \in Jobs, NEW t \in Nat
  PROVE  /\ Scheduled(j, t) \in [Jobs -> Job]
         /\ \A i \in Jobs : /\ Scheduled(j, t)[i].sched = job[i].sched
                            /\ Scheduled(j, t)[i].enabled = job[i].enabled
                            /\ Scheduled(j, t)[i].once = job[i].once
                            /\ Scheduled(j, t)[i].there = job[i].there
                            /\ Scheduled(j, t)[i].next =
                                 IF i = j /\ job[j].there THEN t ELSE job[i].next
BY DEF Scheduled, Job

\* The table without a job.
Gone(j) == [job EXCEPT ![j].there = FALSE]
\* A table without a job is a table, and changes no other.
LEMMA GoneTypes ==
  ASSUME job \in [Jobs -> Job], NEW j \in Jobs
  PROVE  /\ Gone(j) \in [Jobs -> Job]
         /\ \A i \in Jobs : /\ Gone(j)[i].sched = job[i].sched
                            /\ Gone(j)[i].enabled = job[i].enabled
                            /\ Gone(j)[i].next = job[i].next
                            /\ Gone(j)[i].there => job[i].there
BY DEF Gone, Job

\* A row that is read is a copy of the job.
LEMMA ReadTypes ==
  ASSUME TypeOK, NEW j \in Jobs
  PROVE  Read(j) \in Copy /\ Read(j).id = j /\ Read(j).as = job[j]
BY DEF TypeOK, Read, Copy

\* Nobody is no job's copy.
LEMMA CopiesAreSomebody ==
  /\ \A c \in Copy : c # Nobody /\ c.id \in Jobs /\ c.as \in Job
  /\ \A c \in Copy \cup {Nobody} : c # Nobody => c \in Copy
BY SchedulerAssumption DEF Copy, Nobody

\* A change is neither a copy nor nobody's.
LEMMA ChangesAreChanges ==
  /\ Nobody \notin Change
  /\ \A c \in Copy : c \notin Change
  /\ \A c \in Change : c # Nobody /\ c.id \in Jobs
<1>1. \A c \in Copy : DOMAIN c = {"id", "as"}
  BY DEF Copy
<1>2. \A c \in Change : "given" \in DOMAIN c
  BY DEF Change
<1>3. \A c \in Change : c.id \in Jobs
  BY DEF Change
<1>4. Nobody.id = 0 /\ 0 \notin Jobs
  BY SchedulerAssumption DEF Nobody
<1>5. QED
  BY <1>1, <1>2, <1>3, <1>4

\* A free place, and one that is over, are tasks.
LEMMA TasksAreTasks ==
  ASSUME TypeOK
  PROVE  /\ NoTask \in Task /\ NoTask.at = "free"
         /\ \A r \in Runs : Over(r) \in Task /\ Over(r).at = "free"
BY DEF TypeOK, NoTask, Over, Task, Callers, Nobody

\* The place chosen is free.
LEMMA PlaceIsAPlace ==
  ASSUME Places # {}
  PROVE  Place \in Runs /\ run[Place].at = "free" /\ Place \notin pending
BY DEF Place, Places

\* The room of a tick is a number.
LEMMA RoomTypes ==
  ASSUME TypeOK
  PROVE  Room \in Nat
<1>1. Running \in Nat
  BY SchedulerAssumption, FS_Subset, FS_CardinalityType DEF Running
<1>2. QED
  BY <1>1, SchedulerAssumption DEF Room

\* The end of the process keeps the types.
LEMMA EndTypes ==
  ASSUME TypeOK, ProcessEnds, UNCHANGED <<now, job, stale, drove>>,
         pending' \in SUBSET Runs, events' \in Nat
  PROVE  TypeOK'
BY TasksAreTasks, SchedulerAssumption DEF TypeOK, ProcessEnds, Copy, Task

\* A claim writes one place and one slot.
LEMMA ClaimTypes ==
  ASSUME TypeOK, NEW copy \in Copy, NEW by \in Callers, Claim(copy, by)
  PROVE  run' \in [Runs -> Task] /\ held' \in [Jobs -> Runs \cup {0}]
<1>1. copy.id \in Jobs /\ copy.as \in Job
  BY CopiesAreSomebody
<1>2. NextRunFor(copy.as) \in Nat
  BY <1>1, RunTimes DEF TypeOK
<1>3. QED
  BY <1>1, <1>2, PlaceIsAPlace DEF TypeOK, Claim, Task, Starting, InFlight

\* A step of a run's task keeps the types.
LEMMA RunStepTypes ==
  ASSUME TypeOK, TaskInv, NEW r \in Runs, RunStep(r)
  PROVE  TypeOK'
<1> DEFINE j == run[r].id
<1>1. /\ run[r] \in Task /\ NoTask \in Task
      /\ run[r].at # "free" => j \in Jobs
      /\ run[r].at \notin {"free", "leave"} => run[r].as \in Job
  BY TasksAreTasks DEF TypeOK, TaskInv
<1>2. CASE WriteRow(r)
  BY <1>1, <1>2 DEF WriteRow, TypeOK, Task, engine, Starting, InFlight
<1>3. CASE RowRefused(r)
  <2>1. CASE run[r].by = "boot"
    BY <1>3, <2>1, EndTypes DEF RowRefused, store, TypeOK
  <2>2. CASE run[r].by # "boot"
    BY <1>1, <1>3, <2>2 DEF RowRefused, Dropped, store, TypeOK
  <2>3. QED
    BY <2>1, <2>2
<1>4. CASE Launch(r)
  <2>1. run[r].next \in Nat
    BY <1>1 DEF Task
  <2>2. job' \in [Jobs -> Job]
    BY <1>1, <1>4, <2>1, ScheduledTypes DEF Launch, Provisional, TypeOK
  <2>3. run' \in [Runs -> Task]
    BY <1>1, <1>4 DEF Launch, TypeOK, Task, Starting, InFlight
  <2>4. drove' \in [Jobs -> 0..2]
    BY <1>1, <1>4 DEF Launch, Driven, TypeOK
  <2>5. worked' \in BOOLEAN
    BY <1>4 DEF Launch, TypeOK
  <2>6. QED
    BY <1>4, <2>2, <2>3, <2>4, <2>5 DEF Launch, TypeOK
<1>5. CASE Finish(r)
  BY <1>1, <1>5 DEF Finish, RowClosed, TypeOK, Task, InFlight, engine
<1>6. CASE Settle(r)
  <2>1. j \in Jobs /\ run[r].as \in Job
    BY <1>1, <1>6 DEF Settle
  <2>2. NextRunFor(run[r].as) \in Nat
    BY <2>1, RunTimes DEF TypeOK
  <2>3. job' \in [Jobs -> Job]
    <3>1. job' \in {Gone(j), job, Scheduled(j, NextRunFor(run[r].as))}
      BY <1>6 DEF Settle, Gone
    <3>2. QED
      BY <2>1, <2>2, <3>1, GoneTypes, ScheduledTypes DEF TypeOK
  <2>4. run' \in [Runs -> Task] /\ pending' \in SUBSET Runs
    BY <1>1, <1>6 DEF Settle, TypeOK, Task, InFlight
  <2>5. QED
    BY <1>6, <2>3, <2>4 DEF Settle, TypeOK, engine
<1>7. CASE Leave(r)
  BY <1>1, <1>7 DEF Leave, Dropped, store, engine, TypeOK
<1>8. CASE MissClose(r)
  BY <1>1, <1>8 DEF MissClose, RowClosed, TypeOK, Task, Missing, engine
<1>9. CASE MissUnschedule(r)
  <2>1. job' \in [Jobs -> Job]
    BY <1>1, <1>9, ScheduledTypes DEF MissUnschedule, TypeOK
  <2>2. QED
    BY <1>1, <1>9, <2>1 DEF MissUnschedule, TypeOK, engine
<1>10. QED
  BY <1>2, <1>3, <1>4, <1>5, <1>6, <1>7, <1>8, <1>9 DEF RunStep

\* A step of the engine keeps the types.
LEMMA EngineStepTypes ==
  ASSUME TypeOK, EngineStep
  PROVE  TypeOK'
<1>1. CASE Reconcile
  BY <1>1 DEF Reconcile, Reconciled, TypeOK
<1>2. CASE Sweep
  <2>1. todo' \in SUBSET Copy
    BY <1>2, ReadTypes DEF Sweep, Due
  <2>2. QED
    BY <1>2, <2>1 DEF Sweep, store, TypeOK
<1>3. CASE Miss
  <2>1. PICK copy \in todo : MissOneShot(copy) \/ MissRecurring(copy)
    BY <1>3 DEF Miss, Foremost
  <2>2. copy.id \in Jobs /\ copy.as \in Job
    BY CopiesAreSomebody DEF TypeOK
  <2>3. CASE MissOneShot(copy)
    <3>1. CASE job[copy.id].there
      <4>1. Place \in Runs
        BY <2>3, <3>1, PlaceIsAPlace DEF MissOneShot
      <4>2. run' \in [Runs -> Task]
        BY <2>2, <2>3, <3>1, <4>1 DEF MissOneShot, TypeOK, Task, Missing, Callers
      <4>3. QED
        BY <1>3, <2>3, <3>1, <4>1, <4>2 DEF Miss, MissOneShot, TypeOK
    <3>2. CASE ~job[copy.id].there
      BY <1>3, <2>3, <3>2, EndTypes DEF Miss, MissOneShot, TypeOK
    <3>3. QED
      BY <3>1, <3>2
  <2>4. CASE MissRecurring(copy)
    <3>1. NextRunAfter(copy.as.sched, now) \in Nat
      BY <2>2, TimesAreTimes DEF Job, TypeOK
    <3>2. job' \in [Jobs -> Job]
      BY <2>2, <2>4, <3>1, ScheduledTypes DEF MissRecurring, TypeOK
    <3>3. QED
      BY <1>3, <2>4, <3>2 DEF Miss, MissRecurring, TypeOK
  <2>5. QED
    BY <2>1, <2>3, <2>4
<1>4. CASE StartNext
  <2>1. PICK copy \in todo :
          /\ todo' = todo \ {copy}
          /\ \/ Claim(copy, "boot") \/ Claim(copy, "tick")
             \/ UNCHANGED <<run, held>>
    BY <1>4 DEF StartNext, Foremost
  <2>2. run' \in [Runs -> Task] /\ held' \in [Jobs -> Runs \cup {0}]
    BY <2>1, ClaimTypes DEF TypeOK, Callers
  <2>3. QED
    BY <1>4, <2>1, <2>2 DEF StartNext, store, TypeOK
<1>5. CASE PassEnds
  BY <1>5 DEF PassEnds, store, TypeOK
<1>6. CASE Look
  <2>1. \A t \in Times : t \in Nat
    BY DEF Times, TypeOK, Job
  <2>2. until' \in Nat
    BY <1>6, <2>1 DEF Look, Earliest
  <2>3. QED
    BY <1>6, <2>2 DEF Look, store, TypeOK
<1>7. CASE Woken
  BY <1>7 DEF Woken, store, TypeOK
<1>8. CASE SleepEnds
  BY <1>8 DEF SleepEnds, store, TypeOK
<1>9. CASE Retry
  BY <1>9 DEF Retry, store, TypeOK
<1>10. CASE CountRoom
  BY <1>10, RoomTypes DEF CountRoom, store, TypeOK
<1>11. CASE ReadDue
  <2>1. todo' \in SUBSET Copy
    BY <1>11, ReadTypes DEF ReadDue, FirstDue, Due
  <2>2. QED
    BY <1>11, <2>1 DEF ReadDue, store, TypeOK
<1>12. QED
  BY <1>1, <1>2, <1>3, <1>4, <1>5, <1>6, <1>7, <1>8, <1>9, <1>10, <1>11 DEF EngineStep

\* What an update is given, or what the job has.
LEMMA GivenTypes ==
  ASSUME NEW e \in Edits \cup Change, NEW sched \in Schedules, NEW enabled \in BOOLEAN
  PROVE  /\ Given(e, "sched", sched) \in Schedules
         /\ Given(e, "enabled", enabled) \in BOOLEAN
BY SchedulerAssumption DEF Given, Change

\* What an update carries from its read to its write.
Drawn(e, sched, enabled) ==
  [id |-> e.job, given |-> e.given, sched |-> sched, enabled |-> enabled,
   next |-> FirstRunAt(sched, enabled)]

\* It is a change, whose time suits it.
LEMMA DrawnTypes ==
  ASSUME now \in Nat, NEW e \in Edits, NEW sched \in Schedules, NEW enabled \in BOOLEAN
  PROVE  Drawn(e, sched, enabled) \in Change /\ Timed(Drawn(e, sched, enabled))
<1>1. FirstRunAt(sched, enabled) \in Nat /\ (~OneShot(sched) => NextRunAfter(sched, now) > 0)
  BY TimesAreTimes
<1>2. e.job \in Jobs /\ e.given \in SUBSET {"sched", "enabled"}
  BY SchedulerAssumption
<1>3. Drawn(e, sched, enabled) \in Change
  BY <1>1, <1>2 DEF Drawn, Change
<1>4. Timed(Drawn(e, sched, enabled))
  BY <1>1 DEF Drawn, Timed, FirstRunAt
<1>5. QED
  BY <1>3, <1>4

\* Reading for an update gives its caller a change whose time suits it.
LEMMA AskEditTypes ==
  ASSUME TypeOK, NEW u \in Users, NEW e \in Edits, AskEdit(u, e)
  PROVE  \E c \in Change : Timed(c) /\ asking' = [asking EXCEPT ![u] = c]
<1> DEFINE sched == Given(e, "sched", job[e.job].sched)
           enabled == Given(e, "enabled", job[e.job].enabled)
<1>1. job[e.job].sched \in Schedules /\ job[e.job].enabled \in BOOLEAN
  BY SchedulerAssumption DEF TypeOK, Job
<1>2. sched \in Schedules /\ enabled \in BOOLEAN
  BY <1>1, GivenTypes
<1>3. asking' = [asking EXCEPT ![u] = Drawn(e, sched, enabled)]
  BY DEF AskEdit, Drawn
<1>4. Drawn(e, sched, enabled) \in Change /\ Timed(Drawn(e, sched, enabled))
  <2> HIDE DEF sched, enabled
  <2>1. QED
    BY <1>2, DrawnTypes DEF TypeOK
<1>5. QED
  BY <1>3, <1>4

\* A job as a change leaves it is a job, and nothing overtook it if the schedule
\* is the one the time was worked out for.
LEMMA EditedTypes ==
  ASSUME TypeOK, NEW e \in Change
  PROVE  /\ Patched(e) \in Job
         /\ Patched(e).next = e.next
         /\ ~Overtaken(e) => Patched(e).sched = e.sched /\ Patched(e).enabled = e.enabled
<1> DEFINE sched == Given(e, "sched", job[e.id].sched)
           enabled == Given(e, "enabled", job[e.id].enabled)
<1>1. /\ e.id \in Jobs /\ e.next \in Nat /\ job[e.id] \in Job
      /\ job[e.id].sched \in Schedules /\ job[e.id].enabled \in BOOLEAN
  BY DEF TypeOK, Job, Change
<1>2. sched \in Schedules /\ enabled \in BOOLEAN
  BY <1>1, GivenTypes
<1>3. Patched(e) = [job[e.id] EXCEPT !.sched = sched, !.enabled = enabled, !.next = e.next]
  BY DEF Patched
<1> HIDE DEF sched, enabled
<1>4. Patched(e) \in Job /\ Patched(e).next = e.next
  BY <1>1, <1>2, <1>3 DEF Job
<1>5. QED
  BY <1>4 DEF Overtaken

\* What comes from outside.
Outside ==
  \/ \E u \in Users : \/ RunNow(u) \/ Edit(u)
                       \/ \E j \in Jobs : AskRun(u, j)
                       \/ \E e \in Edits : AskEdit(u, e)
  \/ \E j \in Jobs : Delete(j)
  \/ Advance \/ Boot \/ Start \/ Stop \/ Halt

\* What comes from outside keeps the types.
LEMMA OutsideTypes ==
  ASSUME TypeOK, Outside
  PROVE  TypeOK'
<1>1. ASSUME NEW u \in Users, RunNow(u)
      PROVE  TypeOK'
  <2>1. asking[u] \in Copy
    BY <1>1, CopiesAreSomebody DEF RunNow, TypeOK
  <2>2. run' \in [Runs -> Task] /\ held' \in [Jobs -> Runs \cup {0}]
    BY <1>1, <2>1, ClaimTypes DEF RunNow, TypeOK, Callers
  <2>3. QED
    BY <1>1, <2>2 DEF RunNow, TypeOK, store, engine
<1>2. ASSUME NEW u \in Users, NEW j \in Jobs, AskRun(u, j)
      PROVE  TypeOK'
  BY <1>2, ReadTypes DEF AskRun, Happens, TypeOK, store, engine
<1>11. ASSUME NEW u \in Users, NEW e \in Edits, AskEdit(u, e)
      PROVE  TypeOK'
  <2>1. asking' \in [Users -> Copy \cup Change \cup {Nobody}]
    BY <1>11, AskEditTypes DEF TypeOK
  <2>2. QED
    BY <1>11, <2>1 DEF AskEdit, Happens, TypeOK, store, engine
<1>3. ASSUME NEW u \in Users, Edit(u)
      PROVE  TypeOK'
  <2>1. PICK e \in Change : e = asking[u]
    BY <1>3 DEF Edit
  <2>2. e.id \in Jobs /\ Patched(e) \in Job
    BY EditedTypes, ChangesAreChanges
  <2>3. job' \in [Jobs -> Job]
    BY <1>3, <2>1, <2>2 DEF Edit, TypeOK
  <2>6. drove' \in [Jobs -> 0..2]
    BY <1>3, <2>1, <2>2 DEF Edit, TypeOK
  <2>7. stale' \in SUBSET Jobs /\ wake' \in BOOLEAN
    <3>1. wake' \in {wake, Refreshed} /\ Refreshed \in BOOLEAN
      BY <1>3 DEF Edit, Refreshed, TypeOK
    <3>2. stale' \in {stale, stale \cup {e.id}, stale \ {e.id}}
      BY <1>3, <2>1 DEF Edit
    <3>3. QED
      BY <2>2, <3>1, <3>2 DEF TypeOK
  <2>4. stale' \in SUBSET Jobs /\ drove' \in [Jobs -> 0..2] /\ wake' \in BOOLEAN
    BY <2>6, <2>7
  <2>5. QED
    BY <1>3, <2>3, <2>4 DEF Edit, TypeOK, engine
<1>4. ASSUME NEW j \in Jobs, Delete(j)
      PROVE  TypeOK'
  <2>1. job' \in [Jobs -> Job]
    BY <1>4, GoneTypes DEF Delete, Gone, TypeOK
  <2>2. QED
    BY <1>4, <2>1 DEF Delete, Happens, Refreshed, TypeOK, engine
<1>5. CASE Advance
  BY <1>5 DEF Advance, TypeOK, store, engine
<1>6. CASE Boot
  BY <1>6 DEF Boot, TypeOK, store, engine
<1>7. CASE Start
  BY <1>7 DEF Start, TypeOK, store
<1>8. CASE Stop
  BY <1>8 DEF Stop, Happens, TypeOK, store, engine
<1>9. CASE Halt
  BY <1>9, EndTypes DEF Halt, Happens, TypeOK, store
<1>10. QED
  BY <1>1, <1>2, <1>3, <1>4, <1>5, <1>6, <1>7, <1>8, <1>9, <1>11 DEF Outside

\* Next by who takes the step.
LEMMA NextIsOneOf ==
  ASSUME Next
  PROVE  EngineStep \/ Outside \/ \E r \in Runs : RunStep(r)
BY DEF Next, Outside

\* Every step keeps the types.
LEMMA TypesStay ==
  ASSUME TypeOK, TaskInv, [Next]_vars
  PROVE  TypeOK'
<1>1. CASE Next
  BY <1>1, NextIsOneOf, RunStepTypes, EngineStepTypes, OutsideTypes
<1>2. CASE UNCHANGED vars
  BY <1>2 DEF vars, store, engine, TypeOK
<1>3. QED
  BY <1>1, <1>2

-----------------------------------------------------------------------------
(* Slots, rows and the engine *)

CoreInv == TaskInv /\ SlotInv /\ PendingInv /\ PendingHasItsRun /\ EngineInv

\* The end of the process keeps slots and rows in order.
LEMMA EndCore ==
  ASSUME TypeOK, ProcessEnds, UNCHANGED pending
  PROVE  CoreInv'
<1>1. \A r \in Runs : run'[r].at = "free"
  BY TasksAreTasks DEF ProcessEnds
<1>2. TaskInv' /\ SlotInv'
  BY <1>1 DEF TaskInv, SlotInv, InFlight, Starting
<1>3. PendingInv' /\ PendingHasItsRun'
  BY <1>1 DEF PendingInv, PendingHasItsRun, ProcessEnds, TypeOK
<1>4. EngineInv'
  BY <1>1 DEF EngineInv, ByEngine, Starting, Missing, ProcessEnds
<1>5. QED
  BY <1>2, <1>3, <1>4 DEF CoreInv

\* A claim takes a place nobody uses and a slot nobody has.
LEMMA ClaimCore ==
  ASSUME TypeOK, CoreInv, NEW copy \in Copy, NEW by \in Callers,
         Unclaimed(copy.id), Claim(copy, by), UNCHANGED <<pending, proc, loop>>,
         by \in {"boot", "tick"} => loop = "pass" /\ ~EngineBusy
  PROVE  CoreInv'
<1>1. PICK p \in Runs :
         /\ p = Place /\ run[p].at = "free" /\ p \notin pending
         /\ p # 0 /\ copy.id \in Jobs /\ copy.as \in Job
  BY PlaceIsAPlace, CopiesAreSomebody, SchedulerAssumption DEF Claim
<1>2. /\ \A q \in Runs \ {p} : run'[q] = run[q]
      /\ run'[p].at = "claimed" /\ run'[p].id = copy.id
      /\ run'[p].by = by /\ run'[p].as = copy.as
  BY <1>1 DEF Claim, TypeOK
<1>3. /\ held'[copy.id] = p
      /\ \A j \in Jobs \ {copy.id} : held'[j] = held[j]
  BY <1>1 DEF Claim, TypeOK
<1>4. TaskInv'
  BY <1>1, <1>2 DEF CoreInv, TaskInv
<1>5. SlotInv'
  <2>1. ASSUME NEW q \in Runs, run'[q].at \in InFlight
        PROVE  held'[run'[q].id] = q
    <3>1. CASE q = p
      BY <1>2, <1>3, <3>1
    <3>2. CASE q # p
      <4>1. held[run[q].id] = q /\ run[q].id \in Jobs /\ q # 0
        BY <1>2, <2>1, <3>2, SchedulerAssumption
        DEF CoreInv, SlotInv, TaskInv, InFlight, Starting
      <4>2. run[q].id # copy.id
        BY <4>1 DEF Unclaimed
      <4>3. QED
        BY <1>2, <1>3, <3>2, <4>1, <4>2
    <3>3. QED
      BY <3>1, <3>2
  <2>2. QED
    BY <2>1 DEF SlotInv
<1>6. PendingInv' /\ PendingHasItsRun'
  <2>1. \A q \in pending : q \in Runs /\ q # p
    BY <1>1 DEF TypeOK
  <2>2. QED
    BY <1>2, <2>1 DEF CoreInv, PendingInv, PendingHasItsRun
<1>7. EngineInv'
  <2>1. \A q \in Runs \ {p} : ByEngine(q)' <=> ByEngine(q)
    BY <1>2 DEF ByEngine
  <2>2. ByEngine(p)' => loop = "pass" /\ \A q \in Runs : ~ByEngine(q)
    BY <1>1, <1>2 DEF ByEngine, EngineBusy, Busy
  <2>3. QED
    BY <1>1, <2>1, <2>2 DEF CoreInv, EngineInv
<1>8. QED
  BY <1>4, <1>5, <1>6, <1>7 DEF CoreInv

\* A run's task goes on: one place changes, to a step that keeps its job, with
\* no row it would leave pending.
LEMMA TaskCore ==
  ASSUME TypeOK, CoreInv, NEW r \in Runs, run[r].at # "free",
         \A q \in Runs \ {r} : run'[q] = run[q],
         run'[r].id = run[r].id, run'[r].by = run[r].by,
         run'[r].at # "free", run'[r].at # "leave" => run'[r].as = run[r].as,
         run'[r].at # "leave" => run[r].at # "leave",
         run'[r].at \in InFlight => run[r].at \in InFlight,
         run'[r].at \in Starting \cup Missing => run[r].at \in Starting \cup Missing,
         pending' \subseteq pending \cup {r},
         r \in pending' => run'[r].at \in {"rowed", "turn", "missed"},
         UNCHANGED <<held, proc, loop>>
  PROVE  CoreInv'
<1>1. TaskInv'
  BY DEF CoreInv, TaskInv
<1>2. SlotInv'
  BY DEF CoreInv, SlotInv
<1>3. PendingInv' /\ PendingHasItsRun'
  BY DEF CoreInv, PendingInv, PendingHasItsRun, TypeOK
<1>4. EngineInv'
  BY DEF CoreInv, EngineInv, ByEngine
<1>5. QED
  BY <1>1, <1>2, <1>3, <1>4 DEF CoreInv

\* A place is given back, and with it the slot it had.
LEMMA FreeCore ==
  ASSUME TypeOK, CoreInv, NEW r \in Runs, run[r].at # "free", r \notin pending,
         run' = [run EXCEPT ![r] = NoTask],
         held' = Dropped(r) \/ (run[r].at \in Missing /\ UNCHANGED held),
         loop' = loop \/ (ByEngine(r) /\ loop' = "retry"),
         UNCHANGED <<pending, proc>>
  PROVE  CoreInv'
<1>1. /\ \A q \in Runs \ {r} : run'[q] = run[q]
      /\ run'[r].at = "free" /\ run[r].id \in Jobs
  BY TasksAreTasks DEF TypeOK, CoreInv, TaskInv
<1>2. \A j \in Jobs : held'[j] = held[j] \/ held[j] = r
  BY DEF Dropped, TypeOK
<1>3. TaskInv'
  BY <1>1 DEF CoreInv, TaskInv
<1>4. SlotInv'
  BY <1>1, <1>2 DEF CoreInv, SlotInv, TaskInv, InFlight, Starting
<1>5. PendingInv' /\ PendingHasItsRun'
  BY <1>1 DEF CoreInv, EngineInv, PendingInv, PendingHasItsRun, TypeOK
<1>6. EngineInv'
  <2>1. /\ ~ByEngine(r)'
        /\ \A q \in Runs \ {r} : ByEngine(q)' <=> ByEngine(q)
    BY <1>1 DEF ByEngine, Starting, Missing
  <2>2. ByEngine(r) => /\ \A q \in Runs \ {r} : ~ByEngine(q)
                       /\ proc \notin {"down", "serving"}
    BY DEF CoreInv, EngineInv
  <2>3. QED
    BY <2>1, <2>2 DEF CoreInv, EngineInv
<1>7. QED
  BY <1>3, <1>4, <1>5, <1>6 DEF CoreInv

\* Nobody's task changes, and no row is added.
LEMMA QuietCore ==
  ASSUME TypeOK, CoreInv, UNCHANGED <<run, held>>, pending' \subseteq pending,
         proc' \in {"down", "serving"} => loop' = "off",
         proc' \in {"started", "stopping"} /\ loop' # "reconcile" =>
           \/ pending' = {}
           \/ proc \in {"started", "stopping"} /\ loop # "reconcile",
         \/ loop' = loop
         \/ loop \notin {"pass", "miss"}
         \/ ~EngineBusy
  PROVE  CoreInv'
<1>1. TaskInv' /\ SlotInv'
  BY DEF CoreInv, TaskInv, SlotInv
<1>2. PendingInv' /\ PendingHasItsRun'
  BY DEF CoreInv, PendingInv, PendingHasItsRun
<1>3. EngineInv'
  <2>1. \A r \in Runs : ByEngine(r)' <=> ByEngine(r)
    BY DEF ByEngine
  <2>2. ~EngineBusy => \A r \in Runs : ~ByEngine(r)
    BY DEF EngineBusy, Busy, ByEngine
  <2>3. QED
    BY <2>1, <2>2 DEF CoreInv, EngineInv
<1>4. QED
  BY <1>1, <1>2, <1>3 DEF CoreInv

\* A run's step keeps slots and rows in order.
LEMMA RunStepCore ==
  ASSUME TypeOK, CoreInv, NEW r \in Runs, RunStep(r)
  PROVE  CoreInv'
<1>1. run[r].at \notin {"rowed", "turn", "missed", "free"} => r \notin pending
  BY DEF CoreInv, PendingInv
<1>2. CASE WriteRow(r)
  BY <1>2, TaskCore DEF WriteRow, engine, TypeOK, Task, Starting, InFlight
<1>3. CASE RowRefused(r)
  <2>1. CASE run[r].by = "boot"
    BY <1>3, <2>1, EndCore DEF RowRefused, store
  <2>2. CASE run[r].by # "boot"
    <3>1. run[r].by = "tick" => ByEngine(r)
      BY <1>3 DEF RowRefused, ByEngine, Starting
    <3>2. QED
      BY <1>1, <1>3, <2>2, <3>1, FreeCore DEF RowRefused, store
  <2>3. QED
    BY <2>1, <2>2
<1>4. CASE Launch(r)
  BY <1>4, TaskCore DEF Launch, TypeOK, Task, Starting, InFlight, Missing
<1>5. CASE Finish(r)
  BY <1>5, TaskCore DEF Finish, RowClosed, engine, TypeOK, Task, Starting, InFlight, Missing
<1>6. CASE Settle(r)
  <2>1. pending' \subseteq pending
    BY <1>6 DEF Settle
  <2>2. QED
    BY <1>1, <1>6, <2>1, TaskCore DEF Settle, engine, TypeOK, Task, Starting, InFlight, Missing
<1>7. CASE Leave(r)
  BY <1>1, <1>7, FreeCore DEF Leave, store, engine
<1>8. CASE MissClose(r)
  BY <1>8, TaskCore DEF MissClose, RowClosed, engine, TypeOK, Task, Starting, InFlight, Missing
<1>9. CASE MissUnschedule(r)
  BY <1>1, <1>9, FreeCore DEF MissUnschedule, engine, Missing
<1>10. QED
  BY <1>2, <1>3, <1>4, <1>5, <1>6, <1>7, <1>8, <1>9 DEF RunStep

\* A missed one-shot takes a place, with a row that is pending, and no slot.
LEMMA MissCore ==
  ASSUME TypeOK, CoreInv, NEW copy \in Copy, MissOneShot(copy), job[copy.id].there,
         loop = "miss", ~EngineBusy
  PROVE  CoreInv'
<1>1. PICK p \in Runs : /\ p = Place /\ run[p].at = "free" /\ p \notin pending
                        /\ copy.id \in Jobs /\ copy.as \in Job
  BY PlaceIsAPlace, CopiesAreSomebody DEF MissOneShot
<1>2. /\ \A q \in Runs \ {p} : run'[q] = run[q]
      /\ run'[p].at = "missed" /\ run'[p].id = copy.id
      /\ run'[p].by = "boot" /\ run'[p].as = copy.as
      /\ pending' = pending \cup {p}
      /\ UNCHANGED <<held, proc, loop>>
  BY <1>1 DEF MissOneShot, TypeOK
<1>3. TaskInv'
  BY <1>1, <1>2 DEF CoreInv, TaskInv
<1>4. SlotInv'
  BY <1>2 DEF CoreInv, SlotInv, InFlight, Starting
<1>5. PendingInv' /\ PendingHasItsRun'
  BY <1>1, <1>2 DEF CoreInv, PendingInv, PendingHasItsRun, TypeOK
<1>6. EngineInv'
  <2>1. \A q \in Runs \ {p} : ByEngine(q)' <=> ByEngine(q)
    BY <1>2 DEF ByEngine
  <2>2. \A q \in Runs : ~ByEngine(q)
    BY DEF ByEngine, EngineBusy, Busy
  <2>3. QED
    BY <1>2, <2>1, <2>2 DEF CoreInv, EngineInv
<1>7. QED
  BY <1>3, <1>4, <1>5, <1>6 DEF CoreInv

\* A step of the loop keeps slots and rows in order.
LEMMA EngineStepCore ==
  ASSUME TypeOK, CoreInv, EngineStep
  PROVE  CoreInv'
<1>1. /\ proc \in {"down", "serving"} => loop = "off"
      /\ proc \in {"down", "serving", "started", "stopping"}
  BY DEF CoreInv, EngineInv, TypeOK
<1>2. CASE Reconcile
  BY <1>1, <1>2, QuietCore DEF Reconcile, Reconciled
<1>3. CASE Sweep
  BY <1>1, <1>3, QuietCore DEF Sweep, store
<1>4. CASE Miss
  <2>1. PICK copy \in todo : MissOneShot(copy) \/ MissRecurring(copy)
    BY <1>4 DEF Miss, Foremost
  <2>2. copy \in Copy
    BY DEF TypeOK
  <2>3. CASE MissOneShot(copy) /\ job[copy.id].there
    BY <1>4, <2>2, <2>3, MissCore DEF Miss
  <2>4. CASE MissOneShot(copy) /\ ~job[copy.id].there
    BY <2>4, EndCore DEF MissOneShot
  <2>5. CASE MissRecurring(copy)
    BY <1>1, <2>5, QuietCore DEF MissRecurring
  <2>6. QED
    BY <2>1, <2>3, <2>4, <2>5
<1>5. CASE StartNext
  <2>1. PICK copy \in todo :
          \/ UNCHANGED <<run, held>>
          \/ /\ Unclaimed(copy.id)
             /\ Claim(copy, "boot") \/ Claim(copy, "tick")
    BY <1>5 DEF StartNext, Foremost
  <2>2. copy \in Copy /\ {"boot", "tick"} \subseteq Callers
    BY DEF TypeOK, Callers
  <2>3. UNCHANGED <<pending, proc, loop>> /\ loop = "pass" /\ ~EngineBusy
    BY <1>5 DEF StartNext, store
  <2>4. CASE UNCHANGED <<run, held>>
    BY <1>1, <2>3, <2>4, QuietCore
  <2>5. CASE Unclaimed(copy.id) /\ (Claim(copy, "boot") \/ Claim(copy, "tick"))
    BY <2>2, <2>3, <2>5, ClaimCore
  <2>6. QED
    BY <2>1, <2>4, <2>5
<1>6. CASE PassEnds
  BY <1>1, <1>6, QuietCore DEF PassEnds, store
<1>7. CASE Look \/ Woken \/ SleepEnds \/ Retry \/ CountRoom \/ ReadDue
  <2>1. /\ UNCHANGED <<run, held, pending, proc>>
        /\ loop \notin {"off", "pass", "miss", "reconcile"}
        /\ loop' # "reconcile"
    BY <1>7 DEF Look, Woken, SleepEnds, Retry, CountRoom, ReadDue, store
  <2>2. QED
    BY <1>1, <2>1, QuietCore
<1>8. QED
  BY <1>2, <1>3, <1>4, <1>5, <1>6, <1>7 DEF EngineStep

\* What comes from outside keeps slots and rows in order.
LEMMA OutsideCore ==
  ASSUME TypeOK, CoreInv, Outside
  PROVE  CoreInv'
<1>1. /\ proc \in {"down", "serving"} => loop = "off"
      /\ proc \in {"down", "serving", "started", "stopping"}
  BY DEF CoreInv, EngineInv, TypeOK
<1>2. ASSUME NEW u \in Users, RunNow(u)
      PROVE  CoreInv'
  <2>1. asking[u] \in Copy /\ u \in Callers /\ u \notin {"boot", "tick"}
    BY <1>2, CopiesAreSomebody, SchedulerAssumption DEF RunNow, TypeOK, Callers
  <2>2. UNCHANGED <<pending, proc, loop>>
    BY <1>2 DEF RunNow, store, engine
  <2>3. CASE Unclaimed(asking[u].id)
    BY <1>2, <2>1, <2>2, <2>3, ClaimCore DEF RunNow
  <2>4. CASE ~Unclaimed(asking[u].id)
    BY <1>1, <1>2, <2>2, <2>4, QuietCore DEF RunNow
  <2>5. QED
    BY <2>3, <2>4
<1>3. CASE \E u \in Users, j \in Jobs : AskRun(u, j)
  BY <1>1, <1>3, QuietCore DEF AskRun, store, engine
<1>4. CASE \E u \in Users : Edit(u)
  BY <1>1, <1>4, QuietCore DEF Edit, engine
<1>12. CASE \E u \in Users, e \in Edits : AskEdit(u, e)
  BY <1>1, <1>12, QuietCore DEF AskEdit, store, engine
<1>5. CASE \E j \in Jobs : Delete(j)
  BY <1>1, <1>5, QuietCore DEF Delete, engine
<1>6. CASE Advance
  BY <1>1, <1>6, QuietCore DEF Advance, store, engine
<1>7. CASE Boot
  BY <1>1, <1>7, QuietCore DEF Boot, store, engine
<1>8. CASE Start
  BY <1>1, <1>8, QuietCore DEF Start, store
<1>9. CASE Stop
  BY <1>1, <1>9, QuietCore DEF Stop, store, engine
<1>10. CASE Halt
  BY <1>10, EndCore DEF Halt, store
<1>11. QED
  BY <1>2, <1>3, <1>4, <1>5, <1>6, <1>7, <1>8, <1>9, <1>10, <1>12 DEF Outside

\* Every step keeps slots and rows in order.
LEMMA CoreStays ==
  ASSUME TypeOK, CoreInv, [Next]_vars
  PROVE  CoreInv'
<1>1. CASE Next
  BY <1>1, NextIsOneOf, RunStepCore, EngineStepCore, OutsideCore
<1>2. CASE UNCHANGED vars
  <2>1. UNCHANGED <<run, held, pending, proc, loop>>
    BY <1>2 DEF vars, store, engine
  <2>2. QED
    BY <2>1, QuietCore DEF CoreInv, EngineInv
<1>3. QED
  BY <1>1, <1>2

-----------------------------------------------------------------------------
(* Next times *)

FitInv == CopyInv /\ TimeInv /\ NextRunFits

\* Schedules and switches are as they were.
Unedited ==
  /\ stale' = stale
  /\ \A i \in Jobs : job'[i].sched = job[i].sched /\ job'[i].enabled = job[i].enabled

\* A time that would fit a job.
Suits(j, t) ==
  \/ ~job[j].enabled /\ t = 0
  \/ job[j].enabled /\ OneShot(job[j].sched) /\ t \in {0, job[j].sched.when}
  \/ job[j].enabled /\ ~OneShot(job[j].sched) /\ t > 0

\* Copies are dropped, passed on from the loop or a caller to a run, or read anew.
LEMMA CopiesStay ==
  ASSUME TypeOK, CopyInv, Unedited,
         \A c \in todo' : c \in todo \/ \E j \in Jobs : c = Read(j),
         \A u \in Users : \/ asking'[u] \in {asking[u], Nobody}
                          \/ \E j \in Jobs : asking'[u] = Read(j)
                          \/ asking'[u] \in Change,
         \A r \in Runs :
           \/ run'[r].at \in {"free", "leave"}
           \/ /\ run[r].at \notin {"free", "leave"}
              /\ run'[r].id = run[r].id /\ run'[r].as = run[r].as
           \/ \E c \in todo : run'[r].id = c.id /\ run'[r].as = c.as
           \/ \E u \in Users : /\ asking[u] \in Copy
                               /\ run'[r].id = asking[u].id /\ run'[r].as = asking[u].as
  PROVE  CopyInv'
<1> SUFFICES ASSUME NEW j \in Jobs, j \notin stale
             PROVE  /\ \A c \in todo' : c.id = j => Same(c.as, job'[j])
                    /\ \A u \in Users : asking'[u] \in Copy /\ asking'[u].id = j
                                          => Same(asking'[u].as, job'[j])
                    /\ \A r \in Runs : run'[r].at \notin {"free", "leave"} /\ run'[r].id = j
                                         => Same(run'[r].as, job'[j])
  BY DEF CopyInv, Same, Unedited
<1>1. /\ job'[j].sched = job[j].sched /\ job'[j].enabled = job[j].enabled
      /\ \A i \in Jobs : Read(i).id = i /\ Read(i).as = job[i]
  BY ReadTypes DEF Unedited
<1>2. /\ \A c \in todo : c.id = j => Same(c.as, job[j])
      /\ \A u \in Users : asking[u] \in Copy /\ asking[u].id = j => Same(asking[u].as, job[j])
      /\ \A r \in Runs : run[r].at \notin {"free", "leave"} /\ run[r].id = j
                           => Same(run[r].as, job[j])
  BY DEF CopyInv
<1>3. \A c \in todo' : c.id = j => Same(c.as, job'[j])
  BY <1>1, <1>2 DEF Same
<1>4. \A u \in Users : asking'[u] \in Copy /\ asking'[u].id = j => Same(asking'[u].as, job'[j])
  BY <1>1, <1>2, ChangesAreChanges, CopiesAreSomebody DEF Same
<1>5. \A r \in Runs : run'[r].at \notin {"free", "leave"} /\ run'[r].id = j
                        => Same(run'[r].as, job'[j])
  BY <1>1, <1>2 DEF Same
<1>6. QED
  BY <1>3, <1>4, <1>5

\* A new time that suits its job leaves the table fitting.
LEMMA FitsStay ==
  ASSUME NextRunFits, Unedited,
         \A j \in Jobs \ stale :
           /\ job'[j].there => job[j].there
           /\ job[j].there => job'[j].next = job[j].next \/ Suits(j, job'[j].next)
  PROVE  NextRunFits'
BY DEF NextRunFits, Fits, Suits, Unedited

\* The end of the process keeps the times.
LEMMA EndFit ==
  ASSUME TypeOK, FitInv, ProcessEnds, UNCHANGED <<job, stale>>
  PROVE  FitInv'
<1>1. /\ \A r \in Runs : run'[r].at = "free"
      /\ todo' = {} /\ \A u \in Users : asking'[u] = Nobody
  BY TasksAreTasks DEF ProcessEnds
<1>2. CopyInv'
  BY <1>1, CopiesAreSomebody DEF CopyInv
<1>3. TimeInv'
  BY <1>1, ChangesAreChanges DEF TimeInv, Starting, Missing
<1>4. NextRunFits'
  BY DEF FitInv, NextRunFits, Fits
<1>5. QED
  BY <1>2, <1>3, <1>4 DEF FitInv

\* No copy is new, no task is, and the table is as it was.
LEMMA QuietFit ==
  ASSUME TypeOK, FitInv, UNCHANGED <<job, stale>>, todo' \subseteq todo,
         \A u \in Users : asking'[u] \in {asking[u], Nobody},
         \A r \in Runs : run'[r].at \in {"free", "leave"} \/ run'[r] = run[r]
  PROVE  FitInv'
<1>1. Unedited
  BY DEF Unedited
<1>2. \A r \in Runs : run'[r].at \in {"free", "leave"}
                       \/ (run[r].at \notin {"free", "leave"} /\ run'[r] = run[r])
  OBVIOUS
<1>3. CopyInv'
  BY <1>1, <1>2, CopiesStay DEF FitInv
<1>4. TimeInv'
  BY ChangesAreChanges DEF FitInv, TimeInv, Starting, Missing
<1>5. NextRunFits'
  BY <1>1, FitsStay DEF FitInv
<1>6. QED
  BY <1>3, <1>4, <1>5 DEF FitInv

\* One task goes on, and its job's time is moved to one that suits it, if at all.
LEMMA TaskFit ==
  ASSUME TypeOK, FitInv, Unedited, UNCHANGED <<todo, asking>>,
         NEW r \in Runs, run[r].at # "free",
         \A q \in Runs \ {r} : run'[q] = run[q],
         run'[r].at \notin {"free", "leave"} =>
           run[r].at # "leave" /\ run'[r].id = run[r].id /\ run'[r].as = run[r].as,
         run'[r].at \in Starting => run[r].at \in Starting /\ run'[r].next = run[r].next,
         run'[r].at \in Missing => run[r].at \in Missing,
         \A j \in Jobs \ stale :
           /\ job'[j].there => job[j].there
           /\ job[j].there => job'[j].next = job[j].next \/ Suits(j, job'[j].next)
  PROVE  FitInv'
<1>1. \A q \in Runs :
        \/ run'[q].at \in {"free", "leave"}
        \/ /\ run[q].at \notin {"free", "leave"}
           /\ run'[q].id = run[q].id /\ run'[q].as = run[q].as
  <2> SUFFICES ASSUME NEW q \in Runs, run'[q].at \notin {"free", "leave"}
               PROVE  /\ run[q].at \notin {"free", "leave"}
                      /\ run'[q].id = run[q].id /\ run'[q].as = run[q].as
    OBVIOUS
  <2>1. CASE q = r
    BY <2>1
  <2>2. CASE q # r
    <3>1. run'[q] = run[q]
      BY <2>2
    <3>2. QED
      BY <3>1
  <2>3. QED
    BY <2>1, <2>2
<1>2. CopyInv'
  BY <1>1, CopiesStay DEF FitInv
<1>3. TimeInv'
  <2>1. \A q \in Runs : run'[q].at \in Starting => Proper(run'[q].as, run'[q].next)
    <3>1. CASE run'[r].at \in Starting
      BY <3>1 DEF FitInv, TimeInv, Starting
    <3>2. CASE run'[r].at \notin Starting
      BY <3>2 DEF FitInv, TimeInv
    <3>3. QED
      BY <3>1, <3>2
  <2>2. \A q \in Runs : run'[q].at \in Missing => OneShot(run'[q].as.sched)
    <3>1. CASE run'[r].at \in Missing
      BY <3>1 DEF FitInv, TimeInv, Missing
    <3>2. CASE run'[r].at \notin Missing
      BY <3>2 DEF FitInv, TimeInv
    <3>3. QED
      BY <3>1, <3>2
  <2>3. QED
    BY <2>1, <2>2 DEF FitInv, TimeInv
<1>4. NextRunFits'
  BY FitsStay DEF FitInv
<1>5. QED
  BY <1>2, <1>3, <1>4 DEF FitInv

\* A claim takes a copy the loop or a caller had, and a time that is proper to it.
LEMMA ClaimFit ==
  ASSUME TypeOK, FitInv, NEW copy \in Copy, NEW by \in Callers, Claim(copy, by),
         copy \in todo \/ \E u \in Users : asking[u] = copy,
         UNCHANGED <<job, stale>>, todo' \subseteq todo,
         \A u \in Users : asking'[u] \in {asking[u], Nobody}
  PROVE  FitInv'
<1>1. PICK p \in Runs : p = Place
  BY PlaceIsAPlace DEF Claim
<1>2. /\ \A q \in Runs \ {p} : run'[q] = run[q]
      /\ run'[p].at = "claimed" /\ run'[p].id = copy.id
      /\ run'[p].as = copy.as /\ run'[p].next = NextRunFor(copy.as)
  BY <1>1 DEF Claim, TypeOK
<1>3. copy # Nobody /\ copy.as \in Job
  BY CopiesAreSomebody
<1>4. Unedited
  BY DEF Unedited
<1>5. CopyInv'
  <2>1. \A q \in Runs :
           \/ run'[q].at \in {"free", "leave"}
           \/ /\ run[q].at \notin {"free", "leave"}
              /\ run'[q].id = run[q].id /\ run'[q].as = run[q].as
           \/ \E c \in todo : run'[q].id = c.id /\ run'[q].as = c.as
           \/ \E u \in Users : /\ asking[u] \in Copy
                               /\ run'[q].id = asking[u].id /\ run'[q].as = asking[u].as
    <3> TAKE q \in Runs
    <3>1. CASE q = p
      BY <1>2, <1>3, <3>1
    <3>2. CASE q # p
      <4>1. run'[q] = run[q]
        BY <1>2, <3>2
      <4>2. QED
        BY <4>1
    <3>3. QED
      BY <3>1, <3>2
  <2>2. QED
    BY <1>4, <2>1, CopiesStay DEF FitInv
<1>6. TimeInv'
  <2>1. Proper(run'[p].as, run'[p].next)
    BY <1>2, <1>3, RunTimes DEF TypeOK
  <2>2. \A u \in Users : asking'[u] \in Change => asking'[u] = asking[u]
    BY ChangesAreChanges
  <2>3. \A u \in Users : asking'[u] \in Change => Timed(asking'[u])
    BY <2>2 DEF FitInv, TimeInv
  <2>4. QED
    BY <1>2, <2>1, <2>3 DEF FitInv, TimeInv, Missing
<1>7. NextRunFits'
  BY <1>4, FitsStay DEF FitInv
<1>8. QED
  BY <1>5, <1>6, <1>7 DEF FitInv

\* The time a run's copy is given suits its job, if nobody edited it meanwhile.
LEMMA ProperSuits ==
  ASSUME TypeOK, NEW j \in Jobs, NEW as \in Job, NEW t \in Nat,
         Same(as, job[j]), Proper(as, t)
  PROVE  Suits(j, t)
<1>1. job[j].enabled \in BOOLEAN /\ as.enabled = job[j].enabled
  BY DEF TypeOK, Job, Same
<1>2. QED
  BY <1>1 DEF Same, Proper, Suits

\* A run's step keeps the times.
LEMMA RunStepFit ==
  ASSUME TypeOK, TaskInv, FitInv, NEW r \in Runs, RunStep(r)
  PROVE  FitInv'
<1> DEFINE j == run[r].id
<1>1. /\ run[r].at # "free" => j \in Jobs
      /\ run[r].at \notin {"free", "leave"} => run[r].as \in Job
      /\ run[r].next \in Nat
      /\ run[r].at \notin {"free", "leave"} /\ j \notin stale => Same(run[r].as, job[j])
  BY DEF TypeOK, Task, TaskInv, FitInv, CopyInv
<1>2. CASE WriteRow(r)
  <2>1. Unedited
    BY <1>2 DEF WriteRow, Unedited
  <2>2. QED
    BY <1>2, <2>1, TaskFit DEF WriteRow, engine, TypeOK, Task, Starting, Missing
<1>3. CASE RowRefused(r)
  <2>1. CASE run[r].by = "boot"
    BY <1>3, <2>1, EndFit DEF RowRefused, store
  <2>2. CASE run[r].by # "boot"
    <3>1. \A q \in Runs : run'[q].at = "free" \/ run'[q] = run[q]
      BY <1>3, <2>2, TasksAreTasks DEF RowRefused, TypeOK
    <3>2. todo' \subseteq todo
      BY <1>3, <2>2 DEF RowRefused
    <3>3. QED
      BY <1>3, <2>2, <3>1, <3>2, QuietFit DEF RowRefused, store
  <2>3. QED
    BY <2>1, <2>2
<1>4. CASE Launch(r)
  <2>1. run[r].at = "rowed" /\ j \in Jobs /\ job' = Scheduled(j, run[r].next)
    BY <1>1, <1>4 DEF Launch, Provisional
  <2>2. Unedited
    <3>1. job \in [Jobs -> Job] /\ run[r].next \in Nat
      BY <1>1 DEF TypeOK
    <3>2. stale' = stale
      BY <1>4 DEF Launch
    <3>3. QED
      BY <2>1, <3>1, <3>2, ScheduledTypes DEF Unedited
  <2>3. Proper(run[r].as, run[r].next)
    BY <2>1 DEF FitInv, TimeInv, Starting
  <2>4. j \notin stale => Suits(j, run[r].next)
    BY <1>1, <2>1, <2>3, ProperSuits
  <2>5. \A i \in Jobs \ stale :
          /\ job'[i].there => job[i].there
          /\ job[i].there => job'[i].next = job[i].next \/ Suits(i, job'[i].next)
    BY <1>1, <2>1, <2>4, ScheduledTypes DEF TypeOK
  <2>6. QED
    BY <1>4, <2>1, <2>2, <2>5, TaskFit DEF Launch, TypeOK, Task, Starting, Missing
<1>5. CASE Finish(r)
  <2>1. Unedited
    BY <1>5 DEF Finish, Unedited
  <2>2. QED
    BY <1>5, <2>1, TaskFit DEF Finish, engine, TypeOK, Task, Starting, Missing
<1>6. CASE Settle(r)
  <2> DEFINE next == NextRunFor(run[r].as)
  <2>1. j \in Jobs /\ run[r].as \in Job /\ next \in Nat /\ Proper(run[r].as, next)
    BY <1>1, <1>6, RunTimes DEF Settle, TypeOK
  <2>2. job' \in {Gone(j), job, Scheduled(j, next)}
    BY <1>6 DEF Settle, Gone
  <2>3. j \notin stale => Suits(j, next)
    BY <1>1, <1>6, <2>1, ProperSuits DEF Settle
  <2>4. Unedited
    <3>1. job \in [Jobs -> Job]
      BY DEF TypeOK
    <3>2. stale' = stale
      BY <1>6 DEF Settle
    <3>3. CASE job' = Gone(j)
      BY <2>1, <3>1, <3>2, <3>3, GoneTypes DEF Unedited
    <3>4. CASE job' = job
      BY <3>2, <3>4 DEF Unedited
    <3>5. CASE job' = Scheduled(j, next)
      BY <2>1, <3>1, <3>2, <3>5, ScheduledTypes DEF Unedited
    <3>6. QED
      BY <2>2, <3>3, <3>4, <3>5
  <2>5. \A i \in Jobs \ stale :
          /\ job'[i].there => job[i].there
          /\ job[i].there => job'[i].next = job[i].next \/ Suits(i, job'[i].next)
    <3> HIDE DEF next
    <3>1. job \in [Jobs -> Job]
      BY DEF TypeOK
    <3>2. CASE job' = Gone(j)
      BY <2>1, <3>1, <3>2, GoneTypes
    <3>3. CASE job' = job
      BY <3>3
    <3>4. CASE job' = Scheduled(j, next)
      BY <2>1, <2>3, <3>1, <3>4, ScheduledTypes
    <3>5. QED
      BY <2>2, <3>2, <3>3, <3>4
  <2>6. QED
    BY <1>6, <2>4, <2>5, TaskFit DEF Settle, engine, TypeOK, Task, Starting, Missing
<1>7. CASE Leave(r)
  <2>1. \A q \in Runs : run'[q].at = "free" \/ run'[q] = run[q]
    BY <1>7, TasksAreTasks DEF Leave, TypeOK
  <2>2. QED
    BY <1>7, <2>1, QuietFit DEF Leave, store, engine
<1>8. CASE MissClose(r)
  <2>1. Unedited
    BY <1>8 DEF MissClose, Unedited
  <2>2. QED
    BY <1>8, <2>1, TaskFit DEF MissClose, engine, TypeOK, Task, Starting, Missing
<1>9. CASE MissUnschedule(r)
  <2>1. run[r].at = "skipped" /\ j \in Jobs /\ job' = Scheduled(j, 0)
    BY <1>1, <1>9 DEF MissUnschedule
  <2>2. Unedited
    BY <1>9, <2>1, ScheduledTypes DEF MissUnschedule, Unedited, TypeOK
  <2>3. OneShot(run[r].as.sched)
    BY <2>1 DEF FitInv, TimeInv, Missing
  <2>4. j \notin stale => Suits(j, 0)
    BY <1>1, <2>1, <2>3 DEF Same, Suits, TypeOK, Job
  <2>5. \A i \in Jobs \ stale :
          /\ job'[i].there => job[i].there
          /\ job[i].there => job'[i].next = job[i].next \/ Suits(i, job'[i].next)
    BY <2>1, <2>4, ScheduledTypes DEF TypeOK
  <2>6. QED
    BY <1>9, <2>1, <2>2, <2>5, TasksAreTasks, TaskFit
    DEF MissUnschedule, engine, TypeOK, Starting, Missing
<1>10. QED
  BY <1>2, <1>3, <1>4, <1>5, <1>6, <1>7, <1>8, <1>9 DEF RunStep

\* A miss takes a copy of a one-shot the boot had read.
LEMMA MissFit ==
  ASSUME TypeOK, FitInv, NEW copy \in todo, MissOneShot(copy), UNCHANGED stale
  PROVE  FitInv'
<1>1. CASE job[copy.id].there
  <2>1. PICK p \in Runs : p = Place
    BY <1>1, PlaceIsAPlace DEF MissOneShot
  <2>2. /\ \A q \in Runs \ {p} : run'[q] = run[q]
        /\ run'[p].at = "missed" /\ run'[p].id = copy.id /\ run'[p].as = copy.as
        /\ OneShot(copy.as.sched) /\ todo' = todo \ {copy} /\ UNCHANGED <<job, asking>>
    BY <1>1, <2>1 DEF MissOneShot, TypeOK
  <2>3. Unedited
    BY <2>2 DEF Unedited
  <2>4. CopyInv'
    <3>1. \A q \in Runs :
             \/ run'[q].at \in {"free", "leave"}
             \/ /\ run[q].at \notin {"free", "leave"}
                /\ run'[q].id = run[q].id /\ run'[q].as = run[q].as
             \/ \E c \in todo : run'[q].id = c.id /\ run'[q].as = c.as
      <4> TAKE q \in Runs
      <4>1. CASE q = p
        BY <2>2, <4>1
      <4>2. CASE q # p
        <5>1. run'[q] = run[q]
          BY <2>2, <4>2
        <5>2. QED
          BY <5>1
      <4>3. QED
        BY <4>1, <4>2
    <3>2. QED
      BY <2>2, <2>3, <3>1, CopiesStay DEF FitInv
  <2>5. TimeInv'
    BY <2>2 DEF FitInv, TimeInv, Starting
  <2>6. NextRunFits'
    BY <2>2, <2>3, FitsStay DEF FitInv
  <2>7. QED
    BY <2>4, <2>5, <2>6 DEF FitInv
<1>2. CASE ~job[copy.id].there
  BY <1>2, EndFit DEF MissOneShot
<1>3. QED
  BY <1>1, <1>2

\* The loop reads the table, jobs that are due.
LEMMA LookupFit ==
  ASSUME TypeOK, FitInv, UNCHANGED <<job, stale, run, asking>>,
         \A c \in todo' : \E j \in Due : c = Read(j)
  PROVE  FitInv'
<1>1. Unedited
  BY DEF Unedited
<1>2. \A r \in Runs : run'[r].at \in {"free", "leave"}
                       \/ (run[r].at \notin {"free", "leave"} /\ run'[r] = run[r])
  OBVIOUS
<1>3. CopyInv'
  BY <1>1, <1>2, CopiesStay DEF FitInv, Due
<1>4. \A j \in Due : Read(j).as.enabled
  BY ReadTypes DEF Due
<1>5. TimeInv'
  BY <1>4 DEF FitInv, TimeInv
<1>6. NextRunFits'
  BY <1>1, FitsStay DEF FitInv
<1>7. QED
  BY <1>3, <1>5, <1>6 DEF FitInv

\* A step of the loop keeps the times.
LEMMA EngineStepFit ==
  ASSUME TypeOK, FitInv, EngineStep
  PROVE  FitInv'
<1>1. CASE Reconcile
  BY <1>1, QuietFit DEF Reconcile
<1>2. CASE Sweep
  BY <1>2, LookupFit DEF Sweep, store
<1>3. CASE Miss
  <2>1. PICK copy \in todo : MissOneShot(copy) \/ MissRecurring(copy)
    BY <1>3 DEF Miss, Foremost
  <2>2. copy \in Copy /\ copy.id \in Jobs /\ copy.as \in Job
    BY CopiesAreSomebody DEF TypeOK
  <2>3. CASE MissOneShot(copy)
    BY <1>3, <2>3, MissFit DEF Miss
  <2>4. CASE MissRecurring(copy)
    <3> DEFINE next == NextRunAfter(copy.as.sched, now)
    <3>1. next \in Nat /\ next > 0 /\ job' = Scheduled(copy.id, next)
      BY <2>2, <2>4, TimesAreTimes DEF MissRecurring, Job, TypeOK
    <3>2. copy.as.enabled /\ ~OneShot(copy.as.sched)
      BY <2>4 DEF FitInv, TimeInv, MissRecurring
    <3>3. Unedited
      BY <1>3, <2>2, <3>1, ScheduledTypes DEF Miss, Unedited, TypeOK
    <3>4. copy.id \notin stale => Suits(copy.id, next)
      BY <2>2, <3>1, <3>2 DEF FitInv, CopyInv, Same, Suits
    <3>5. \A i \in Jobs \ stale :
            /\ job'[i].there => job[i].there
            /\ job[i].there => job'[i].next = job[i].next \/ Suits(i, job'[i].next)
      BY <2>2, <3>1, <3>4, ScheduledTypes DEF TypeOK
    <3>6. NextRunFits'
      BY <3>3, <3>5, FitsStay DEF FitInv
    <3>7. todo' \subseteq todo /\ UNCHANGED <<run, asking>>
      BY <2>4 DEF MissRecurring
    <3>8. CopyInv'
      <4>1. \A r \in Runs : run'[r].at \in {"free", "leave"}
                             \/ (run[r].at \notin {"free", "leave"} /\ run'[r] = run[r])
        BY <3>7
      <4>2. QED
        BY <3>3, <3>7, <4>1, CopiesStay DEF FitInv
    <3>9. TimeInv'
      BY <3>7 DEF FitInv, TimeInv
    <3>10. QED
      BY <3>6, <3>8, <3>9 DEF FitInv
  <2>5. QED
    BY <2>1, <2>3, <2>4
<1>4. CASE StartNext
  <2>1. PICK copy \in todo :
          /\ todo' = todo \ {copy}
          /\ \/ Claim(copy, "boot") \/ Claim(copy, "tick")
             \/ UNCHANGED <<run, held>>
    BY <1>4 DEF StartNext, Foremost
  <2>2. copy \in Copy /\ {"boot", "tick"} \subseteq Callers
    BY DEF TypeOK, Callers
  <2>3. UNCHANGED <<job, stale, asking>> /\ todo' \subseteq todo
    BY <1>4, <2>1 DEF StartNext, store
  <2>4. CASE UNCHANGED <<run, held>>
    BY <2>3, <2>4, QuietFit
  <2>5. CASE Claim(copy, "boot") \/ Claim(copy, "tick")
    BY <2>2, <2>3, <2>5, ClaimFit
  <2>6. QED
    BY <2>1, <2>4, <2>5
<1>5. CASE PassEnds
  BY <1>5, QuietFit DEF PassEnds, store
<1>6. CASE Look \/ Woken \/ SleepEnds \/ Retry \/ CountRoom
  <2>1. UNCHANGED <<job, stale, run, asking, todo>>
    BY <1>6 DEF Look, Woken, SleepEnds, Retry, CountRoom, store
  <2>2. QED
    BY <2>1, QuietFit
<1>7. CASE ReadDue
  BY <1>7, LookupFit DEF ReadDue, FirstDue, store
<1>8. QED
  BY <1>1, <1>2, <1>3, <1>4, <1>5, <1>6, <1>7 DEF EngineStep

\* An edit gives its job a schedule and the time that goes with it, and marks the
\* copies somebody has of it as old.
LEMMA EditFit ==
  ASSUME TypeOK, FitInv, NEW u \in Users, Edit(u)
  PROVE  FitInv'
<1>1. PICK e \in Change : e = asking[u]
  BY DEF Edit
<1>2. /\ Timed(e) /\ e.id \in Jobs /\ Patched(e).next = e.next
      /\ ~Overtaken(e) => Patched(e).sched = e.sched /\ Patched(e).enabled = e.enabled
  BY <1>1, EditedTypes, ChangesAreChanges DEF FitInv, TimeInv
<1>3. /\ UNCHANGED <<todo, run>>
      /\ \A v \in Users \ {u} : asking'[v] = asking[v]
      /\ asking'[u] = Nobody
  BY DEF Edit, engine, TypeOK
<1>4. TimeInv'
  BY <1>3, ChangesAreChanges DEF FitInv, TimeInv
<1>5. CASE ~job[e.id].there
  <2>1. UNCHANGED <<job, stale>>
    BY <1>1, <1>5 DEF Edit
  <2>2. QED
    BY <1>3, <2>1, QuietFit
<1>6. CASE job[e.id].there
  <2>1. /\ job'[e.id] = Patched(e)
        /\ \A i \in Jobs \ {e.id} : job'[i] = job[i]
        /\ \A i \in Jobs \ {e.id} : i \notin stale' => i \notin stale
        /\ e.id \notin stale' => ~InUse(e.id, u) /\ ~Overtaken(e)
    BY <1>1, <1>2, <1>6 DEF Edit, TypeOK
  <2>2. CopyInv'
    <3> SUFFICES ASSUME NEW i \in Jobs, i \notin stale'
                 PROVE  /\ \A c \in todo : c.id = i => Same(c.as, job'[i])
                        /\ \A v \in Users : asking'[v] \in Copy /\ asking'[v].id = i
                                              => Same(asking'[v].as, job'[i])
                        /\ \A r \in Runs : run[r].at \notin {"free", "leave"} /\ run[r].id = i
                                             => Same(run[r].as, job'[i])
      BY <1>3 DEF CopyInv, Same
    <3>1. CASE i = e.id
      <4>1. ~InUse(i, u)
        BY <2>1, <3>1
      <4>2. \A v \in Users : asking'[v] \in Copy => v # u /\ asking'[v] = asking[v] /\ asking[v] # Nobody
        BY <1>3, CopiesAreSomebody
      <4>3. QED
        BY <4>1, <4>2 DEF InUse
    <3>2. CASE i # e.id
      <4>1. job'[i] = job[i] /\ i \notin stale
        BY <2>1, <3>2
      <4>2. \A v \in Users : asking'[v] \in Copy => asking'[v] = asking[v]
        BY <1>3, CopiesAreSomebody
      <4>3. QED
        BY <4>1, <4>2 DEF FitInv, CopyInv
    <3>3. QED
      BY <3>1, <3>2
  <2>3. e.id \notin stale' => Fits(e.id)'
    BY <1>2, <2>1 DEF Fits, Timed
  <2>4. NextRunFits'
    <3> SUFFICES ASSUME NEW i \in Jobs \ stale' PROVE Fits(i)'
      BY DEF NextRunFits
    <3>1. CASE i = e.id
      BY <2>3, <3>1
    <3>2. CASE i # e.id
      BY <2>1, <3>2 DEF FitInv, NextRunFits, Fits
    <3>3. QED
      BY <3>1, <3>2
  <2>5. QED
    BY <1>4, <2>2, <2>4 DEF FitInv
<1>7. QED
  BY <1>5, <1>6

\* What comes from outside keeps the times.
LEMMA OutsideFit ==
  ASSUME TypeOK, FitInv, Outside
  PROVE  FitInv'
<1>1. ASSUME NEW u \in Users, RunNow(u)
      PROVE  FitInv'
  <2>1. /\ asking[u] \in Copy /\ u \in Callers
        /\ UNCHANGED <<job, stale, todo>>
        /\ \A v \in Users : asking'[v] \in {asking[v], Nobody}
    BY <1>1, CopiesAreSomebody DEF RunNow, TypeOK, Callers, store, engine
  <2>2. CASE Unclaimed(asking[u].id)
    <3>1. Claim(asking[u], u)
      BY <1>1, <2>2 DEF RunNow
    <3>2. QED
      BY <2>1, <3>1, ClaimFit
  <2>3. CASE ~Unclaimed(asking[u].id)
    BY <1>1, <2>1, <2>3, QuietFit DEF RunNow
  <2>4. QED
    BY <2>2, <2>3
<1>2. ASSUME NEW u \in Users, NEW j \in Jobs, AskRun(u, j)
      PROVE  FitInv'
  <2>1. /\ Unedited /\ UNCHANGED <<job, stale, run, todo>>
        /\ \A v \in Users : asking'[v] = asking[v] \/ asking'[v] = Read(j)
    BY <1>2 DEF AskRun, Unedited, store, engine, TypeOK
  <2>2. \A r \in Runs : run'[r].at \in {"free", "leave"}
                         \/ (run[r].at \notin {"free", "leave"} /\ run'[r] = run[r])
    BY <2>1
  <2>3. CopyInv'
    BY <2>1, <2>2, CopiesStay DEF FitInv
  <2>4. TimeInv'
    BY <2>1, ReadTypes, ChangesAreChanges DEF FitInv, TimeInv
  <2>5. NextRunFits'
    BY <2>1, FitsStay DEF FitInv
  <2>6. QED
    BY <2>3, <2>4, <2>5 DEF FitInv
<1>3. ASSUME NEW u \in Users, Edit(u)
      PROVE  FitInv'
  BY <1>3, EditFit
<1>8. ASSUME NEW u \in Users, NEW e \in Edits, AskEdit(u, e)
      PROVE  FitInv'
  <2>1. PICK c \in Change : Timed(c) /\ asking' = [asking EXCEPT ![u] = c]
    BY <1>8, AskEditTypes
  <2>2. /\ Unedited /\ UNCHANGED <<job, stale, run, todo>>
        /\ \A v \in Users : asking'[v] = asking[v] \/ asking'[v] = c
    BY <1>8, <2>1 DEF AskEdit, Unedited, store, engine, TypeOK
  <2>3. \A r \in Runs : run'[r].at \in {"free", "leave"}
                         \/ (run[r].at \notin {"free", "leave"} /\ run'[r] = run[r])
    BY <2>2
  <2>4. CopyInv'
    BY <2>2, <2>3, CopiesStay DEF FitInv
  <2>5. TimeInv'
    BY <2>1, <2>2 DEF FitInv, TimeInv
  <2>6. NextRunFits'
    BY <2>2, FitsStay DEF FitInv
  <2>7. QED
    BY <2>4, <2>5, <2>6 DEF FitInv
<1>4. ASSUME NEW j \in Jobs, Delete(j)
      PROVE  FitInv'
  <2>1. job' = Gone(j) /\ UNCHANGED <<stale, run, todo, asking>>
    BY <1>4 DEF Delete, Gone, engine
  <2>2. Unedited
    BY <2>1, GoneTypes DEF Unedited, TypeOK
  <2>3. \A i \in Jobs \ stale :
          /\ job'[i].there => job[i].there
          /\ job[i].there => job'[i].next = job[i].next \/ Suits(i, job'[i].next)
    BY <2>1, GoneTypes DEF TypeOK
  <2>4. \A r \in Runs : run'[r].at \in {"free", "leave"}
                         \/ (run[r].at \notin {"free", "leave"} /\ run'[r] = run[r])
    BY <2>1
  <2>5. CopyInv'
    BY <2>1, <2>2, <2>4, CopiesStay DEF FitInv
  <2>6. TimeInv'
    BY <2>1 DEF FitInv, TimeInv
  <2>7. NextRunFits'
    BY <2>2, <2>3, FitsStay DEF FitInv
  <2>8. QED
    BY <2>5, <2>6, <2>7 DEF FitInv
<1>5. CASE Advance \/ Boot \/ Start \/ Stop
  <2>1. UNCHANGED <<job, stale, run, asking, todo>>
    BY <1>5 DEF Advance, Boot, Start, Stop, store, engine
  <2>2. QED
    BY <2>1, QuietFit
<1>6. CASE Halt
  BY <1>6, EndFit DEF Halt, store
<1>7. QED
  BY <1>1, <1>2, <1>3, <1>4, <1>5, <1>6, <1>8 DEF Outside

\* Every step keeps the times.
LEMMA FitStays ==
  ASSUME TypeOK, TaskInv, FitInv, [Next]_vars
  PROVE  FitInv'
<1>1. CASE Next
  BY <1>1, NextIsOneOf, RunStepFit, EngineStepFit, OutsideFit
<1>2. CASE UNCHANGED vars
  <2>1. UNCHANGED <<job, stale, run, asking, todo>>
    BY <1>2 DEF vars, store, engine
  <2>2. QED
    BY <2>1, QuietFit
<1>3. QED
  BY <1>1, <1>2

-----------------------------------------------------------------------------
(* The limit of the ticks *)

\* Ticks have finitely many runs going.
LEMMA TickingIsFinite ==
  IsFiniteSet(Ticking) /\ Cardinality(Ticking) \in Nat
BY SchedulerAssumption, FS_Subset, FS_CardinalityType DEF Ticking

\* Each run of a tick has the slot of a job of its own.
LEMMA TickersHaveSlots ==
  ASSUME TypeOK, TaskInv, SlotInv
  PROVE  Running \in Nat /\ Cardinality(Ticking) <= Running
<1> DEFINE Taken == {j \in Jobs : held[j] # 0}
           f     == [r \in Ticking |-> run[r].id]
<1>1. IsFiniteSet(Taken) /\ Cardinality(Taken) \in Nat
  BY SchedulerAssumption, FS_Subset, FS_CardinalityType
<1>2. \A r \in Ticking : /\ run[r].id \in Taken
                         /\ held[run[r].id] = r
  BY SchedulerAssumption DEF Ticking, TaskInv, SlotInv, InFlight, Starting
<1>3. f \in Injection(Ticking, Taken)
  <2>1. f \in [Ticking -> Taken]
    BY <1>2
  <2>2. \A r, q \in Ticking : f[r] = f[q] => r = q
    BY <1>2
  <2>3. QED
    BY <2>1, <2>2 DEF Injection, IsInjective
<1>4. Cardinality(Ticking) <= Cardinality(Taken)
  BY <1>1, <1>3, FS_Injection
<1>5. QED
  BY <1>1, <1>4 DEF Running

\* Nothing is started for a tick, and a tick that is under way goes on with what
\* it has.
LEMMA QuietLimit ==
  ASSUME TypeOK, LimitInv, Ticking' \subseteq Ticking,
         loop' = "read" => loop = "read" /\ room' = room,
         loop' = "pass" /\ ~boot' => loop = "pass" /\ ~boot /\ todo' \subseteq todo
  PROVE  LimitInv'
<1>1. /\ IsFiniteSet(Ticking') /\ Cardinality(Ticking') \in Nat
      /\ Cardinality(Ticking') <= Cardinality(Ticking)
      /\ Cardinality(Ticking) \in Nat
  BY TickingIsFinite, FS_Subset, FS_CardinalityType
<1>2. Concurrency \in Nat /\ room \in Nat
  BY SchedulerAssumption DEF TypeOK
<1>3. Cardinality(Ticking') <= Concurrency
  BY <1>1, <1>2 DEF LimitInv
<1>4. loop' = "read" => Cardinality(Ticking') + room' <= Concurrency
  BY <1>1, <1>2 DEF LimitInv
<1>5. ASSUME loop' = "pass" /\ ~boot'
      PROVE  IsFiniteSet(todo') /\ Cardinality(Ticking') + Cardinality(todo') <= Concurrency
  <2>1. IsFiniteSet(todo) /\ Cardinality(Ticking) + Cardinality(todo) <= Concurrency
    BY <1>5 DEF LimitInv
  <2>2. /\ IsFiniteSet(todo') /\ Cardinality(todo') <= Cardinality(todo)
        /\ Cardinality(todo) \in Nat /\ Cardinality(todo') \in Nat
    BY <1>5, <2>1, FS_Subset, FS_CardinalityType
  <2>3. QED
    BY <1>1, <1>2, <2>1, <2>2
<1>6. QED
  BY <1>3, <1>4, <1>5 DEF LimitInv

\* The process ends with all it had going.
LEMMA EndLimit ==
  ASSUME TypeOK, LimitInv, ProcessEnds
  PROVE  LimitInv'
<1>1. Ticking' = {}
  BY TasksAreTasks DEF ProcessEnds, Ticking, InFlight, Starting
<1>2. loop' = "off"
  BY DEF ProcessEnds
<1>3. QED
  BY <1>1, <1>2, QuietLimit

\* A tick starts one of the jobs it has read.
LEMMA TickLimit ==
  ASSUME TypeOK, LimitInv, NEW copy \in todo, todo' = todo \ {copy},
         Claim(copy, "tick"), loop = "pass", ~boot, UNCHANGED <<loop, boot>>
  PROVE  LimitInv'
<1>1. PICK p \in Runs : p = Place /\ run[p].at = "free"
  BY PlaceIsAPlace DEF Claim
<1>2. Ticking' = Ticking \cup {p} /\ p \notin Ticking
  BY <1>1 DEF Claim, TypeOK, Ticking, InFlight, Starting
<1>3. /\ Cardinality(Ticking') = Cardinality(Ticking) + 1
      /\ Cardinality(Ticking) \in Nat
  BY <1>2, TickingIsFinite, FS_AddElement
<1>4. /\ IsFiniteSet(todo) /\ Cardinality(todo) \in Nat
      /\ Cardinality(Ticking) + Cardinality(todo) <= Concurrency
  BY FS_CardinalityType DEF LimitInv
<1>5. IsFiniteSet(todo') /\ Cardinality(todo') = Cardinality(todo) - 1
  BY <1>4, FS_RemoveElement
<1>6. Cardinality(todo) > 0
  BY <1>4, FS_EmptySet
<1>7. Concurrency \in Nat
  BY SchedulerAssumption
<1>8. /\ Cardinality(Ticking') + Cardinality(todo') <= Concurrency
      /\ Cardinality(Ticking') <= Concurrency
  BY <1>3, <1>4, <1>5, <1>6, <1>7
<1>9. QED
  BY <1>5, <1>8 DEF LimitInv

\* A run's step starts none.
LEMMA RunStepLimit ==
  ASSUME TypeOK, LimitInv, NEW r \in Runs, RunStep(r)
  PROVE  LimitInv'
<1>1. CASE RowRefused(r) /\ run[r].by = "boot"
  BY <1>1, EndLimit DEF RowRefused
<1>2. CASE RowRefused(r) /\ run[r].by # "boot"
  <2>1. Ticking' \subseteq Ticking
    BY <1>2, TasksAreTasks DEF RowRefused, Ticking, TypeOK, InFlight, Starting
  <2>2. \/ UNCHANGED <<loop, boot, room, todo>>
        \/ loop' = "retry"
    BY <1>2 DEF RowRefused
  <2>3. QED
    BY <2>1, <2>2, QuietLimit
<1>3. CASE ~RowRefused(r)
  <2>1. /\ \A q \in Runs \ {r} : run'[q] = run[q]
        /\ run'[r].by = "tick" /\ run'[r].at \in InFlight =>
             run[r].by = "tick" /\ run[r].at \in InFlight
    <3>1. CASE WriteRow(r) \/ Launch(r)
      BY <3>1 DEF WriteRow, Launch, TypeOK, Task, InFlight, Starting
    <3>2. CASE Finish(r) \/ Settle(r)
      BY <3>2 DEF Finish, Settle, TypeOK, Task, InFlight, Starting
    <3>3. CASE Leave(r) \/ MissClose(r) \/ MissUnschedule(r)
      BY <3>3, TasksAreTasks DEF Leave, MissClose, MissUnschedule, TypeOK, Task, InFlight, Starting
    <3>4. QED
      BY <1>3, <3>1, <3>2, <3>3 DEF RunStep
  <2>2. Ticking' \subseteq Ticking
    BY <2>1 DEF Ticking
  <2>3. UNCHANGED <<loop, boot, room, todo>>
    BY <1>3 DEF RunStep, WriteRow, Launch, Finish, Settle, Leave, MissClose,
                MissUnschedule, engine
  <2>4. QED
    BY <2>2, <2>3, QuietLimit
<1>4. QED
  BY <1>1, <1>2, <1>3

\* A step of the loop keeps to the limit.
LEMMA EngineStepLimit ==
  ASSUME TypeOK, TaskInv, SlotInv, LimitInv, EngineStep
  PROVE  LimitInv'
<1>1. CASE Reconcile \/ Sweep \/ PassEnds \/ Look \/ Woken \/ SleepEnds \/ Retry
  <2>1. Ticking' \subseteq Ticking
    BY <1>1 DEF Reconcile, Sweep, PassEnds, Look, Woken, SleepEnds, Retry, Ticking
  <2>2. loop' # "read" /\ (loop' = "pass" => boot')
    BY <1>1 DEF Reconcile, Sweep, PassEnds, Look, Woken, SleepEnds, Retry
  <2>3. QED
    BY <2>1, <2>2, QuietLimit
<1>2. CASE Miss
  <2>1. PICK copy \in todo : MissOneShot(copy) \/ MissRecurring(copy)
    BY <1>2 DEF Miss, Foremost
  <2>2. CASE ProcessEnds
    BY <2>2, EndLimit
  <2>3. CASE ~ProcessEnds
    <3>1. Ticking' \subseteq Ticking
      BY <2>1, <2>3, PlaceIsAPlace
      DEF MissOneShot, MissRecurring, Ticking, TypeOK, InFlight, Starting
    <3>2. loop' = "miss"
      BY <1>2, <2>1, <2>3 DEF Miss, MissOneShot, MissRecurring
    <3>3. QED
      BY <3>1, <3>2, QuietLimit
  <2>4. QED
    BY <2>2, <2>3
<1>3. CASE StartNext
  <2>1. PICK copy \in todo :
          /\ todo' = todo \ {copy}
          /\ \/ Claim(copy, IF boot THEN "boot" ELSE "tick")
             \/ UNCHANGED run
    BY <1>3 DEF StartNext, Foremost
  <2>2. loop = "pass" /\ UNCHANGED <<loop, boot, room>>
    BY <1>3 DEF StartNext
  <2>3. CASE UNCHANGED run
    <3>1. Ticking' \subseteq Ticking
      BY <2>3 DEF Ticking
    <3>2. QED
      BY <2>1, <2>2, <3>1, QuietLimit
  <2>4. CASE Claim(copy, "boot") /\ boot
    <3>1. Ticking' \subseteq Ticking
      BY <2>4, PlaceIsAPlace DEF Claim, Ticking, TypeOK
    <3>2. QED
      BY <2>2, <2>4, <3>1, QuietLimit
  <2>5. CASE Claim(copy, "tick") /\ ~boot
    BY <2>1, <2>2, <2>5, TickLimit
  <2>6. QED
    BY <2>1, <2>3, <2>4, <2>5 DEF TypeOK
<1>4. CASE CountRoom
  <2>1. UNCHANGED run /\ room' = Room /\ loop' \in {"retry", "read"}
    BY <1>4 DEF CountRoom
  <2>2. loop' = "read" => Room # 0
    BY <1>4 DEF CountRoom
  <2>3. Running \in Nat /\ Cardinality(Ticking) <= Running /\ Cardinality(Ticking) \in Nat
    BY TickersHaveSlots, TickingIsFinite
  <2>4. Concurrency \in Nat
    BY SchedulerAssumption
  <2>5. Room # 0 => Cardinality(Ticking) + Room <= Concurrency
    BY <2>3, <2>4 DEF Room
  <2>6. Ticking' = Ticking
    BY <2>1 DEF Ticking
  <2>7. QED
    BY <2>1, <2>2, <2>5, <2>6 DEF LimitInv
<1>5. CASE ReadDue
  <2>1. PICK S \in FirstDue(room) : todo' = {Read(j) : j \in S}
    BY <1>5 DEF ReadDue
  <2>2. IsFiniteSet(Due) /\ Cardinality(Due) \in Nat /\ room \in Nat /\ Concurrency \in Nat
    BY SchedulerAssumption, FS_Subset, FS_CardinalityType DEF Due, TypeOK
  <2>3. IsFiniteSet(S) /\ Cardinality(S) \in Nat /\ Cardinality(S) <= room
    BY <2>2, FS_Subset, FS_CardinalityType DEF FirstDue
  <2>4. IsFiniteSet(todo') /\ Cardinality(todo') <= Cardinality(S)
    <3> DEFINE f == [j \in S |-> Read(j)]
    <3>1. f \in Surjection(S, todo')
      BY <2>1 DEF Surjection
    <3>2. QED
      BY <2>3, <3>1, FS_Surjection
  <2>5. Cardinality(todo') \in Nat
    BY <2>4, FS_CardinalityType
  <2>6. Ticking' = Ticking /\ loop' = "pass" /\ loop = "read"
    BY <1>5 DEF ReadDue, Ticking
  <2>7. Cardinality(Ticking) + room <= Concurrency /\ Cardinality(Ticking) \in Nat
    BY <2>6, TickingIsFinite DEF LimitInv
  <2>8. /\ Cardinality(Ticking) + Cardinality(todo') <= Concurrency
        /\ Cardinality(Ticking) <= Concurrency
    BY <2>2, <2>3, <2>4, <2>5, <2>7
  <2>9. QED
    BY <2>4, <2>6, <2>8 DEF LimitInv
<1>6. QED
  BY <1>1, <1>2, <1>3, <1>4, <1>5 DEF EngineStep

\* What comes from outside is not a tick's.
LEMMA OutsideLimit ==
  ASSUME TypeOK, LimitInv, Outside
  PROVE  LimitInv'
<1>1. ASSUME NEW u \in Users, RunNow(u)
      PROVE  LimitInv'
  <2>1. Ticking' \subseteq Ticking
    BY <1>1, PlaceIsAPlace, SchedulerAssumption DEF RunNow, Claim, Ticking, TypeOK
  <2>2. UNCHANGED <<loop, boot, room, todo>>
    BY <1>1 DEF RunNow, engine
  <2>3. QED
    BY <2>1, <2>2, QuietLimit
<1>2. CASE Halt
  BY <1>2, EndLimit DEF Halt
<1>3. CASE Outside /\ ~Halt /\ \A u \in Users : ~RunNow(u)
  <2>1. UNCHANGED run
    BY <1>3 DEF Outside, AskRun, AskEdit, Edit, Delete, Advance, Boot, Start, Stop
  <2>2. Ticking' \subseteq Ticking
    BY <2>1 DEF Ticking
  <2>3. \/ UNCHANGED <<loop, boot, room, todo>>
        \/ loop' = "reconcile"
    BY <1>3 DEF Outside, AskRun, AskEdit, Edit, Delete, Advance, Boot, Start, Stop, engine
  <2>4. QED
    BY <2>2, <2>3, QuietLimit
<1>4. QED
  BY <1>1, <1>2, <1>3

\* Every step keeps to the limit.
LEMMA LimitStays ==
  ASSUME TypeOK, TaskInv, SlotInv, LimitInv, [Next]_vars
  PROVE  LimitInv'
<1>1. CASE Next
  BY <1>1, NextIsOneOf, RunStepLimit, EngineStepLimit, OutsideLimit
<1>2. CASE UNCHANGED vars
  <2>1. UNCHANGED <<run, loop, boot, room, todo>>
    BY <1>2 DEF vars, engine
  <2>2. Ticking' \subseteq Ticking
    BY <2>1 DEF Ticking
  <2>3. QED
    BY <2>1, <2>2, QuietLimit
<1>3. QED
  BY <1>1, <1>2

-----------------------------------------------------------------------------
(* The timer's one start of a one-shot *)

\* The loop takes up nothing, and of the one-shots it has started the times are
\* left alone or cleared.
LEMMA QuietOnce ==
  ASSUME HandInv, SpentInv, todo' \subseteq todo,
         \A r \in Runs : ByEngine(r)' =>
           /\ ByEngine(r) /\ run'[r].id = run[r].id
           /\ run'[r].at \in Starting => run[r].at \in Starting,
         \A j \in Jobs \ stale' : Spent(j)' =>
           /\ j \notin stale /\ Spent(j) /\ drove'[j] = drove[j]
           /\ job'[j].next \in {job[j].next, 0}
  PROVE  HandInv' /\ SpentInv'
<1>1. HandInv'
  BY DEF HandInv
<1>2. SpentInv'
  <2> SUFFICES ASSUME NEW j \in Jobs \ stale', Spent(j)'
               PROVE  /\ drove'[j] = 1 /\ job'[j].next = 0
                      /\ \A c \in todo' : c.id # j
                      /\ \A r \in Runs : ByEngine(r)' /\ run'[r].at \in Starting
                                           => run'[r].id # j
    BY DEF SpentInv
  <2>1. /\ j \in Jobs \ stale /\ Spent(j)
        /\ drove'[j] = drove[j] /\ job'[j].next \in {job[j].next, 0}
    OBVIOUS
  <2>2. /\ drove[j] = 1 /\ job[j].next = 0
        /\ \A c \in todo : c.id # j
        /\ \A r \in Runs : ByEngine(r) /\ run[r].at \in Starting => run[r].id # j
    BY <2>1 DEF SpentInv
  <2>3. QED
    BY <2>1, <2>2
<1>3. QED
  BY <1>1, <1>2

\* The process ends with all it had in hand.
LEMMA EndOnce ==
  ASSUME TypeOK, HandInv, SpentInv, ProcessEnds, UNCHANGED <<job, stale, drove>>
  PROVE  HandInv' /\ SpentInv'
<1>1. \A r \in Runs : ~ByEngine(r)'
  BY TasksAreTasks DEF ProcessEnds, ByEngine, Starting, Missing
<1>2. \A j \in Jobs : Spent(j)' <=> Spent(j)
  BY DEF Spent
<1>3. todo' \subseteq todo
  BY DEF ProcessEnds
<1>4. QED
  BY <1>1, <1>2, <1>3, QuietOnce

\* The loop reads the table: each due job once, and no one-shot it has started.
LEMMA LookupOnce ==
  ASSUME TypeOK, SpentInv, UNCHANGED <<job, run, stale, drove>>,
         \A r \in Runs : ~ByEngine(r),
         \A c \in todo' : \E j \in Due : c = Read(j)
  PROVE  HandInv' /\ SpentInv'
<1>1. \A c \in todo' : c.id \in Due /\ c = Read(c.id)
  BY ReadTypes DEF Due
<1>2. \A r \in Runs : ~ByEngine(r)'
  BY DEF ByEngine
<1>3. HandInv'
  BY <1>1, <1>2 DEF HandInv
<1>4. SpentInv'
  <2> SUFFICES ASSUME NEW j \in Jobs \ stale, Spent(j)
               PROVE  /\ drove[j] = 1 /\ job[j].next = 0
                      /\ \A c \in todo' : c.id # j
    BY <1>2 DEF SpentInv, Spent
  <2>1. drove[j] = 1 /\ job[j].next = 0
    BY DEF SpentInv
  <2>2. j \notin Due
    BY <2>1 DEF Due
  <2>3. QED
    BY <1>1, <2>1, <2>2
<1>5. QED
  BY <1>3, <1>4

\* The loop takes a copy it has read and makes it a start or a miss.
LEMMA TakeOnce ==
  ASSUME TypeOK, HandInv, SpentInv, NEW copy \in todo, todo' = todo \ {copy},
         UNCHANGED <<job, stale, drove>>, NEW p \in Runs,
         \A q \in Runs \ {p} : run'[q] = run[q], run'[p].id = copy.id
  PROVE  HandInv' /\ SpentInv'
<1>1. \A q \in Runs \ {p} : ByEngine(q)' <=> ByEngine(q)
  BY DEF ByEngine
<1>2. \A c \in todo' : c \in todo /\ c.id # copy.id
  BY DEF HandInv
<1>3. HandInv'
  BY <1>1, <1>2 DEF HandInv
<1>4. SpentInv'
  <2> SUFFICES ASSUME NEW j \in Jobs \ stale, Spent(j)
               PROVE  /\ drove[j] = 1 /\ job[j].next = 0
                      /\ \A c \in todo' : c.id # j
                      /\ \A r \in Runs : ByEngine(r)' /\ run'[r].at \in Starting
                                           => run'[r].id # j
    BY DEF SpentInv, Spent
  <2>1. /\ drove[j] = 1 /\ job[j].next = 0
        /\ \A c \in todo : c.id # j
        /\ \A r \in Runs : ByEngine(r) /\ run[r].at \in Starting => run[r].id # j
    BY DEF SpentInv
  <2>2. ASSUME NEW r \in Runs, ByEngine(r)', run'[r].at \in Starting
        PROVE  run'[r].id # j
    <3>1. CASE r = p
      BY <2>1, <3>1
    <3>2. CASE r # p
      BY <1>1, <2>1, <2>2, <3>2
    <3>3. QED
      BY <3>1, <3>2
  <2>3. QED
    BY <1>2, <2>1, <2>2
<1>5. QED
  BY <1>3, <1>4

\* A turn starts: the timer's of a one-shot is its first, and clears its time.
LEMMA LaunchOnce ==
  ASSUME TypeOK, TaskInv, EngineInv, FitInv, HandInv, SpentInv,
         NEW r \in Runs, Launch(r)
  PROVE  HandInv' /\ SpentInv'
<1> DEFINE j == run[r].id
<1>1. /\ j \in Jobs /\ run[r].as \in Job /\ run[r].next \in Nat
      /\ run[r].at = "rowed" /\ run[r].at \in Starting
      /\ job' = Scheduled(j, run[r].next)
  BY DEF Launch, Provisional, TaskInv, TypeOK, Task, Starting
<1>2. /\ \A q \in Runs \ {r} : run'[q] = run[q]
      /\ run'[r].at = "turn" /\ UNCHANGED <<todo, stale>>
  BY DEF Launch, TypeOK, Task
<1>3. /\ ~ByEngine(r)'
      /\ \A q \in Runs \ {r} : ByEngine(q)' <=> ByEngine(q)
  BY <1>2 DEF ByEngine, Starting, Missing
<1>4. HandInv'
  BY <1>2, <1>3 DEF HandInv
<1>5. SpentInv'
  <2> SUFFICES ASSUME NEW i \in Jobs \ stale, Spent(i)'
               PROVE  /\ drove'[i] = 1 /\ job'[i].next = 0
                      /\ \A c \in todo : c.id # i
                      /\ \A q \in Runs : ByEngine(q)' /\ run'[q].at \in Starting
                                           => run'[q].id # i
    BY <1>2 DEF SpentInv
  <2>1. /\ job[i].there /\ OneShot(job[i].sched)
        /\ job'[i].next = IF i = j THEN run[r].next ELSE job[i].next
    BY <1>1, ScheduledTypes DEF Spent, OneShot, TypeOK
  <2>2. \A q \in Runs : ByEngine(q)' =>
          q # r /\ ByEngine(q) /\ run'[q].id = run[q].id /\ run'[q].at = run[q].at
    BY <1>2, <1>3
  <2>3. i = j => run[r].next = 0
    BY <1>1, <2>1 DEF FitInv, TimeInv, CopyInv, Same, Proper, Starting, OneShot
  <2>4. CASE i = j /\ run[r].by \in {"boot", "tick"}
    <3>1. ByEngine(r)
      BY <1>1, <2>4 DEF ByEngine
    <3>2. drove[i] = 0
      BY <1>1, <2>1, <2>4, <3>1 DEF SpentInv, Spent
    <3>3. drove'[i] = 1
      BY <2>1, <2>4, <3>2 DEF Launch, Driven, TypeOK
    <3>4. \A c \in todo : c.id # i
      BY <2>4, <3>1 DEF HandInv
    <3>5. \A q \in Runs : ~ByEngine(q)'
      BY <2>2, <3>1 DEF EngineInv
    <3>6. QED
      BY <2>1, <2>3, <2>4, <3>3, <3>4, <3>5
  <2>5. CASE ~(i = j /\ run[r].by \in {"boot", "tick"})
    <3>1. drove'[i] = drove[i]
      BY <1>1, <2>5 DEF Launch, Driven, TypeOK
    <3>2. Spent(i)
      BY <2>1, <3>1 DEF Spent
    <3>3. /\ drove[i] = 1 /\ job[i].next = 0
          /\ \A c \in todo : c.id # i
          /\ \A q \in Runs : ByEngine(q) /\ run[q].at \in Starting => run[q].id # i
      BY <3>2 DEF SpentInv
    <3>4. QED
      BY <2>1, <2>2, <2>3, <3>1, <3>3
  <2>6. QED
    BY <2>4, <2>5
<1>6. QED
  BY <1>4, <1>5

\* A run's step starts a one-shot at most once.
LEMMA RunStepOnce ==
  ASSUME TypeOK, TaskInv, EngineInv, FitInv, HandInv, SpentInv,
         NEW r \in Runs, RunStep(r)
  PROVE  HandInv' /\ SpentInv'
<1> DEFINE j == run[r].id
<1>1. run[r].at # "free" => j \in Jobs
  BY DEF TaskInv
<1>2. CASE Launch(r)
  BY <1>2, LaunchOnce
<1>3. CASE RowRefused(r) /\ run[r].by = "boot"
  BY <1>3, EndOnce DEF RowRefused, store
<1>4. CASE ~Launch(r) /\ ~(RowRefused(r) /\ run[r].by = "boot")
  <2>1. UNCHANGED <<stale, drove>> /\ todo' \subseteq todo
    BY <1>4 DEF RunStep, WriteRow, RowRefused, Finish, Settle, Leave, MissClose,
                MissUnschedule, engine
  <2>2. /\ \A q \in Runs \ {r} : run'[q] = run[q]
        /\ run'[r].at \in Starting \cup Missing =>
             /\ run'[r].id = run[r].id /\ run'[r].by = run[r].by
             /\ run[r].at \in Starting \cup Missing
             /\ run'[r].at \in Starting => run[r].at \in Starting
    <3>1. CASE WriteRow(r)
      BY <3>1 DEF WriteRow, TypeOK, Task, Starting, Missing
    <3>2. CASE RowRefused(r)
      BY <1>4, <3>2, TasksAreTasks DEF RowRefused, TypeOK, Task, Starting, Missing
    <3>3. CASE Finish(r) \/ Settle(r)
      BY <3>3 DEF Finish, Settle, TypeOK, Task, Starting, Missing
    <3>4. CASE Leave(r) \/ MissUnschedule(r)
      BY <3>4, TasksAreTasks DEF Leave, MissUnschedule, TypeOK, Task, Starting, Missing
    <3>5. CASE MissClose(r)
      BY <3>5 DEF MissClose, TypeOK, Task, Starting, Missing
    <3>6. QED
      BY <1>4, <3>1, <3>2, <3>3, <3>4, <3>5 DEF RunStep
  <2>3. \A q \in Runs : ByEngine(q)' =>
          /\ ByEngine(q) /\ run'[q].id = run[q].id
          /\ run'[q].at \in Starting => run[q].at \in Starting
    BY <2>2 DEF ByEngine
  <2>4. \A i \in Jobs \ stale : Spent(i)' =>
          Spent(i) /\ job'[i].next \in {job[i].next, 0}
    <3>1. CASE UNCHANGED job
      BY <2>1, <3>1 DEF Spent
    <3>2. CASE Settle(r)
      <4>1. /\ j \in Jobs /\ run[r].as \in Job /\ NextRunFor(run[r].as) \in Nat
            /\ j \notin stale => Same(run[r].as, job[j])
        BY <1>1, <3>2, RunTimes DEF Settle, TaskInv, FitInv, CopyInv, TypeOK
      <4>2. job' \in {Gone(j), job} \/ (~OneShot(run[r].as.sched)
                                        /\ job' = Scheduled(j, NextRunFor(run[r].as)))
        BY <3>2 DEF Settle, Gone
      <4>3. CASE job' \in {Gone(j), job}
        BY <2>1, <4>1, <4>3, GoneTypes DEF Spent, TypeOK
      <4>4. CASE ~OneShot(run[r].as.sched) /\ job' = Scheduled(j, NextRunFor(run[r].as))
        <5>1. j \notin stale => ~OneShot(job[j].sched)
          BY <4>1, <4>4 DEF Same
        <5>2. QED
          BY <2>1, <4>1, <4>4, <5>1, ScheduledTypes DEF Spent, OneShot, TypeOK
      <4>5. QED
        BY <4>2, <4>3, <4>4
    <3>3. CASE MissUnschedule(r)
      <4>1. j \in Jobs /\ job' = Scheduled(j, 0)
        BY <1>1, <3>3 DEF MissUnschedule
      <4>2. \A i \in Jobs : /\ job'[i].there = job[i].there /\ job'[i].sched = job[i].sched
                            /\ job'[i].next \in {job[i].next, 0}
        BY <4>1, ScheduledTypes DEF TypeOK
      <4>3. QED
        BY <2>1, <4>2 DEF Spent
    <3>4. QED
      BY <1>4, <3>1, <3>2, <3>3
      DEF RunStep, WriteRow, RowRefused, Finish, Leave, MissClose, store
  <2>5. QED
    BY <2>1, <2>3, <2>4, QuietOnce
<1>5. QED
  BY <1>2, <1>3, <1>4

\* A step of the loop takes up no one-shot a second time.
LEMMA EngineStepOnce ==
  ASSUME TypeOK, EngineInv, FitInv, HandInv, SpentInv, EngineStep
  PROVE  HandInv' /\ SpentInv'
<1>1. CASE Sweep \/ ReadDue
  <2>1. UNCHANGED <<job, run, stale, drove>> /\ \A r \in Runs : ~ByEngine(r)
    BY <1>1 DEF Sweep, ReadDue, store, EngineInv
  <2>2. \A c \in todo' : \E j \in Due : c = Read(j)
    BY <1>1 DEF Sweep, ReadDue, FirstDue
  <2>3. QED
    BY <2>1, <2>2, LookupOnce
<1>2. CASE Reconcile \/ PassEnds \/ Look \/ Woken \/ SleepEnds \/ Retry \/ CountRoom
  <2>1. UNCHANGED <<job, run, stale, drove, todo>>
    BY <1>2 DEF Reconcile, PassEnds, Look, Woken, SleepEnds, Retry, CountRoom, store
  <2>2. \A r \in Runs : ByEngine(r)' <=> ByEngine(r)
    BY <2>1 DEF ByEngine
  <2>3. \A j \in Jobs : Spent(j)' <=> Spent(j)
    BY <2>1 DEF Spent
  <2>4. QED
    BY <2>1, <2>2, <2>3, QuietOnce
<1>3. CASE Miss
  <2>1. PICK copy \in todo : MissOneShot(copy) \/ MissRecurring(copy)
    BY <1>3 DEF Miss, Foremost
  <2>2. copy.id \in Jobs /\ copy.as \in Job /\ UNCHANGED <<stale, drove>>
    BY <1>3, CopiesAreSomebody DEF Miss, TypeOK
  <2>3. CASE MissOneShot(copy) /\ job[copy.id].there
    <3>1. PICK p \in Runs : p = Place
      BY <2>3, PlaceIsAPlace DEF MissOneShot
    <3>2. /\ \A q \in Runs \ {p} : run'[q] = run[q]
          /\ run'[p].id = copy.id
          /\ todo' = todo \ {copy} /\ UNCHANGED job
      BY <2>3, <3>1 DEF MissOneShot, TypeOK
    <3>3. QED
      BY <2>2, <3>2, TakeOnce
  <2>4. CASE MissOneShot(copy) /\ ~job[copy.id].there
    BY <2>2, <2>4, EndOnce DEF MissOneShot
  <2>5. CASE MissRecurring(copy)
    <3> DEFINE next == NextRunAfter(copy.as.sched, now)
    <3>1. next \in Nat /\ job' = Scheduled(copy.id, next)
      BY <2>2, <2>5, TimesAreTimes DEF MissRecurring, Job, TypeOK
    <3>2. copy.id \notin stale => ~OneShot(job[copy.id].sched)
      BY <2>2, <2>5 DEF FitInv, CopyInv, Same, MissRecurring
    <3>3. \A j \in Jobs \ stale : Spent(j)' => Spent(j) /\ job'[j].next = job[j].next
      BY <2>2, <3>1, <3>2, ScheduledTypes DEF Spent, OneShot, TypeOK
    <3>4. todo' \subseteq todo /\ UNCHANGED run
      BY <2>5 DEF MissRecurring
    <3>5. \A r \in Runs : ByEngine(r)' <=> ByEngine(r)
      BY <3>4 DEF ByEngine
    <3>6. QED
      BY <2>2, <3>3, <3>4, <3>5, QuietOnce
  <2>6. QED
    BY <2>1, <2>3, <2>4, <2>5
<1>4. CASE StartNext
  <2>1. PICK copy \in todo :
          /\ todo' = todo \ {copy}
          /\ \/ Claim(copy, "boot") \/ Claim(copy, "tick")
             \/ UNCHANGED run
    BY <1>4 DEF StartNext, Foremost
  <2>2. UNCHANGED <<job, stale, drove>>
    BY <1>4 DEF StartNext, store
  <2>3. CASE UNCHANGED run
    <3>1. \A r \in Runs : ByEngine(r)' <=> ByEngine(r)
      BY <2>3 DEF ByEngine
    <3>2. \A j \in Jobs : Spent(j)' <=> Spent(j)
      BY <2>2 DEF Spent
    <3>3. QED
      BY <2>1, <2>2, <2>3, <3>1, <3>2, QuietOnce
  <2>4. CASE Claim(copy, "boot") \/ Claim(copy, "tick")
    <3>1. PICK p \in Runs : p = Place
      BY <2>4, PlaceIsAPlace DEF Claim
    <3>2. /\ \A q \in Runs \ {p} : run'[q] = run[q]
          /\ run'[p].id = copy.id
      BY <2>4, <3>1 DEF Claim, TypeOK
    <3>3. QED
      BY <2>1, <2>2, <3>2, TakeOnce
  <2>5. QED
    BY <2>1, <2>3, <2>4
<1>5. QED
  BY <1>1, <1>2, <1>3, <1>4 DEF EngineStep

\* What comes from outside starts nothing for the timer; an edit begins the count
\* anew, and is marked while the loop has an older copy.
LEMMA OutsideOnce ==
  ASSUME TypeOK, HandInv, SpentInv, Outside
  PROVE  HandInv' /\ SpentInv'
<1>1. ASSUME NEW u \in Users, RunNow(u)
      PROVE  HandInv' /\ SpentInv'
  <2>1. UNCHANGED <<job, stale, drove, todo>>
    BY <1>1 DEF RunNow, store, engine
  <2>2. \A r \in Runs : ByEngine(r)' => ByEngine(r) /\ run'[r] = run[r]
    <3>1. u \notin {"boot", "tick"}
      BY SchedulerAssumption
    <3>2. QED
      BY <1>1, <3>1, PlaceIsAPlace DEF RunNow, Claim, TypeOK, ByEngine
  <2>3. \A j \in Jobs : Spent(j)' <=> Spent(j)
    BY <2>1 DEF Spent
  <2>4. QED
    BY <2>1, <2>2, <2>3, QuietOnce
<1>2. ASSUME NEW u \in Users, Edit(u)
      PROVE  HandInv' /\ SpentInv'
  <2>1. PICK e \in Change : e = asking[u] /\ e.id \in Jobs
    BY <1>2, ChangesAreChanges DEF Edit
  <2>2. UNCHANGED <<todo, run>>
    BY <1>2 DEF Edit, engine
  <2>5. \A r \in Runs : ByEngine(r)' <=> ByEngine(r)
    BY <2>2 DEF ByEngine
  <2>3. CASE ~job[e.id].there
    <3>1. UNCHANGED <<job, stale, drove>>
      BY <1>2, <2>1, <2>3 DEF Edit
    <3>2. \A j \in Jobs : Spent(j)' <=> Spent(j)
      BY <3>1 DEF Spent
    <3>3. QED
      BY <2>2, <2>5, <3>1, <3>2, QuietOnce
  <2>4. CASE job[e.id].there
    <3>1. drove'[e.id] = 0
      BY <1>2, <2>1, <2>4 DEF Edit, TypeOK
    <3>2. \A i \in Jobs \ {e.id} :
            /\ job'[i] = job[i] /\ drove'[i] = drove[i]
            /\ i \notin stale' => i \notin stale
      BY <1>2, <2>1, <2>4 DEF Edit, TypeOK
    <3>3. \A i \in Jobs \ stale' : Spent(i)' =>
            /\ i \notin stale /\ Spent(i) /\ drove'[i] = drove[i]
            /\ job'[i].next = job[i].next
      <4> SUFFICES ASSUME NEW i \in Jobs \ stale', Spent(i)'
                   PROVE  /\ i \notin stale /\ Spent(i) /\ drove'[i] = drove[i]
                          /\ job'[i].next = job[i].next
        OBVIOUS
      <4>1. i # e.id
        BY <3>1 DEF Spent
      <4>2. job'[i] = job[i] /\ drove'[i] = drove[i] /\ i \notin stale
        BY <3>2, <4>1
      <4>3. Spent(i)
        BY <4>2 DEF Spent
      <4>4. QED
        BY <4>2, <4>3
    <3>4. QED
      BY <2>2, <2>5, <3>3, QuietOnce
  <2>6. QED
    BY <2>3, <2>4
<1>3. ASSUME NEW j \in Jobs, Delete(j)
      PROVE  HandInv' /\ SpentInv'
  <2>1. job' = Gone(j) /\ UNCHANGED <<stale, run, todo, drove>>
    BY <1>3 DEF Delete, Gone, engine
  <2>2. \A i \in Jobs : Spent(i)' => Spent(i) /\ job'[i].next = job[i].next
    BY <2>1, GoneTypes DEF Spent, OneShot, TypeOK
  <2>3. \A r \in Runs : ByEngine(r)' <=> ByEngine(r)
    BY <2>1 DEF ByEngine
  <2>4. QED
    BY <2>1, <2>2, <2>3, QuietOnce
<1>4. CASE \/ Advance \/ Boot \/ Start \/ Stop
           \/ \E u \in Users : (\E j \in Jobs : AskRun(u, j)) \/ \E e \in Edits : AskEdit(u, e)
  <2>1. UNCHANGED <<job, stale, run, todo, drove>>
    BY <1>4 DEF Advance, Boot, Start, Stop, AskRun, AskEdit, store, engine
  <2>2. \A r \in Runs : ByEngine(r)' <=> ByEngine(r)
    BY <2>1 DEF ByEngine
  <2>3. \A j \in Jobs : Spent(j)' <=> Spent(j)
    BY <2>1 DEF Spent
  <2>4. QED
    BY <2>1, <2>2, <2>3, QuietOnce
<1>5. CASE Halt
  BY <1>5, EndOnce DEF Halt, store
<1>6. QED
  BY <1>1, <1>2, <1>3, <1>4, <1>5 DEF Outside

\* Every step keeps the timer to one start of a one-shot.
LEMMA OnceStays ==
  ASSUME TypeOK, TaskInv, EngineInv, FitInv, HandInv, SpentInv, [Next]_vars
  PROVE  HandInv' /\ SpentInv'
<1>1. CASE Next
  BY <1>1, NextIsOneOf, RunStepOnce, EngineStepOnce, OutsideOnce
<1>2. CASE UNCHANGED vars
  <2>1. UNCHANGED <<job, stale, run, todo, drove>>
    BY <1>2 DEF vars, store, engine
  <2>2. \A r \in Runs : ByEngine(r)' <=> ByEngine(r)
    BY <2>1 DEF ByEngine
  <2>3. \A j \in Jobs : Spent(j)' <=> Spent(j)
    BY <2>1 DEF Spent
  <2>4. QED
    BY <2>1, <2>2, <2>3, QuietOnce
<1>3. QED
  BY <1>1, <1>2

-----------------------------------------------------------------------------
(* The theorems *)

\* The invariant holds in every initial state.
LEMMA InitFits ==
  ASSUME Init
  PROVE  SchedulerInv
<1>1. /\ now = 0 /\ now \in Nat
      /\ \A r \in Runs : run[r] = NoTask
      /\ \A u \in Users : asking[u] = Nobody
  BY DEF Init
<1>2. ASSUME NEW j \in Jobs
      PROVE  /\ job[j] \in Job
             /\ Fits(j)
  <2> DEFINE made == Made[j]
  <2>1. made \in [sched : Schedules, on : BOOLEAN, once : BOOLEAN]
    BY SchedulerAssumption
  <2>2. /\ job[j].there = TRUE /\ job[j].sched = made.sched /\ job[j].enabled = made.on
        /\ job[j].next = FirstRunAt(made.sched, made.on)
        /\ job[j] = Created(made)
    BY DEF Init, Created
  <2>3. /\ FirstRunAt(made.sched, made.on) \in Nat
        /\ ~made.on => FirstRunAt(made.sched, made.on) = 0
        /\ made.on /\ OneShot(made.sched) => FirstRunAt(made.sched, made.on) = made.sched.when
        /\ made.on /\ ~OneShot(made.sched) => FirstRunAt(made.sched, made.on) > 0
    BY <1>1, <2>1, TimesAreTimes DEF FirstRunAt
  <2>4. job[j] \in Job
    BY <2>1, <2>2, <2>3 DEF Created, Job
  <2>5. Fits(j)
    BY <2>1, <2>2, <2>3 DEF Fits
  <2>6. QED
    BY <2>4, <2>5
<1>3. TypeOK
  <2>1. job \in [Jobs -> Job]
    BY <1>2 DEF Init
  <2>2. run \in [Runs -> Task]
    BY DEF Init, NoTask, Task, Callers, Nobody
  <2>3. /\ pending \in SUBSET Runs /\ held \in [Jobs -> Runs \cup {0}]
        /\ todo \in SUBSET Copy /\ asking \in [Users -> Copy \cup Change \cup {Nobody}]
        /\ stale \in SUBSET Jobs /\ drove \in [Jobs -> 0..2]
    BY DEF Init
  <2>4. QED
    BY <2>1, <2>2, <2>3 DEF Init, TypeOK
<1>4. TaskInv /\ SlotInv /\ PendingInv /\ PendingHasItsRun
  BY <1>1 DEF Init, TaskInv, SlotInv, PendingInv, PendingHasItsRun, NoTask, InFlight, Starting
<1>5. EngineInv
  BY <1>1 DEF Init, EngineInv, ByEngine, NoTask, Starting, Missing
<1>6. CopyInv /\ TimeInv
  BY <1>1, ChangesAreChanges, CopiesAreSomebody DEF Init, CopyInv, TimeInv, NoTask, Starting, Missing
<1>7. NextRunFits
  BY <1>2 DEF NextRunFits
<1>8. LimitInv
  <2>1. Ticking = {} /\ loop = "off"
    BY <1>1 DEF Init, Ticking, NoTask, InFlight, Starting
  <2>2. QED
    BY <2>1, FS_EmptySet, SchedulerAssumption DEF LimitInv
<1>9. HandInv /\ SpentInv
  BY <1>1 DEF Init, HandInv, SpentInv, Spent, ByEngine, NoTask, Starting, Missing
<1>10. QED
  BY <1>3, <1>4, <1>5, <1>6, <1>7, <1>8, <1>9 DEF SchedulerInv

\* The invariant the theorems below are parts of.
THEOREM SchedulerInvariant == Spec => []SchedulerInv
<1>1. Init => SchedulerInv
  BY InitFits
<1>2. SchedulerInv /\ [Next]_vars => SchedulerInv'
  <2> SUFFICES ASSUME SchedulerInv, [Next]_vars
               PROVE  SchedulerInv'
    OBVIOUS
  <2>1. TypeOK'
    BY TypesStay DEF SchedulerInv
  <2>2. CoreInv'
    BY CoreStays DEF SchedulerInv, CoreInv
  <2>3. FitInv'
    BY FitStays DEF SchedulerInv, FitInv
  <2>4. LimitInv'
    BY LimitStays DEF SchedulerInv
  <2>5. HandInv' /\ SpentInv'
    BY OnceStays DEF SchedulerInv, FitInv
  <2>6. QED
    BY <2>1, <2>2, <2>3, <2>4, <2>5 DEF SchedulerInv, CoreInv, FitInv
<1>3. QED
  BY <1>1, <1>2, PTL DEF Spec

\* Whatever is started, edited, deleted or killed, every variable of the timer
\* keeps its type, and a tick never has less than no room (tick).
THEOREM SchedulerTypes == Spec => []TypeOK
<1>1. SchedulerInv => TypeOK
  BY DEF SchedulerInv
<1>2. QED
  BY <1>1, SchedulerInvariant, PTL

\* With any number of jobs and callers no job has two runs going (claim, Slot):
\* the slot names the run that has it, so two runs of a job are one.
THEOREM NoJobOverlapsItself == Spec => []OneRunPerJob
<1>1. SchedulerInv => OneRunPerJob
  BY DEF SchedulerInv, SlotInv, OneRunPerJob
<1>2. QED
  BY <1>1, SchedulerInvariant, PTL

\* Once a boot has reconciled the table, no row is pending without a task that
\* will close it (execute, reconcile_pending).
THEOREM PendingRowsHaveRuns == Spec => []PendingHasItsRun
<1>1. SchedulerInv => PendingHasItsRun
  BY DEF SchedulerInv
<1>2. QED
  BY <1>1, SchedulerInvariant, PTL

\* However the process dies and whoever starts what, the next time of a job not
\* edited under a run agrees with its schedule (dispatch, settle, catch_up).
THEOREM NextTimesFit == Spec => []NextRunFits
<1>1. SchedulerInv => NextRunFits
  BY DEF SchedulerInv
<1>2. QED
  BY <1>1, SchedulerInvariant, PTL

\* However many runs are started on demand between a tick's count and its claims,
\* ticks never have more going than the limit (tick, dispatch, claim).
THEOREM TicksStayInTheLimit == Spec => []TicksKeepTheLimit
<1>1. SchedulerInv => TicksKeepTheLimit
  BY DEF SchedulerInv, LimitInv, Ticking, TicksKeepTheLimit
<1>2. QED
  BY <1>1, SchedulerInvariant, PTL

\* Wherever the process dies, whatever the boot does about what was missed and
\* whoever asks for runs on demand, the timer starts a one-shot not edited under a
\* run at most once (dispatch unschedules it before its turn starts).
THEOREM OneShotsStartOnce == Spec => []OneShotOnce
<1>1. SchedulerInv => OneShotOnce
  <2> SUFFICES ASSUME SchedulerInv, NEW j \in Jobs \ stale,
                      job[j].there, OneShot(job[j].sched)
               PROVE  drove[j] <= 1
    BY DEF OneShotOnce
  <2>1. drove[j] \in 0..2
    BY DEF SchedulerInv, TypeOK
  <2>2. drove[j] # 0 => drove[j] = 1
    BY DEF SchedulerInv, SpentInv, Spent
  <2>3. QED
    BY <2>1, <2>2
<1>2. QED
  BY <1>1, SchedulerInvariant, PTL

=============================================================================
