------------------------------ MODULE Scheduler ------------------------------
(***************************************************************************)
(* The timer that runs jobs (src/crates/server/src/scheduler.rs) over its  *)
(* table of jobs and runs (automation_store.rs), and what reaches both     *)
(* from outside: an edit, a delete and "run now" (routes/automation.rs),   *)
(* the server's boot and end (src/crates/cli/src/serve.rs).                *)
(*                                                                         *)
(* The table is on disk and outlives the process; claims, runs and the     *)
(* loop do not.  Every statement on the table takes its lock alone, so     *)
(* each is a step, and what was read before it may be old: a run carries   *)
(* the job as it was when somebody read it.                                *)
(*                                                                         *)
(* A recurring schedule is an interval; a cron expression goes the same    *)
(* way through this code.  What a turn says is left out.                   *)
(***************************************************************************)
EXTENDS Naturals, FiniteSets

CONSTANTS
  Jobs,
  Users,       \* who asks for runs and edits, one request at a time each
  Runs,        \* places for run rows and their tasks, 1..n
  Schedules,   \* the schedules jobs are given: [kind, when]
  Made,        \* job -> how it was created: [sched, on, once]
  Concurrency, \* config.scheduler.concurrency
  Edits,       \* bound: the edits made: [job, given, sched, enabled]
  MaxTime,     \* bound: the clock
  MaxEvents    \* bound: edits, deletes, runs on demand and ends of the process

Kinds == {"at", "every"}

ASSUME SchedulerAssumption ==
  /\ 0 \notin Jobs /\ IsFiniteSet(Jobs)
  /\ Runs \subseteq Nat \ {0} /\ IsFiniteSet(Runs)
  /\ Users \cap {"boot", "tick"} = {}
  /\ Schedules \subseteq [kind : Kinds, when : Nat \ {0}]
  /\ Made \in [Jobs -> [sched : Schedules, on : BOOLEAN, once : BOOLEAN]]
  /\ Edits \subseteq [job : Jobs, given : SUBSET {"sched", "enabled"},
                     sched : Schedules, enabled : BOOLEAN]
  /\ Concurrency \in Nat \ {0}
  /\ MaxTime \in Nat /\ MaxEvents \in Nat

VARIABLES
  now,      \* the clock
  job,      \* job -> its row of automation_jobs
  pending,  \* rows of automation_runs with status pending
  run,      \* place -> the run's task, or its start
  held,     \* job -> State.in_flight: the run that has its slot, or 0
  proc,     \* the process: down, serving, started, stopping
  loop,     \* where the engine's thread is: start, then run
  todo,     \* the jobs it has read and not yet started
  boot,     \* it is in catch_up, not in tick
  worked,   \* this pass has started a run
  room,     \* free slots counted by this tick
  until,    \* when its sleep ends, 0 for never
  wake,     \* the permit of Inner.wake
  asking,   \* user -> what its request has read: a job to run, or a change to it
  stale,    \* jobs written to by, or edited under, an older copy
  drove,    \* one-shot -> turns the timer started since it was last scheduled
  events    \* edits, deletes, runs on demand and ends of the process so far

store  == <<job, pending>>
engine == <<loop, todo, boot, worked, room, until>>
vars == <<now, store, run, held, proc, engine, wake, asking, stale, drove, events>>

-----------------------------------------------------------------------------
(* Shapes *)

Callers == Users \cup {"boot", "tick"}

\* A row of automation_jobs; once is delete_after_run.
Job == [there : BOOLEAN, sched : Schedules, enabled : BOOLEAN, once : BOOLEAN,
        next : Nat]

\* A job as somebody read it.
Copy == [id : Jobs, as : Job]
Read(j) == [id |-> j, as |-> job[j]]
Nobody  == [id |-> 0]

\* An update between its read and its write: the fields it was given, the whole
\* schedule they make with the job that was read, and the time worked out from it.
Change == [id : Jobs, given : SUBSET {"sched", "enabled"}, sched : Schedules,
           enabled : BOOLEAN, next : Nat]

\* A run: claimed, its row written, its turn under way, its row closed, settled;
\* or the two steps that record a missed one-shot.  next is the provisional
\* time dispatch works out at the claim.
Starting == {"claimed", "rowed"}
InFlight == Starting \cup {"turn", "settle", "leave"}
Missing  == {"missed", "skipped"}
Task == [at : {"free"} \cup InFlight \cup Missing, id : Jobs \cup {0},
         by : Callers, as : Job \cup {Nobody}, next : Nat]
NoTask == [at |-> "free", id |-> 0, by |-> "tick", as |-> Nobody, next |-> 0]

\* A task that is over; a row it leaves pending keeps its job.
Over(r) == IF r \in pending THEN [NoTask EXCEPT !.id = run[r].id] ELSE NoTask

OneShot(sched) == sched.kind = "at"

\* next_run_after, 0 for never again.
NextRunAfter(sched, from) ==
  IF OneShot(sched) THEN IF sched.when > from THEN sched.when ELSE 0
                    ELSE from + sched.when

\* first_run_at: an instant already past is kept, for the boot to decide.
FirstRunAt(sched, enabled) ==
  IF ~enabled THEN 0
  ELSE IF OneShot(sched) THEN sched.when ELSE NextRunAfter(sched, now)

\* Slip: a one-shot that was started keeps its time.
KeepsOneShot(as) == IF ~as.enabled THEN 0 ELSE NextRunAfter(as.sched, now - 1)

\* next_run_for: nothing for a one-shot, which has used up its only
\* occurrence, and nothing for a disabled job.
NextRunFor(as) ==
  IF OneShot(as.sched) \/ ~as.enabled THEN 0 ELSE NextRunAfter(as.sched, now)

\* set_next_run, of a job that may be gone.
Scheduled(j, next) ==
  [job EXCEPT ![j].next = IF job[j].there THEN next ELSE @]

\* create_job.
Created(made) ==
  [there |-> TRUE, sched |-> made.sched, enabled |-> made.on,
   once |-> made.once, next |-> FirstRunAt(made.sched, made.on)]

Due == {j \in Jobs : /\ job[j].there /\ job[j].enabled
                     /\ job[j].next > 0 /\ job[j].next <= now}

\* due_jobs: the first n by their time.
FirstDue(n) ==
  {S \in SUBSET Due :
     /\ Cardinality(S) = IF Cardinality(Due) < n THEN Cardinality(Due) ELSE n
     /\ \A a \in S, b \in Due \ S : job[a].next <= job[b].next}

\* earliest_due_ms
Times == {job[j].next : j \in {i \in Jobs : job[i].there /\ job[i].enabled}} \ {0}
Earliest == {t \in Times : \A u \in Times : t <= u}

\* A place nobody uses and no pending row is kept in.
Places == {r \in Runs : run[r].at = "free" /\ r \notin pending}
Place  == CHOOSE r \in Places : TRUE

Busy(c) == \E r \in Runs : run[r].by = c /\ run[r].at \in Starting \cup Missing
EngineBusy == Busy("boot") \/ Busy("tick")

-----------------------------------------------------------------------------
Init ==
  /\ now = 0
  /\ job = [j \in Jobs |-> Created(Made[j])]
  /\ pending = {}
  /\ run = [r \in Runs |-> NoTask]
  /\ held = [j \in Jobs |-> 0]
  /\ proc = "down"
  /\ loop = "off" /\ todo = {} /\ boot = FALSE /\ worked = FALSE
  /\ room = 0 /\ until = 0
  /\ wake = FALSE
  /\ asking = [u \in Users |-> Nobody]
  /\ stale = {}
  /\ drove = [j \in Jobs |-> 0]
  /\ events = 0

-----------------------------------------------------------------------------
(* claim and dispatch, by whoever starts a run *)

\* Slip: the table is not asked.
ClaimedAnyway(j) == TRUE
Unclaimed(j) == held[j] = 0

\* claim, and the provisional time, worked out before the row is written.
Claim(copy, by) ==
  /\ Places # {}
  /\ run' = [run EXCEPT ![Place] =
       [at |-> "claimed", id |-> copy.id, by |-> by, as |-> copy.as,
        next |-> NextRunFor(copy.as)]]
  /\ held' = [held EXCEPT ![copy.id] = Place]

\* The slot a run dropped.
Dropped(r) == [held EXCEPT ![run[r].id] = IF @ = r THEN 0 ELSE @]

\* The process ends: a crash, a kill, or the end of close.
ProcessEnds ==
  /\ proc' = "down"
  /\ run' = [r \in Runs |-> Over(r)]
  /\ held' = [j \in Jobs |-> 0]
  /\ loop' = "off" /\ todo' = {} /\ boot' = FALSE /\ worked' = FALSE
  /\ room' = 0 /\ until' = 0
  /\ wake' = FALSE
  /\ asking' = [u \in Users |-> Nobody]

\* start_run.
WriteRow(r) ==
  /\ run[r].at = "claimed"
  /\ job[run[r].id].there
  /\ pending' = pending \cup {r}
  /\ run' = [run EXCEPT ![r].at = "rowed"]
  /\ UNCHANGED <<now, job, held, proc, engine, wake, asking, stale, drove, events>>

\* The job was deleted since it was read: its key is gone, the row is refused
\* and the slot given back.  A tick leaves what it had still to start; a boot
\* fails with it.
RowRefused(r) ==
  /\ run[r].at = "claimed"
  /\ ~job[run[r].id].there
  /\ IF run[r].by = "boot"
       THEN ProcessEnds
       ELSE /\ run' = [run EXCEPT ![r] = NoTask]
            /\ held' = Dropped(r)
            /\ IF run[r].by = "tick"
                 THEN todo' = {} /\ loop' = "retry"
                 ELSE UNCHANGED <<todo, loop>>
            /\ UNCHANGED <<proc, boot, worked, room, until, wake, asking>>
  /\ UNCHANGED <<now, store, stale, drove, events>>

\* Slip: the time is left to the end of the run.
NoProvisional(r) == 0
Provisional(r) == run[r].next

\* The timer's turns of a one-shot, counted to two.
Driven(j) ==
  [drove EXCEPT ![j] = IF OneShot(job[j].sched) /\ @ < 2 THEN @ + 1 ELSE @]

\* The provisional time, and the run's task.
Launch(r) ==
  /\ run[r].at = "rowed"
  /\ job' = Scheduled(run[r].id, Provisional(r))
  /\ run' = [run EXCEPT ![r].at = "turn", ![r].next = 0]
  /\ worked' = (worked \/ run[r].by \in {"boot", "tick"})
  /\ drove' = IF run[r].by \in {"boot", "tick"} THEN Driven(run[r].id) ELSE drove
  /\ UNCHANGED <<now, pending, held, proc, loop, todo, boot, room, until, wake,
                 asking, stale, events>>

-----------------------------------------------------------------------------
(* The task of a run: execute, settle *)

\* Slip: only the job's state is written.
RowLeft(r) == pending
RowClosed(r) == pending \ {r}

\* The turn has ended, was cancelled or has run out of time; finish_run and
\* record_outcome.
Finish(r) ==
  /\ run[r].at = "turn"
  /\ pending' = RowClosed(r)
  /\ run' = [run EXCEPT ![r].at = "settle"]
  /\ UNCHANGED <<now, job, held, proc, engine, wake, asking, stale, drove, events>>

\* Rows of a job, gone with it.
RowsOf(j) == {r \in pending : run[r].id = j}

\* The authoritative time, from the job as it was read before the run; a
\* one-shot keeps what the table has, or goes.
Settle(r) ==
  /\ run[r].at = "settle"
  /\ LET j == run[r].id  as == run[r].as IN
     IF as.once /\ OneShot(as.sched)
       THEN /\ job' = [job EXCEPT ![j].there = FALSE]
            /\ pending' = pending \ RowsOf(j)
       ELSE /\ job' = IF OneShot(as.sched) THEN job
                      ELSE Scheduled(j, NextRunFor(as))
            /\ UNCHANGED pending
  /\ run' = [run EXCEPT ![r].at = "leave", ![r].as = Nobody]
  /\ UNCHANGED <<now, held, proc, engine, wake, asking, stale, drove, events>>

\* The slot is dropped and the loop woken.
Leave(r) ==
  /\ run[r].at = "leave"
  /\ held' = Dropped(r)
  /\ run' = [run EXCEPT ![r] = NoTask]
  /\ wake' = TRUE
  /\ UNCHANGED <<now, store, proc, engine, asking, stale, drove, events>>

-----------------------------------------------------------------------------
(* start: what a dead process left, and what was missed *)

\* Slip: nobody looks for them.
Unreconciled == pending

\* reconcile_pending
Reconciled == {}

Start ==
  /\ proc = "serving"
  /\ proc' = "started"
  /\ loop' = "reconcile"
  /\ UNCHANGED <<now, store, run, held, todo, boot, worked, room, until, wake,
                 asking, stale, drove, events>>

Reconcile ==
  /\ loop = "reconcile"
  /\ pending' = Reconciled
  /\ loop' = "sweep"
  /\ UNCHANGED <<now, job, run, held, proc, todo, boot, worked, room, until,
                 wake, asking, stale, drove, events>>

\* missed_jobs, and whether catch_up_on_boot is set.
Sweep ==
  /\ loop = "sweep"
  /\ todo' = {Read(j) : j \in Due}
  /\ boot' = TRUE /\ worked' = FALSE
  /\ loop' \in {"pass", "miss"}
  /\ UNCHANGED <<now, store, run, held, proc, room, until, wake, asking, stale,
                 drove, events>>

\* Without catch-up a missed one-shot gets a row that says so ...
MissOneShot(copy) ==
  /\ OneShot(copy.as.sched)
  /\ IF job[copy.id].there
       THEN /\ Places # {}
            /\ run' = [run EXCEPT ![Place] =
                 [at |-> "missed", id |-> copy.id, by |-> "boot",
                  as |-> copy.as, next |-> 0]]
            /\ pending' = pending \cup {Place}
            /\ todo' = todo \ {copy}
            /\ UNCHANGED <<held, proc, loop, boot, worked, room, until, wake, asking>>
       ELSE ProcessEnds /\ UNCHANGED pending
  /\ UNCHANGED job

\* ... and a recurring job is moved to its next time.
MissRecurring(copy) ==
  /\ ~OneShot(copy.as.sched)
  /\ job' = Scheduled(copy.id, NextRunAfter(copy.as.sched, now))
  /\ todo' = todo \ {copy}
  /\ UNCHANGED <<pending, run, held, proc, loop, boot, worked, room, until, wake,
                 asking>>

\* The copies are taken in the order of their times.
Foremost == {c \in todo : \A d \in todo : c.as.next <= d.as.next}

Miss ==
  /\ loop = "miss" /\ ~EngineBusy
  /\ \E copy \in Foremost : MissOneShot(copy) \/ MissRecurring(copy)
  /\ UNCHANGED <<now, stale, drove, events>>

\* finish_run with "skipped", then the time.
MissClose(r) ==
  /\ run[r].at = "missed"
  /\ pending' = RowClosed(r)
  /\ run' = [run EXCEPT ![r].at = "skipped"]
  /\ UNCHANGED <<now, job, held, proc, engine, wake, asking, stale, drove, events>>

MissUnschedule(r) ==
  /\ run[r].at = "skipped"
  /\ job' = Scheduled(run[r].id, 0)
  /\ run' = [run EXCEPT ![r] = NoTask]
  /\ UNCHANGED <<now, pending, held, proc, engine, wake, asking, stale, drove, events>>

-----------------------------------------------------------------------------
(* The loop: look, sleep, tick *)

\* dispatch of the next job read, one already running left due.
StartNext ==
  /\ loop = "pass" /\ ~EngineBusy
  /\ \E copy \in Foremost :
       /\ todo' = todo \ {copy}
       /\ IF Unclaimed(copy.id)
            THEN Claim(copy, IF boot THEN "boot" ELSE "tick")
            ELSE UNCHANGED <<run, held>>
  /\ UNCHANGED <<now, store, proc, loop, boot, worked, room, until, wake, asking,
                 stale, drove, events>>

\* start returns and wakes the loop it leads to; a tick that started nothing
\* waits before the next.
PassEnds ==
  /\ loop \in {"pass", "miss"} /\ todo = {} /\ ~EngineBusy
  /\ loop' = IF boot \/ worked THEN "look" ELSE "retry"
  /\ wake' = (wake \/ boot)
  /\ boot' = FALSE /\ worked' = FALSE
  /\ UNCHANGED <<now, store, run, held, proc, todo, room, until, asking, stale,
                 drove, events>>

\* run and next_delay_ms.
Look ==
  /\ loop = "look"
  /\ \/ proc = "stopping" /\ loop' = "off" /\ until' = 0
     \/ proc # "stopping" /\ Times = {} /\ loop' = "asleep" /\ until' = 0
     \/ /\ proc # "stopping"
        /\ \E t \in Earliest : IF t <= now THEN loop' = "limit" /\ until' = 0
                                           ELSE loop' = "asleep" /\ until' = t
  /\ UNCHANGED <<now, store, run, held, proc, todo, boot, worked, room, wake,
                 asking, stale, drove, events>>

Woken ==
  /\ loop = "asleep" /\ wake
  /\ wake' = FALSE
  /\ loop' = "look" /\ until' = 0
  /\ UNCHANGED <<now, store, run, held, proc, todo, boot, worked, room, asking,
                 stale, drove, events>>

SleepEnds ==
  /\ loop = "asleep" /\ until \in 1..now
  /\ loop' = "limit" /\ until' = 0
  /\ UNCHANGED <<now, store, run, held, proc, todo, boot, worked, room, wake,
                 asking, stale, drove, events>>

\* BUSY_RETRY_MS, or a permit.
Retry ==
  /\ loop = "retry"
  /\ loop' = "look"
  /\ wake' \in {wake, FALSE}
  /\ UNCHANGED <<now, store, run, held, proc, todo, boot, worked, room, until,
                 asking, stale, drove, events>>

Running == Cardinality({j \in Jobs : held[j] # 0})

\* Slip: the limit, whatever runs.
WholeLimit == Concurrency
Room == IF Running >= Concurrency THEN 0 ELSE Concurrency - Running

\* tick: what in_flight leaves of the limit ...
CountRoom ==
  /\ loop = "limit"
  /\ room' = Room
  /\ loop' = IF proc = "stopping" \/ Room = 0 THEN "retry" ELSE "read"
  /\ UNCHANGED <<now, store, run, held, proc, todo, boot, worked, until, wake,
                 asking, stale, drove, events>>

\* ... and that many of the jobs that are due.
ReadDue ==
  /\ loop = "read"
  /\ \E S \in FirstDue(room) : todo' = {Read(j) : j \in S}
  /\ room' = 0 /\ worked' = FALSE
  /\ loop' = "pass"
  /\ UNCHANGED <<now, store, run, held, proc, boot, until, wake, asking, stale,
                 drove, events>>

-----------------------------------------------------------------------------
(* From outside *)

Advance ==
  /\ now < MaxTime
  /\ now' = now + 1
  /\ UNCHANGED <<store, run, held, proc, engine, wake, asking, stale, drove, events>>

Happens == events < MaxEvents /\ events' = events + 1

\* The next request is some user's that has none; which one makes no difference.
Free == {u \in Users : asking[u] = Nobody /\ ~Busy(u)}
Asks(u) == Free # {} /\ u = CHOOSE v \in Free : TRUE

\* run_now: get_job, then dispatch or a conflict.
AskRun(u, j) ==
  /\ proc # "down" /\ Happens
  /\ Asks(u)
  /\ job[j].there
  /\ asking' = [asking EXCEPT ![u] = Read(j)]
  /\ UNCHANGED <<now, store, run, held, proc, engine, wake, stale, drove>>

RunNow(u) ==
  /\ asking[u] \in Copy
  /\ asking' = [asking EXCEPT ![u] = Nobody]
  /\ IF Unclaimed(asking[u].id) THEN Claim(asking[u], u)
                                ELSE UNCHANGED <<run, held>>
  /\ UNCHANGED <<now, store, proc, engine, wake, stale, drove, events>>

\* Somebody but u works from a copy of j.
InUse(j, u) ==
  \/ \E copy \in todo : copy.id = j
  \/ \E v \in Users \ {u} : asking[v] # Nobody /\ asking[v].id = j
  \/ \E r \in Runs : run[r].at # "free" /\ run[r].id = j

\* Slip: the loop sleeps on.
Unrefreshed == wake

\* refresh_now, which wakes a started loop.
Refreshed == wake \/ proc = "started"

\* update: the job is read, and the time worked out from what the request gives
\* and the job has ...
Given(e, field, old) == IF field \in e.given THEN e[field] ELSE old

AskEdit(u, e) ==
  /\ proc # "down" /\ Happens
  /\ Asks(u)
  /\ job[e.job].there
  /\ LET sched   == Given(e, "sched", job[e.job].sched)
         enabled == Given(e, "enabled", job[e.job].enabled)
     IN asking' = [asking EXCEPT ![u] =
          [id |-> e.job, given |-> e.given, sched |-> sched, enabled |-> enabled,
           next |-> FirstRunAt(sched, enabled)]]
  /\ UNCHANGED <<now, store, run, held, proc, engine, wake, stale, drove>>

\* ... and update_job writes what was given, and the time, over what the job has
\* by then.
Patched(e) ==
  [job[e.id] EXCEPT !.sched = Given(e, "sched", @),
                    !.enabled = Given(e, "enabled", @), !.next = e.next]

\* The time is of another schedule than the one it is written beside.
Overtaken(e) == Patched(e).sched # e.sched \/ Patched(e).enabled # e.enabled

Edit(u) ==
  /\ asking[u] \in Change
  /\ asking' = [asking EXCEPT ![u] = Nobody]
  /\ LET e == asking[u]  j == e.id IN
     IF job[j].there
       THEN /\ job' = [job EXCEPT ![j] = Patched(e)]
            /\ stale' = IF InUse(j, u) \/ Overtaken(e) THEN stale \cup {j}
                                                    ELSE stale \ {j}
            /\ drove' = [drove EXCEPT ![j] = 0]
            /\ wake' = Refreshed
       ELSE UNCHANGED <<job, stale, drove, wake>>
  /\ UNCHANGED <<now, pending, run, held, proc, engine, events>>

\* delete_job; its rows go with it.
Delete(j) ==
  /\ proc # "down" /\ Happens
  /\ job[j].there
  /\ job' = [job EXCEPT ![j].there = FALSE]
  /\ pending' = pending \ RowsOf(j)
  /\ wake' = Refreshed
  /\ UNCHANGED <<now, run, held, proc, engine, asking, stale, drove>>

\* The server is built and answers requests; start comes after.
Boot ==
  /\ proc = "down"
  /\ proc' = "serving"
  /\ UNCHANGED <<now, store, run, held, engine, wake, asking, stale, drove, events>>

\* close: stop cancels what runs, and a loop that sleeps returns.
Stop ==
  /\ Happens
  /\ proc = "started" /\ ~boot /\ loop \notin {"reconcile", "sweep"}
  /\ proc' = "stopping"
  /\ wake' = TRUE
  /\ UNCHANGED <<now, store, run, held, engine, asking, stale, drove>>

\* A crash, or what follows a stop.
Halt ==
  /\ proc # "down"
  /\ IF proc = "stopping" THEN UNCHANGED events ELSE Happens
  /\ ProcessEnds
  /\ UNCHANGED <<now, store, stale, drove>>

-----------------------------------------------------------------------------
RunStep(r) == \/ WriteRow(r) \/ RowRefused(r) \/ Launch(r)
              \/ Finish(r) \/ Settle(r) \/ Leave(r)
              \/ MissClose(r) \/ MissUnschedule(r)

EngineStep == \/ Reconcile \/ Sweep \/ Miss \/ StartNext \/ PassEnds
              \/ Look \/ Woken \/ SleepEnds \/ Retry \/ CountRoom \/ ReadDue

Next ==
  \/ EngineStep
  \/ \E r \in Runs : RunStep(r)
  \/ \E u \in Users : \/ RunNow(u) \/ Edit(u)
                       \/ \E j \in Jobs : AskRun(u, j)
                       \/ \E e \in Edits : AskEdit(u, e)
  \/ \E j \in Jobs : Delete(j)
  \/ Advance \/ Boot \/ Start \/ Stop \/ Halt

\* The loop and each run get on: a turn has a time limit.  The clock need not.
Fairness == /\ WF_vars(EngineStep)
            /\ \A r \in Runs : WF_vars(RunStep(r))

Spec == Init /\ [][Next]_vars

FairSpec == Spec /\ Fairness

-----------------------------------------------------------------------------
(* Properties *)

\* Every variable keeps its type; what a tick may start is never below zero
\* (the early return of tick).
TypeOK ==
  /\ now \in Nat
  /\ job \in [Jobs -> Job]
  /\ pending \in SUBSET Runs
  /\ run \in [Runs -> Task]
  /\ held \in [Jobs -> Runs \cup {0}]
  /\ proc \in {"down", "serving", "started", "stopping"}
  /\ loop \in {"off", "reconcile", "sweep", "miss", "pass", "look", "asleep",
               "limit", "read", "retry"}
  /\ todo \in SUBSET Copy
  /\ boot \in BOOLEAN /\ worked \in BOOLEAN
  /\ room \in Nat /\ until \in Nat
  /\ wake \in BOOLEAN
  /\ asking \in [Users -> Copy \cup Change \cup {Nobody}]
  /\ stale \in SUBSET Jobs
  /\ drove \in [Jobs -> 0..2]
  /\ events \in Nat

\* A job never overlaps itself, whoever starts it and however old the copy it
\* is started from (claim, Slot).
OneRunPerJob ==
  \A r, q \in Runs :
    run[r].at \in InFlight /\ run[q].at \in InFlight /\ run[r].id = run[q].id
      => r = q

\* Once a boot has closed what a dead process left, a pending row has the task
\* that will close it, in every later state (execute, reconcile_pending).
PendingHasItsRun ==
  proc \in {"started", "stopping"} /\ loop # "reconcile" =>
    \A r \in pending : run[r].at \in {"rowed", "turn", "missed"}

\* What a job's next time should be: of a recurring job that is enabled some
\* time, of a disabled one none, of a one-shot its instant or none.
Fits(j) ==
  job[j].there =>
    \/ ~job[j].enabled /\ job[j].next = 0
    \/ job[j].enabled /\ OneShot(job[j].sched) /\ job[j].next \in {0, job[j].sched.when}
    \/ job[j].enabled /\ ~OneShot(job[j].sched) /\ job[j].next > 0

\* What the table says of a job's next time agrees with its schedule at every
\* step, so that "a hard kill leaves the job scheduled" wherever it falls
\* (dispatch, settle, catch_up, update).  A job that was edited while a run, the
\* loop or another edit worked from an older copy is left out: EditsHold.
NextRunFits == \A j \in Jobs \ stale : Fits(j)

\* "Recomputed whenever either half of 'when does this fire' moves"
\* (routes/automation.rs): once no run of it is under way, a job's time agrees
\* with its schedule, edited under a run or not.
EditsHold == \A j \in Jobs : held[j] = 0 => Fits(j)

\* The timer starts a one-shot at most once, through crashes, missed boots and
\* runs on demand (dispatch unschedules it before its turn starts).
OneShotOnce ==
  \A j \in Jobs \ stale :
    job[j].there /\ OneShot(job[j].sched) => drove[j] <= 1

\* Ticks never have more runs going than the limit, whatever else is started
\* between the count and the claims.
TicksKeepTheLimit ==
  Cardinality({r \in Runs : run[r].by = "tick" /\ run[r].at \in InFlight})
    <= Concurrency

Idle == {j \in Due : held[j] = 0}

\* "Dispatches everything due, up to the concurrency limit" (tick): of the jobs
\* that are due and not running, a tick takes up as many as it has room for.
TickFillsItsRoom ==
  [][loop = "read" /\ loop' = "pass" =>
       LET taken == {c \in todo' : held[c.id] = 0} IN
       Idle \subseteq {c.id : c \in taken} \/ Cardinality(taken) = room]_vars

\* A job that is due is started, moved or unscheduled, as long as the process
\* goes on: no wake is lost and no sleep goes past the time.
DueIsServed ==
  \A j \in Jobs : j \in Due ~> (j \notin Due \/ proc # "started")

=============================================================================
