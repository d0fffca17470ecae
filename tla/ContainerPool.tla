---------------------------- MODULE ContainerPool ----------------------------
(***************************************************************************)
(* The sandbox service's warm containers                                   *)
(* (src/crates/environment/src/container_pool.rs) and what drives them     *)
(* (service.rs): commands, the operator's stop, restart and warm, the      *)
(* sweep, and the close at shutdown.                                       *)
(*                                                                         *)
(* The pool's map is behind one lock that no await holds, so every section *)
(* under it is a step; what was read in one may be old in the next.  A     *)
(* second lock, starting, is held across a start.  The daemon keeps its    *)
(* own account of what runs.                                               *)
(*                                                                         *)
(* Every place has the same environment, whose definition an operator      *)
(* edits and revokes.  The egress gateway goes with its container and is   *)
(* left out, as are orphans of an earlier process and a stop the daemon    *)
(* refuses.                                                                *)
(***************************************************************************)
EXTENDS Naturals, FiniteSets

CONSTANTS
  Keys,       \* places: workspace, mount, environment and network
  Commands,   \* connections that run commands, one at a time each
  Operator,   \* the one that stops, restarts, warms
  Keeper,     \* the sweep, and the close at shutdown
  Names,      \* names of containers; one may be used again once forgotten
  MaxLive,    \* ContainerPoolOptions.max_live, 0 for no cap
  Digests,    \* what the environment's definition hashes to
  MaxEvents,  \* bound: what an operator, the daemon or time do
  None

Procs == Commands \cup {Operator, Keeper}

Entry == [name : Names, digest : Digests, busy : Nat, idle : BOOLEAN]

ASSUME PoolAssumption ==
  /\ IsFiniteSet(Keys) /\ IsFiniteSet(Commands)
  /\ Operator \notin Commands /\ Keeper \notin Commands /\ Operator # Keeper
  /\ None \notin Keys \cup Names \cup Digests \cup Procs \cup Entry
  /\ MaxLive \in Nat /\ MaxEvents \in Nat

VARIABLES
  entry,    \* place -> its container in the map (Live.entries), or None
  older,    \* the map's order: <<a, b>> when a's was used before b's
  epoch,    \* place -> explicit stops so far (Live.epochs)
  starting, \* who holds the start lock, or None
  proc,     \* process -> where it is
  up,       \* container -> place it was made for while the daemon runs it, or None
  def,      \* the approved definition's digest, None when revoked
  events    \* events so far

map  == <<entry, older>>
vars == <<entry, older, epoch, starting, proc, up, def, events>>

-----------------------------------------------------------------------------
(* Shapes *)

Live  == {k \in Keys : entry[k] # None}

(* Where a process is.  A drop is a loop, "drop" and "stop", over the places  *)
(* it was told to empty, and goes on at next.  hand is the container being    *)
(* started, stopped or run in.                                                *)
Stages == {"idle", "drop", "stop", "resolve", "mint", "check", "ensure", "lock",
           "room", "start", "insert", "run", "inside", "stale", "halt", "halted",
           "invalid", "over"}
Whys == {"idle", "room", "changed", "gone", "asked"}
Jobs == {"command", "warm", "stop", "restart", "sweep", "close"}
Proc == [at : Stages, job : Jobs, key : Keys \cup {None},
         digest : Digests \cup {None}, epoch : Nat,
         doomed : SUBSET Keys, next : Stages, hand : Names \cup {None},
         gone : BOOLEAN, again : BOOLEAN,
         why : Whys]
Rest == [at |-> "idle", job |-> "command", key |-> None, digest |-> None,
         epoch |-> 0, doomed |-> {}, next |-> "idle", hand |-> None,
         gone |-> FALSE, again |-> FALSE, why |-> "asked"]

\* A name nobody remembers.
Up    == {n \in Names : up[n] # None}
Used  == Up \cup {entry[k].name : k \in Live} \cup {proc[p].hand : p \in Procs}
Fresh == Names \ Used

Event == events < MaxEvents /\ events' = events + 1

Goes(p, r) == proc' = [proc EXCEPT ![p] = r]
Ends(p)    == Goes(p, Rest)

\* drop_entry of each place of K in turn, and then next.
Dropping(r, K, why, next) ==
  IF K = {} THEN [r EXCEPT !.at = next, !.doomed = {}, !.next = "idle", !.why = "asked"]
  ELSE [r EXCEPT !.at = "drop", !.doomed = K, !.next = next, !.why = why]

Without(k) == {e \in older : k \notin {e[1], e[2]}}
Newest(k)  == Without(k) \cup ((Live \ {k}) \X {k})

\* reap_idle: not in use, and not used for a while.
IdlePlaces == {k \in Live : entry[k].busy = 0 /\ entry[k].idle}

\* ensure's candidate: the least recently used that is not in use.
Spare   == {k \in Live : entry[k].busy = 0}
Victims == {k \in Spare : \A j \in Spare : <<j, k>> \notin older}

\* Slip: a cap that lets one more in.
FullLate == MaxLive # 0 /\ Cardinality(Live) > MaxLive
Full     == MaxLive # 0 /\ Cardinality(Live) >= MaxLive

-----------------------------------------------------------------------------
(* A command: resolve_turn, then Facade::run. *)

\* resolve_turn: the policy first, then a sweep.
Opens(p, k, job) ==
  /\ proc[p].at = "idle"
  /\ def # None
  /\ Goes(p, Dropping([Rest EXCEPT !.job = job, !.key = k, !.digest = def],
                      IdlePlaces, "idle", "resolve"))
  /\ UNCHANGED <<map, epoch, starting, up, def>>

Resolve(c, k) == Opens(c, k, "command") /\ UNCHANGED events

\* A container of the same definition is stamped and moved to the end; one of
\* another is dropped.
Resolved(p) ==
  LET r == proc[p] IN LET k == r.key IN
  /\ r.at = "resolve"
  /\ IF entry[k] # None /\ entry[k].digest = r.digest
     THEN /\ entry' = [entry EXCEPT ![k].idle = FALSE]
          /\ older' = Newest(k)
          /\ Goes(p, [r EXCEPT !.at = "mint"])
     ELSE /\ Goes(p, Dropping(r, IF entry[k] = None THEN {} ELSE {k}, "changed", "mint"))
          /\ UNCHANGED map
  /\ UNCHANGED <<epoch, starting, up, def, events>>

Mint(p) ==
  LET r == proc[p] IN
  /\ r.at = "mint"
  /\ Goes(p, [r EXCEPT !.epoch = epoch[r.key],
                       !.at = IF r.job = "warm" THEN "ensure" ELSE "check"])
  /\ UNCHANGED <<map, epoch, starting, up, def, events>>

\* Facade::run refuses after an explicit stop.
Check(p) ==
  LET r == proc[p] IN
  /\ r.at = "check"
  /\ IF epoch[r.key] # r.epoch THEN Ends(p) ELSE Goes(p, [r EXCEPT !.at = "ensure", !.epoch = 0])
  /\ UNCHANGED <<map, epoch, starting, up, def, events>>

\* What follows a container being there: the command, or nothing more.
Ready(r) == IF r.job = "command" THEN [r EXCEPT !.at = "run", !.hand = None, !.digest = None] ELSE Rest

\* ensure: the approval again, then the map.
Ensure(p) ==
  LET r == proc[p] IN
  /\ r.at = "ensure"
  /\ IF def = None THEN Ends(p)
     ELSE IF entry[r.key] # None THEN Goes(p, Ready([r EXCEPT !.digest = def]))
     ELSE Goes(p, [r EXCEPT !.digest = def, !.at = "lock"])
  /\ UNCHANGED <<map, epoch, starting, up, def, events>>

\* Slip: the map is not looked at again.
LockBlindly(p) ==
  LET r == proc[p] IN
  /\ r.at = "lock" /\ starting = None
  /\ starting' = p
  /\ Goes(p, Dropping(r, IdlePlaces, "idle", "room"))
  /\ UNCHANGED <<map, epoch, up, def, events>>

\* The start lock, and the map again under it; then a sweep.
Lock(p) ==
  LET r == proc[p] IN
  /\ r.at = "lock" /\ starting = None
  /\ IF entry[r.key] # None
     THEN Goes(p, Ready(r)) /\ UNCHANGED starting
     ELSE /\ starting' = p
          /\ Goes(p, Dropping(r, IdlePlaces, "idle", "room"))
  /\ UNCHANGED <<map, epoch, up, def, events>>

\* At the cap the oldest that is not in use makes room, or the command is refused.
Room(p) ==
  LET r == proc[p] IN
  /\ r.at = "room"
  /\ \/ ~Full /\ Goes(p, [r EXCEPT !.at = "start"]) /\ UNCHANGED starting
     \/ /\ Full
        /\ \E k \in Victims : Goes(p, Dropping(r, {k}, "room", "start"))
        /\ UNCHANGED starting
     \/ Full /\ Spare = {} /\ Ends(p) /\ starting' = None
  /\ UNCHANGED <<map, epoch, up, def, events>>

\* start, from the definition approved before the lock was waited for.
Start(p) ==
  LET r == proc[p] IN
  /\ r.at = "start"
  /\ Fresh # {}
  /\ LET n == CHOOSE n \in Fresh : TRUE IN
     /\ up' = [up EXCEPT ![n] = r.key]
     /\ Goes(p, [r EXCEPT !.at = "insert", !.hand = n])
  /\ UNCHANGED <<map, epoch, starting, def, events>>

\* Slip: a start that fails keeps the lock.
FailsHolding(p) ==
  /\ Event
  /\ proc[p].at = "start"
  /\ Ends(p)
  /\ UNCHANGED <<map, epoch, starting, up, def>>

StartFails(p) ==
  /\ Event
  /\ proc[p].at = "start"
  /\ Ends(p) /\ starting' = None
  /\ UNCHANGED <<map, epoch, up, def>>

Insert(p) ==
  LET r == proc[p] IN
  /\ r.at = "insert"
  /\ entry' = [entry EXCEPT ![r.key] = [name |-> r.hand, digest |-> r.digest,
                                        busy |-> 0, idle |-> FALSE]]
  /\ older' = IF r.key \in Live THEN older ELSE Newest(r.key)
  /\ starting' = None
  /\ Goes(p, Ready(r))
  /\ UNCHANGED <<epoch, up, def, events>>

(* run_on *)

\* The place's container is marked busy; with none there the command fails.
Run(p) ==
  LET r == proc[p] IN LET k == r.key IN
  /\ r.at = "run"
  /\ IF entry[k] = None THEN Ends(p) /\ UNCHANGED entry
     ELSE /\ entry' = [entry EXCEPT ![k].busy = @ + 1]
          /\ Goes(p, [r EXCEPT !.at = "inside", !.hand = entry[k].name,
                               !.gone = entry[k].name \notin Up])
  /\ UNCHANGED <<older, epoch, starting, up, def, events>>

\* Slip: an exec that found no container gives nothing back.
Unreleased(p) ==
  LET r == proc[p] IN
  IF entry[r.key] = None \/ r.gone THEN entry
  ELSE [entry EXCEPT ![r.key].busy = IF @ = 0 THEN 0 ELSE @ - 1, ![r.key].idle = FALSE]

\* The way out: whatever container has the place by now is given back.
Released(p) ==
  LET r == proc[p] IN
  IF entry[r.key] = None THEN entry
  ELSE [entry EXCEPT ![r.key].busy = IF @ = 0 THEN 0 ELSE @ - 1, ![r.key].idle = FALSE]

\* The command ends: by itself, cancelled, killed with its container, or because
\* the daemon knows no such container, which is tried once more.
Exit(p) ==
  LET r == proc[p] IN
  /\ r.at = "inside"
  /\ entry' = Released(p)
  /\ IF r.gone /\ ~r.again
     THEN Goes(p, [r EXCEPT !.at = "stale", !.hand = None, !.gone = FALSE, !.again = TRUE])
     ELSE Ends(p)
  /\ UNCHANGED <<older, epoch, starting, up, def, events>>

\* The rebuild: whatever container has the place now is dropped.
Rebuild(p) ==
  LET r == proc[p] IN
  /\ r.at = "stale"
  /\ IF entry[r.key] = None THEN Ends(p)
     ELSE Goes(p, Dropping(r, {r.key}, "gone", "ensure"))
  /\ UNCHANGED <<map, epoch, starting, up, def, events>>

-----------------------------------------------------------------------------
(* drop_entry: out of the map, then the daemon is told. *)

Drop(p) ==
  LET r == proc[p] IN
  /\ r.at = "drop"
  /\ \E k \in r.doomed :
       IF entry[k] = None
       THEN /\ Goes(p, Dropping(r, r.doomed \ {k}, r.why, r.next))
            /\ UNCHANGED map
       ELSE /\ Goes(p, [r EXCEPT !.at = "stop", !.doomed = @ \ {k}, !.hand = entry[k].name])
            /\ entry' = [entry EXCEPT ![k] = None]
            /\ older' = Without(k)
  /\ UNCHANGED <<epoch, starting, up, def, events>>

\* Slip: the daemon is not told.
StopForgotten(p) ==
  LET r == proc[p] IN
  /\ r.at = "stop"
  /\ Goes(p, Dropping([r EXCEPT !.hand = None], r.doomed, r.why, r.next))
  /\ UNCHANGED <<map, epoch, starting, up, def, events>>

Stop(p) ==
  LET r == proc[p] IN
  /\ r.at = "stop"
  /\ up' = [up EXCEPT ![r.hand] = None]
  /\ Goes(p, Dropping([r EXCEPT !.hand = None], r.doomed, r.why, r.next))
  /\ UNCHANGED <<map, epoch, starting, def, events>>

-----------------------------------------------------------------------------
(* The operator and the sweep. *)

\* warm
Warm(k) == Opens(Operator, k, "warm") /\ Event

\* stop_instance or restart_instance of a container on the list.
Ask(job, n) ==
  /\ Event
  /\ proc[Operator].at = "idle"
  /\ \E k \in Live : entry[k].name = n
  /\ Goes(Operator, [Rest EXCEPT !.job = job, !.at = "halt", !.hand = n,
                       !.key = CHOOSE k \in Live : entry[k].name = n])
  /\ UNCHANGED <<map, epoch, starting, up, def>>

\* Under the start lock: the place's count of stops moves on and its container
\* is dropped.
Halt ==
  LET r == proc[Operator] IN
  /\ r.at = "halt" /\ starting = None
  /\ IF \E k \in Live : entry[k].name = r.hand
     THEN /\ epoch' = [epoch EXCEPT ![r.key] = @ + 1]
          /\ starting' = Operator
          /\ Goes(Operator, Dropping([r EXCEPT !.hand = None], {r.key}, "asked", "halted"))
     ELSE Ends(Operator) /\ UNCHANGED <<epoch, starting>>
  /\ UNCHANGED <<map, up, def, events>>

Halted ==
  LET r == proc[Operator] IN
  /\ r.at = "halted"
  /\ starting' = None
  /\ IF r.job = "restart" THEN Goes(Operator, [r EXCEPT !.at = "ensure"]) ELSE Ends(Operator)
  /\ UNCHANGED <<map, epoch, up, def, events>>

\* maintain: what is idle, then what a definition no longer valid started.
Sweep ==
  /\ proc[Keeper].at = "idle"
  /\ Goes(Keeper, Dropping([Rest EXCEPT !.job = "sweep"], IdlePlaces, "idle", "invalid"))
  /\ UNCHANGED <<map, epoch, starting, up, def, events>>

\* Slip: those left alone only.
InvalidIdle == {k \in IdlePlaces : entry[k].digest # def}
Invalid     == {k \in Live : entry[k].digest # def}

SweepInvalid ==
  LET r == proc[Keeper] IN
  /\ r.at = "invalid"
  /\ IF Invalid = {} THEN Ends(Keeper)
     ELSE Goes(Keeper, Dropping(r, Invalid, "changed", "over"))
  /\ UNCHANGED <<map, epoch, starting, up, def, events>>

\* close
Close ==
  /\ Event
  /\ proc[Keeper].at = "idle"
  /\ Live # {}
  /\ Goes(Keeper, Dropping([Rest EXCEPT !.job = "close"], Live, "asked", "over"))
  /\ UNCHANGED <<map, epoch, starting, up, def>>

Over(p) ==
  /\ proc[p].at = "over"
  /\ Ends(p)
  /\ UNCHANGED <<map, epoch, starting, up, def, events>>

-----------------------------------------------------------------------------
(* What happens by itself. *)

Age(k) ==
  /\ Event
  /\ k \in Live /\ ~entry[k].idle
  /\ entry' = [entry EXCEPT ![k].idle = TRUE]
  /\ UNCHANGED <<older, epoch, starting, proc, up, def>>

Lose(n) ==
  /\ Event
  /\ up[n] # None
  /\ up' = [up EXCEPT ![n] = None]
  /\ UNCHANGED <<map, epoch, starting, proc, def>>

Edit(d) ==
  /\ Event
  /\ d # def /\ def' = d
  /\ UNCHANGED <<map, epoch, starting, proc, up>>

-----------------------------------------------------------------------------
Init ==
  /\ entry = [k \in Keys |-> None] /\ older = {}
  /\ epoch = [k \in Keys |-> 0] /\ starting = None
  /\ proc = [p \in Procs |-> Rest]
  /\ up = [n \in Names |-> None]
  /\ def \in Digests /\ events = 0

Step(p) ==
  \/ Resolved(p) \/ Mint(p) \/ Check(p) \/ Ensure(p) \/ Lock(p) \/ Room(p)
  \/ Start(p) \/ StartFails(p) \/ Insert(p) \/ Run(p) \/ Exit(p) \/ Rebuild(p)
  \/ Drop(p) \/ Stop(p) \/ Over(p)

Next ==
  \/ \E p \in Procs : Step(p)
  \/ \E k \in Keys : Warm(k) \/ Age(k) \/ \E c \in Commands : Resolve(c, k)
  \/ \E n \in Names : Ask("stop", n) \/ Ask("restart", n) \/ Lose(n)
  \/ Halt \/ Halted \/ Sweep \/ SweepInvalid \/ Close
  \/ \E d \in Digests \cup {None} : Edit(d)

Spec == Init /\ [][Next]_vars

\* A task goes on, a command has a timeout, a lock is handed on in order, and the
\* sweep comes round.
Fairness ==
  /\ \A p \in Procs \ {Keeper} : WF_vars(Step(p)) /\ SF_vars(Lock(p))
  /\ SF_vars(Halt) /\ WF_vars(Halted)
  /\ WF_vars(Step(Keeper) \/ Sweep \/ SweepInvalid)

FairSpec == Spec /\ Fairness

-----------------------------------------------------------------------------
TypeOK ==
  /\ entry \in [Keys -> Entry \cup {None}]
  /\ older \subseteq Keys \X Keys
  /\ epoch \in [Keys -> Nat]
  /\ starting \in Procs \cup {None}
  /\ proc \in [Procs -> Proc]
  /\ up \in [Names -> Keys \cup {None}]
  /\ def \in Digests \cup {None}
  /\ events \in 0..MaxEvents

\* No interleaving of starts, evictions and rebuilds lets the map grow past the
\* cap, starts a place that has a container, or starts two at once (ensure makes
\* room before the start, under the start lock): the pool implements Places.
Starter == {p \in Procs : proc[p].at \in {"start", "insert"}}
Coming  == IF Starter = {} THEN None ELSE proc[CHOOSE p \in Starter : TRUE].key
Held    == INSTANCE Places WITH warm <- Live, coming <- Coming
PlacesHold == Held!Spec

\* Every container the daemon runs is in the map under the place it was made
\* for, or in the hands of the task that started it or is about to stop it: none
\* is forgotten, and no place has two that will stay (ensure looks at the map
\* again once it has the lock).
NothingOrphaned ==
  \A n \in Up : \/ \E k \in Live : entry[k].name = n /\ up[n] = k
               \/ \E p \in Procs : proc[p].hand = n /\ proc[p].at \in {"insert", "stop"}

\* A container counts no more commands than are in it: what ended, failed or was
\* killed gives its place back, or the container could never be swept or evicted
\* again (run_on's way out).
Inside(n) == {p \in Commands : proc[p].at = "inside" /\ proc[p].hand = n}
BusyIsReleased ==
  \A k \in Live : entry[k].busy <= Cardinality(Inside(entry[k].name))

\* Every command comes to an end, whoever holds the start lock, sweeps, evicts or
\* rebuilds meanwhile (the timeouts of service.rs; no lock is held across a wait
\* for another).
CommandsEnd == \A c \in Commands : (proc[c].at # "idle") ~> (proc[c].at = "idle")

\* A container made from a definition that was edited or revoked does not stay in its
\* place for good, used or not (maintain: the sweep for instances whose definition
\* moved).
RevokedIsDropped ==
  \A k \in Keys : []<>(entry[k] = None \/ entry[k].digest = def)

\* "A container with work in it is never reaped, whatever its timestamp says"
\* (container_pool.rs): a sweep or an eviction takes none a command is in.
BusyIsSpared ==
  [][\A p \in Procs : (proc[p].at = "drop" /\ proc'[p].at = "stop" /\ proc[p].why \in {"idle", "room"})
       => Inside(proc'[p].hand) = {}]_vars

\* "Every caller runs ensure immediately before this, and ensure either puts an
\* entry in place or fails" (run_on): a command that passed ensure finds it.
EnsureHolds == \A c \in Commands : proc[c].at = "run" => entry[proc[c].key] # None
=============================================================================
