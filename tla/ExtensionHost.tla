---------------------------- MODULE ExtensionHost ----------------------------
(***************************************************************************)
(* Extension processes beside the server                                   *)
(* (src/crates/extension-host/src/host.rs): what a reconcile starts and    *)
(* stops, the task that brings a child up and the one that watches it, and *)
(* the registry the runtime keeps of the tools on offer (runtime.rs).      *)
(*                                                                         *)
(* A start is known by its generation, and so are its token, its child and *)
(* its connection: a start spawns one child at most.  A reconcile runs on  *)
(* a thread of its own, goes through one extension after another, and may  *)
(* be overtaken between its statements.  A land and a crash are a step; a  *)
(* task may be overtaken at every await, and between its last look at its  *)
(* token and the start it makes (watch).                                   *)
(*                                                                         *)
(* A version stands for a digest with its settings.  Left out: the text of *)
(* a row, whether a change is announced twice, and in_flight.              *)
(***************************************************************************)
EXTENDS Naturals, FiniteSets

CONSTANTS
  Exts,       \* extension ids
  Sweeps,     \* reconciles that may run at once
  Versions,   \* bytes and settings an extension may be approved and started with
  MaxStarts,  \* bound: starts
  MaxEdits,   \* bound: installs, removals, approvals, settings
  MaxFaults,  \* bound: children that crash or stop reading
  None

Starts == 1 .. MaxStarts

ASSUME HostAssumption ==
  /\ MaxStarts \in Nat /\ MaxEdits \in Nat /\ MaxFaults \in Nat
  /\ {"gone", "off", None} \cap Versions = {}
  /\ None \notin {"gone", "off"}

VARIABLES
  world,     \* ext -> what discover finds: "gone", "off", or the version approved
  row,       \* ext -> its row (Inner.loaded), or None
  starting,  \* ext -> the start in flight (Inner.starting), or 0
  start,     \* generation -> its task, or None before it
  cancelled, \* generations whose own token has fired
  child,     \* generation -> "none", "up", "leaving" (told to stop), "gone"
  hung,      \* connections closed because the child stopped reading (RpcClient.stall)
  halting,   \* children stop took and has not told to leave
  sweep,     \* what a reconcile is at with one extension, or None
  buried,    \* children whose row a reconcile wrote over after it had emptied it
  registry,  \* ext -> the generation whose tools the registry offers, or 0
  closed,    \* stop was called
  edits, faults

rows == <<row, starting, registry>>
vars == <<world, rows, start, cancelled, child, hung, halting, closed, edits, faults,
          sweep, buried>>

-----------------------------------------------------------------------------
(* Shapes *)

\* Where a start's task is.  "respawn" has looked at its token for the last time.
Places == {"spawn", "handshake", "probe", "refused", "surplus", "watch", "stalled",
           "delay", "respawn", "done"}
StartRecord == [ext : Exts, version : Versions, at : Places, respawned : BOOLEAN]

\* child 0 is running None; offers is registration; gen 0 a row that settle wrote.
Row == [state : {"ready", "failed", "off"}, version : Versions \cup {None}, gen : 0 .. MaxStarts,
        child : 0 .. MaxStarts, offers : BOOLEAN, respawned : BOOLEAN]

\* Where a reconcile is with an extension, and what discover said of it.
SweepPlaces == {"look", "stop", "write"}
Sweep == [ext : Exts, want : {"gone", "off"} \cup Versions, at : SweepPlaces]

ASSUME NoneAssumption == None \notin StartRecord \cup Row \cup Sweep

TypeOK ==
  /\ world \in [Exts -> {"gone", "off"} \cup Versions]
  /\ row \in [Exts -> Row \cup {None}]
  /\ starting \in [Exts -> 0 .. MaxStarts]
  /\ start \in [Starts -> StartRecord \cup {None}]
  /\ cancelled \subseteq Starts /\ hung \subseteq Starts /\ halting \subseteq Starts
  /\ child \in [Starts -> {"none", "up", "leaving", "gone"}]
  /\ registry \in [Exts -> 0 .. MaxStarts]
  /\ sweep \in [Sweeps -> Sweep \cup {None}] /\ buried \subseteq Starts
  /\ closed \in BOOLEAN
  /\ edits \in 0 .. MaxEdits /\ faults \in 0 .. MaxFaults

Init ==
  /\ world \in [Exts -> Versions]
  /\ row = [e \in Exts |-> None]
  /\ starting = [e \in Exts |-> 0]
  /\ start = [g \in Starts |-> None]
  /\ cancelled = {} /\ hung = {} /\ halting = {}
  /\ child = [g \in Starts |-> "none"]
  /\ registry = [e \in Exts |-> 0]
  /\ sweep = [s \in Sweeps |-> None] /\ buried = {}
  /\ closed = FALSE
  /\ edits = 0 /\ faults = 0

-----------------------------------------------------------------------------
(* What the handlers are built from *)

Begun   == {g \in Starts : start[g] # None}
\* Slip: a start's token is its own, and no child of the host's.
FiredAlone(g) == g \in cancelled
\* Every start's token is a child of the host's.
Fired(g)  == g \in cancelled \/ closed
At(g, at) == g \in Begun /\ start[g].at = at
Goto(g, at) == start' = [start EXCEPT ![g].at = at]

Told(c, gs) == [g \in Starts |-> IF g \in gs /\ c[g] = "up" THEN "leaving" ELSE c[g]]

\* on_extensions_changed: the tools of every extension that has a row.
Listed(r, e) == IF r[e] = None THEN registry[e] ELSE IF r[e].offers THEN r[e].child ELSE 0
Announce(r)  == registry' = [e \in Exts |-> Listed(r, e)]

\* stop_running takes the start in flight, the bag and the process, and leaves
\* the row.
Taken(e)   == {starting[e]} \cup (IF row[e] = None THEN {} ELSE {row[e].gen})
Running(e) == IF row[e] = None THEN {} ELSE {row[e].child}
Emptied(e) == IF row[e] = None THEN None ELSE [row[e] EXCEPT !.child = 0, !.offers = FALSE]

\* start: the next generation is registered, and what it overtakes is cancelled.
NextStart == Cardinality(Begun) + 1
Register(e, version, respawned, others) ==
  /\ NextStart \in Starts
  /\ start' = [others EXCEPT ![NextStart] =
       [ext |-> e, version |-> version, at |-> "spawn", respawned |-> respawned]]
  /\ starting' = [starting EXCEPT ![e] = NextStart]

-----------------------------------------------------------------------------
(* An operator, and the reconcile that follows *)

Edit(e, what) ==
  /\ edits < MaxEdits /\ edits' = edits + 1
  /\ what # world[e]
  /\ world' = [world EXCEPT ![e] = what]
  /\ UNCHANGED <<rows, start, cancelled, child, hung, halting, closed, faults, sweep, buried>>

SweepAt(s, at) == sweep[s] # None /\ sweep[s].at = at
SweepTo(s, at) == sweep' = [sweep EXCEPT ![s].at = at]
SweepEnds(s)   == sweep' = [sweep EXCEPT ![s] = None]
Sweeping == UNCHANGED <<world, hung, halting, closed, edits, faults>>
RowsStay == UNCHANGED <<rows, start, cancelled, child, buried>>

\* reconcile looks once whether the host was stopped, and discovers what there is.
Enter(s, e) ==
  /\ ~closed /\ sweep[s] = None
  /\ sweep' = [sweep EXCEPT ![s] = [ext |-> e, want |-> world[e], at |-> "look"]]
  /\ RowsStay /\ Sweeping

\* is_current: as it should be, or on its way there.
IsCurrent(e, version) ==
  \/ starting[e] # 0 /\ ~Fired(starting[e]) /\ start[starting[e]].version = version
  \/ /\ row[e] # None /\ row[e].state = "ready" /\ row[e].version = version
     /\ row[e].child # 0 /\ child[row[e].child] # "gone"

\* Nothing to do: an extension that is not installed is looked for among the rows
\* alone, and one that is to run may be current.
Settled(e, want) ==
  \/ want = "gone" /\ row[e] = None
  \/ want \in Versions /\ IsCurrent(e, want)
Look(s) ==
  /\ SweepAt(s, "look")
  /\ IF Settled(sweep[s].ext, sweep[s].want) THEN SweepEnds(s) ELSE SweepTo(s, "stop")
  /\ RowsStay /\ Sweeping

StopRunning(s) ==
  LET e == sweep[s].ext IN
  /\ SweepAt(s, "stop")
  /\ cancelled' = cancelled \cup (Taken(e) \cap Starts)
  /\ child' = Told(child, Running(e))
  /\ row' = [row EXCEPT ![e] = Emptied(e)]
  /\ starting' = [starting EXCEPT ![e] = 0]
  /\ SweepTo(s, "write")
  /\ UNCHANGED <<start, registry, buried>> /\ Sweeping

\* Disabled, or not approved, or not for this host: settle writes a row that runs
\* nothing, and retire none.  Either writes over what landed since stop_running.
Off == [state |-> "off", version |-> None, gen |-> 0, child |-> 0, offers |-> FALSE, respawned |-> FALSE]
Unwanted == [want \in {"gone", "off"} |-> IF want = "gone" THEN None ELSE Off]
WriteRow(s) ==
  LET e == sweep[s].ext
      want == sweep[s].want IN
  /\ SweepAt(s, "write") /\ want \in {"gone", "off"}
  /\ row' = [row EXCEPT ![e] = Unwanted[want]]
  /\ buried' = buried \cup (Running(e) \cap Starts)
  /\ Announce(row')
  /\ SweepEnds(s)
  /\ UNCHANGED <<starting, start, cancelled, child>> /\ Sweeping

Renew(s) ==
  LET e == sweep[s].ext IN
  /\ SweepAt(s, "write") /\ sweep[s].want \in Versions
  /\ Register(e, sweep[s].want, FALSE, start)
  /\ cancelled' = cancelled \cup ({starting[e]} \cap Starts)
  /\ Announce(row)
  /\ SweepEnds(s)
  /\ UNCHANGED <<row, child, buried>> /\ Sweeping

Reconcile(s) ==
  \/ Look(s) \/ StopRunning(s) \/ WriteRow(s) \/ Renew(s)
  \/ \E e \in Exts : Enter(s, e)

-----------------------------------------------------------------------------
(* Bringing a child up *)

\* land: only the start registered may write the row, and not once cancelled.
MayLand(g) == starting[start[g].ext] = g /\ ~Fired(g)
Land(g, state, held, next) ==
  LET e == start[g].ext IN
  /\ MayLand(g)
  /\ starting' = [starting EXCEPT ![e] = 0]
  /\ row' = [row EXCEPT ![e] =
       [state |-> state, version |-> start[g].version, gen |-> g, child |-> held,
        offers |-> held # 0, respawned |-> start[g].respawned]]
  /\ cancelled' = IF row[e] = None THEN cancelled ELSE cancelled \cup ({row[e].gen} \cap Starts)
  /\ child' = Told(child, Running(e))
  /\ Announce(row')
  /\ Goto(g, next)

Task == UNCHANGED <<world, hung, halting, closed, edits, faults, sweep, buried>>
Quiet == UNCHANGED <<rows, cancelled>>

Spawn(g) ==
  /\ At(g, "spawn")
  /\ child' = [child EXCEPT ![g] = "up"]
  /\ Goto(g, "handshake")
  /\ Quiet /\ Task

\* The failed row, when the program could not be run at all or has been stopped
\* after a handshake that came to nothing.
Failed(g) ==
  /\ At(g, "spawn") \/ (At(g, "refused") /\ child[g] = "gone")
  /\ \/ Land(g, "failed", 0, "done")
     \/ ~MayLand(g) /\ Goto(g, "done") /\ Quiet /\ UNCHANGED child
  /\ Task

\* A handshake is answered by a child that is there; it is refused by one that is
\* not, that does not care to, or that is out of time.
Handshake(g) ==
  /\ At(g, "handshake")
  /\ \/ child[g] = "up" /\ g \notin hung /\ Goto(g, "probe") /\ UNCHANGED child
     \/ Goto(g, "refused") /\ child' = Told(child, {g})
  /\ Quiet /\ Task

\* Slip: a start that lost its row forgets the child it made.
ProbeLetGo(g) ==
  /\ At(g, "probe")
  /\ \/ Land(g, "ready", g, "watch")
     \/ ~MayLand(g) /\ Goto(g, "surplus") /\ UNCHANGED child /\ Quiet
  /\ Task

\* The probe's requests end, answered or not; what was asked is a warning on the
\* row.  A start that may not land any more takes its child with it.
Probe(g) ==
  /\ At(g, "probe")
  /\ \/ Land(g, "ready", g, "watch")
     \/ ~MayLand(g) /\ Goto(g, "surplus") /\ child' = Told(child, {g}) /\ Quiet
  /\ Task

Dismissed(g) ==
  /\ At(g, "surplus") /\ child[g] = "gone"
  /\ Goto(g, "done")
  /\ Quiet /\ UNCHANGED child /\ Task

-----------------------------------------------------------------------------
(* Watching it *)

\* A retired start's watcher looks no further.
Unwatch(g) ==
  /\ At(g, "watch") \/ At(g, "delay") \/ (At(g, "stalled") /\ child[g] = "gone")
  /\ Fired(g)
  /\ Goto(g, "done")
  /\ Quiet /\ UNCHANGED child /\ Task

\* A child that stopped reading is alive and answers nothing: it is stopped here.
Stalled(g) ==
  /\ At(g, "watch") /\ g \in hung
  /\ Goto(g, "stalled") /\ child' = Told(child, {g})
  /\ Quiet /\ Task

\* The process has ended: its row loses the bag, and a first time is followed by
\* one start.
Mine(g) == row[start[g].ext] # None /\ row[start[g].ext].gen = g
\* Slip: the row turns failed and keeps what it had.
CrashedHolding(g) == [row[start[g].ext] EXCEPT !.state = "failed", !.respawned = TRUE]
Crashed(g) == [row[start[g].ext] EXCEPT !.state = "failed", !.child = 0, !.offers = FALSE, !.respawned = TRUE]
Ended(g) ==
  /\ At(g, "watch") \/ At(g, "stalled")
  /\ child[g] = "gone" /\ ~Fired(g)
  /\ IF Mine(g)
     THEN /\ row' = [row EXCEPT ![start[g].ext] = Crashed(g)]
          /\ Announce(row')
          /\ Goto(g, IF row[start[g].ext].respawned THEN "done" ELSE "delay")
     ELSE Goto(g, "done") /\ UNCHANGED <<row, registry>>
  /\ UNCHANGED <<starting, cancelled, child>> /\ Task

\* After respawn_delay.
Waited(g) ==
  /\ At(g, "delay") /\ ~Fired(g)
  /\ Goto(g, "respawn")
  /\ Quiet /\ UNCHANGED child /\ Task

Respawn(g) ==
  LET e == start[g].ext IN
  /\ At(g, "respawn")
  /\ Register(e, start[g].version, TRUE, [start EXCEPT ![g].at = "done"])
  /\ cancelled' = cancelled \cup ({starting[e]} \cap Starts)
  /\ UNCHANGED <<row, registry, child>> /\ Task

-----------------------------------------------------------------------------
(* The children, and the end *)

Still == UNCHANGED <<world, rows, start, cancelled, closed, edits, sweep, buried>>

Crash(g) ==
  /\ child[g] = "up"
  /\ faults < MaxFaults /\ faults' = faults + 1
  /\ child' = [child EXCEPT ![g] = "gone"]
  /\ Still /\ UNCHANGED <<hung, halting>>

\* stalled_on: a line found no room within the write timeout.
Hang(g) ==
  /\ child[g] = "up" /\ g \notin hung /\ start[g].at \in {"handshake", "probe", "watch"}
  /\ faults < MaxFaults /\ faults' = faults + 1
  /\ hung' = hung \cup {g}
  /\ Still /\ UNCHANGED <<child, halting>>

\* process.stop: a closed stdin, a signal, another.
Leave(g) ==
  /\ child[g] = "leaving"
  /\ child' = [child EXCEPT ![g] = "gone"]
  /\ Still /\ UNCHANGED <<hung, halting, faults>>

Stop ==
  /\ ~closed /\ closed' = TRUE
  /\ halting' = (UNION {Running(e) : e \in Exts}) \cap Starts
  /\ cancelled' = cancelled \cup ((UNION {Taken(e) : e \in Exts}) \cap Starts)
  /\ row' = [e \in Exts |-> None]
  /\ starting' = [e \in Exts |-> 0]
  /\ UNCHANGED <<world, start, child, hung, registry, edits, faults, sweep, buried>>

\* stop asks one child after another.
Halt(g) ==
  /\ g \in halting
  /\ halting' = halting \ {g}
  /\ child' = Told(child, {g})
  /\ Still /\ UNCHANGED <<hung, faults>>

-----------------------------------------------------------------------------

Bring(g) == Spawn(g) \/ Failed(g) \/ Handshake(g) \/ Probe(g) \/ Dismissed(g)
Watch(g) == Unwatch(g) \/ Stalled(g) \/ Ended(g) \/ Waited(g) \/ Respawn(g)

Next ==
  \/ \E s \in Sweeps : Reconcile(s)
  \/ \E e \in Exts, w \in {"gone", "off"} \cup Versions : Edit(e, w)
  \/ \E g \in Starts : Bring(g) \/ Watch(g) \/ Crash(g) \/ Hang(g) \/ Leave(g) \/ Halt(g)
  \/ Stop

Spec == Init /\ [][Next]_vars

\* A start is one task, and every wait of it ends: the handshake and each probe are
\* timed, and a watcher's delay passes.  A child that is told to stop is killed in
\* the end, and stop goes on to the next.
FairSpec ==
  /\ Spec
  /\ \A g \in Starts : WF_vars(Bring(g) \/ Watch(g)) /\ WF_vars(Leave(g))
  /\ WF_vars(\E g \in Starts : Halt(g))

-----------------------------------------------------------------------------

\* Every child that runs is held by a row, in the hands of the task that brings it
\* up, or about to be told to leave: whatever overtakes a start, none is left
\* running with nobody to stop it (land, stop_running).  Buried children are left out:
\* such a child came up between two statements of a reconcile.
NoChildForgotten ==
  \A g \in Starts : child[g] = "up" =>
    \/ \E e \in Exts : row[e] # None /\ row[e].child = g
    \/ start[g].at \in {"handshake", "probe"}
    \/ g \in halting
    \/ g \in buried

\* A child that has gone does not stay on its row for good, whichever start, reconcile
\* or stop the row has seen since: no turn is offered its tools for ever (watch).
DeadToolsGo ==
  \A e \in Exts :
    []<>(row[e] # None /\ row[e].child # 0 => child[row[e].child] # "gone")

\* "Every start and every running extension holds a child of it, so a stop reaches
\* all of them" (host.rs, closed): after a stop no child stays and none lands, the
\* start a watcher was about to make included, and the one of a reconcile that had
\* looked before the stop.
StopReachesAll ==
  (<>closed) => <>[](\A g \in Starts \ buried : child[g] \in {"none", "gone"})

\* "a turn starting in the meantime must not be offered a tool whose process is
\* being killed" (stop_running): once no reconcile is under way, what the registry
\* offers is a running extension's.
OfferedIsRunning ==
  ~closed /\ (\A s \in Sweeps : sweep[s] = None) =>
    \A e \in Exts : registry[e] # 0 => row[e] # None /\ row[e].child = registry[e]
=============================================================================
