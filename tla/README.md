# Darkwire, specified

TLA+ models of the parts of [darkwire](../src/README.md) whose difficulty is
order: who may run a turn and when, what a reconnecting page is shown, who may
answer for a tool call, what a turn leaves in the history, when a scheduled job
runs, which container, extension process or server connection is in use and which
is gone. TLC checks them on small instances. TLAPS proves the main safety
properties of the hub, the replay ring, the gate, the agent loop, the scheduler, the
container pool, the extension host and the MCP connections for every instance, and
that the pool implements an abstract specification.

    tlc -workers 2 -config HubTurns.cfg MCSessionHub   # a run
    tlapm SessionHubProofs.tla                         # the proofs

Paths below are under `src/`. `crates/` is the Rust workspace, `packages/` the
TypeScript one.

## 1. The system

A server process serves any number of clients (web pages, a terminal client, a
Telegram bridge) over WebSockets. A client sends messages to a **session**; the
hub queues them and runs one **turn** at a time per session; a turn is a loop of
model calls and tool calls, and its events are streamed to every client attached
to the session. Some tools ask first, some run in containers, some are left
running in the background and post a result later; a scheduler starts turns
nobody is watching.

| component | state it keeps | operations | talks to |
|---|---|---|---|
| Session hub `crates/server/src/hub.rs`, `agent/src/steering.rs` | per session: queue, running turn, acked ids, rewind claim, clients; per process: closed | connect, submit, steer, edit, regenerate, compact, stop, post a result, evict, close | agent loop (starts turns, steering queue), gate, clients |
| Replay and live transcript `server/src/replay.rs`, `turn_log.rs`, `packages/web/src/state` | ring of recent frames, log of the open turn, sequence number; the page's cursor and frames | emit, resume, greet, evict; apply, ask for stored rows | hub (under its lock), session store |
| Approval gate `server/src/approvals.rs`, `agent/src/dispatch.rs` | parked calls, answers remembered for a session | park, resolve, forget, clear; authorize, decide | hub (frames, broadcast, eviction), agent loop |
| Agent loop `crates/agent` | one turn: iterations, caps, history, steering | run_turn, stream, dispatch tools | providers, tools, gate, session store |
| Scheduler `server/src/scheduler.rs` | jobs, claims, next-run times (on disk) | tick, run one now, settle, restart, stop | hub, automation store |
| Background commands `server/src/background.rs` | a board of commands per session | start, finish, kill, forget | hub (posts), container pool |
| Container pool `crates/environment` | containers, busy counts, locks per key | ensure, run, reap, stop, rebuild | Docker |
| MCP connections `crates/mcp` | per server: session, generation, attempt, watcher, timer | reconcile, dial, adopt, refresh, fail, arm, close | tool registry |
| Extension host `crates/extension-host`, `runtime/src/runtime.rs` | per extension: row, start in flight, child; pending requests by id | reconcile, start, land, watch, retire, stop | extension processes, tool registry |
| Channels, message bus `crates/channels`, `core/src/message_bus.rs` | bounded queues, delivery state | publish, deliver, close | hub |
| Session store, history `crates/core`, `agent/src/history_window.rs` | transcript on disk | append, rewrite, window | agent loop, hub |
| Login throttle, rate limits `server/src/login_throttle.rs`, `rate_limit.rs` | failures per address, buckets | delay, record, prune | routes |
| Provider resilience `crates/providers` | one request's retries | retry, degrade, stream | agent loop |
| Routes, protocol types, utilities, security policy, tools, runtime caches, terminal client, translations | settings, files, user interface | — | all of the above |

`PROJECT.json` lists every component with its status, and under `hazards` what
in this code is hard to test, at its line.

### Where it is hard

*One lock, many awaits.* All sessions of the hub are behind one mutex, and every
handler takes it several times with awaits in between. What was true at the first
taking may be false at the next: a session looked at before an eviction, a turn
that ends after the hub is closed, an edit that claims a session while a message
is on its way into its queue.

*Two queues for one message.* A steer goes to the steering queue of the turn that
runs, under another lock; the turn may have read that queue for the last time.

*At-least-once delivery.* A client resends what was not acknowledged, on another
connection perhaps, to a session that may have been summarised into another one.

*Three records of one turn.* The ring, the turn log and the rows on disk hold
overlapping parts of the same events, and a page must put them together without a
gap and without a repetition, over a socket that can fail at any frame.

*Questions with two ends.* A parked call is waiting in the gate and in the loop,
with a deadline and a cancellation on each side, and is listed on every tab.

*Processes that outlive the decision to have them.* Containers, extension children
and sessions of MCP servers take seconds to come up and to go. What asked for them
may have been edited, revoked, retired or closed meanwhile, and two tasks may bring
up the same one.

*A history that is always legal.* Calls land in any order, some are refused, a turn
is stopped, fails to write or dies; what is on disk must be acceptable to a provider
at the next turn, and so must every window cut out of it.

### What makes each part correct

* **Hub**: at most one turn of a session, and none while its history is being
  rewritten; every claim is released; a queue with messages has somebody who will
  drain it; an accepted message is kept, run once and run eventually.
* **Replay**: what frames did not bring a page at rest it knows to ask storage for,
  and no frame brings it a thing twice.
* **Gate**: a prompt has a caller and a waiting caller a prompt; an answer reaches
  the conversation it was given in; an answer for the session is not asked for
  again; every tab's list is right or about to be.
* **Agent loop**: every tool call recorded has a result recorded; a stop
  ends in a history the next turn can start from; the window is a suffix that does
  not begin in the middle of a call.
* **Scheduler**: a job never overlaps itself and a one-shot is started once; what
  a crash leaves is closed and no crash unschedules a job; what is due is served.
* **Container pool**: no more than the cap run, no container is forgotten, every
  command ends, what was revoked goes.
* **Extensions**: no child without somebody to stop it; a dead child's tools go; a
  stop reaches every child.
* **MCP**: a connection that failed has its next dial coming; no session open and
  unheld; a server that went away comes back.

## 2. The plan

1. **SessionHub**, **Replay**, **ApprovalGate** — modelled, checked, safety proved.
2. **Scheduler** — modelled, checked, its five state invariants proved. Left: the
   abstract specification it should implement, a job that is due, taken once and
   moved on, of which the stale copies and the table's separate statements are the
   detail.
3. **ContainerPool** — modelled, checked, safety proved, and shown to implement
   **Places**.
4. **AgentLoop** with the session store and the history window — modelled, checked,
   its five state invariants proved. Left: its place as a refinement of the turn task
   of SessionHub.
5. **ExtensionHost** and **McpConnection** — modelled, checked, safety proved.
6. Not begun: the calls of the extension RPC, background commands, channels.

Abstract specifications worth stating: for the hub, a set of messages, each
accepted, then run once or withdrawn, with one running at a time per session, which
SessionHub implements for as long as no eviction or summary forgets an id; for the
gate, a register per call, written once. Compositions: AgentLoop with the steering
half of SessionHub; AgentLoop with ApprovalGate's `decide`.

## 3. The modules

| module | what it is |
|---|---|
| `SessionHub` | the hub: sessions, queues, connections, turn and summary tasks |
| `SessionHubProofs` | its inductive invariant and eleven theorems from it |
| `Replay` | one session's events and the pages that follow it |
| `ReplayProofs` | its inductive invariant and six theorems: no gap unnoticed, nothing told twice |
| `ApprovalGate` | the gate, the loop's question and the tabs that answer |
| `ApprovalGateProofs` | its inductive invariant and seven theorems from it |
| `Scheduler` | the timer, its table of jobs and runs, and what reaches both from outside |
| `SchedulerProofs` | its inductive invariant and six theorems from it |
| `ContainerPool` | the pool's map, its locks, and the commands, sweeps and operators that use it |
| `Places` | what the pool promises of its places: warm, coming, within the cap |
| `ContainerPoolProofs` | its inductive invariant, and the refinement of `Places` |
| `AgentLoop` | one session's turns: iterations, batches of calls, steering, windows, rows |
| `AgentLoopProofs` | its inductive invariant and six theorems from it |
| `ExtensionHost` | starts, children, watchers, and the registry's tools of an extension |
| `ExtensionHostProofs` | its inductive invariant and three theorems from it |
| `McpConnection` | one MCP server: dials, the session, failures, the timer, the close |
| `McpConnectionProofs` | its inductive invariant and four theorems from it |
| `MCSessionHub`, `MCReplay`, `MCApprovalGate`, `MCScheduler`, `MCAgentLoop` | instances for TLC |

In each module, an operator just before an action that nothing in the model uses
(`IdleButClaimed` before `Idle`, `FailLetsGo` before `Fail`) is that
definition with one plausible slip in it. Putting the slip in the definition's
place makes the named property fail, which shows that the property depends on the
line; `PROJECT.json` pairs them under `mutants`.

### SessionHub

A region under the hub's lock is one action; everything else interleaves. A
connection's task handles its frames one at a time, so `conn[c].at` says which
region is next: `check` (ask whether to summarise first), `push`, `cut` (the
history is being truncated), `rerun`, `release`, `drain`. A turn task is
`opening`, in its `loop`, or about to `settle`; a summary is `claimed`, `asking`
the model or `moving` the clients.

| code | actions |
|---|---|
| `connect`, `leave` and the last frame's end, `session.new` / `session.resume` | `Connect`, `Leave`, `Disconnect`, `Switch` |
| `submit`, `push_turn`, `drain` | `Submit`, `Check`, `Push`, `DrainStep` |
| `steer` | `Steer` |
| `edit` and `regenerate`: `begin_rewind`, the store, `rerun`, `end_rewind` | `Rewind`, `Cut`, `Rerun`, `Release` |
| `compact`, `compact_claimed`, `move_clients` | `Compact`, `SummaryGivesUp`, `SummaryFails`, `SummaryMoves`, `MoveClient`, `SummaryEnds` |
| `stop_turn` | `StopRunning`, `StopQueued` |
| `run_turn` and the loop's use of the steering queue | `OpenTurn`, `ReadSteer`, `EndLoop`, `Settle` |
| `post_turn`, `evict`, `close` | `Post`, `Evict`, `Close` |

Simplifications. Which idle session is evicted is free: the order of last use is
not modelled, only the conditions that make a session evictable. `draining` is a
set, since a second drain of the same session finds what the first left. A
connection nobody watches (a scheduled run) sends one message and may withdraw
only its own. The list of acknowledged ids is cut to 64 in the code; no run has so
many, so a cut appears only as an eviction. A client resends under the key it
first used, as the web client does. With `"overlap"` in `Inputs` a message may be
sent a second time while the first copy is still on its way into the queue: no
client in the repository does so while its connection is alive, and the passing
runs leave it out.

### Replay

A piece `<<t, i>>` is the i-th thing turn `t` said, `<<t, 0>>` its ending. The
ring (bounded by frames and by bytes), the log (which gives up a turn that is too
long), the sequence number and the clients are the server's half, changed by
`Emit` whole as the code does under the lock: append, log, send, and drop a socket
that is too far behind. The page's half is its cursor, what frames
brought it and what it asked storage for. `Connect` is the socket's opening with its
greeting; `Resume` is the handler; `ApplyEvent`, `ApplyConnected` and
`ApplyReplay` are the page's reducers.

Storage is left outside. The rows of a turn go in step by step while it runs, and a
page's request for them is in flight while frames arrive; it may fail and be dropped
(`mergeStoredHistory` does not retry), be folded into one already in flight, or bring
rows whose frames are still to come. The module speaks of none of that. Of storage it
has `stored`, the turns whose last row is written, and of a page's requests `sought`,
the turns that were whole in storage when it last asked: after a replay that was not
complete, and at the end of a turn it had not seen start (`refillJoinedTurn`). The
properties are about what frames brought (`held`) and what the page asked for, not
about what is on the screen.

`earned`, `torn`, `owing`, `patchy`, `lost` and `epoch` are histories the code
does not keep. The properties use them to say which of the two known gaps (section
6) a page has fallen into, and nothing in the model's guards reads them.
A page that moves between sessions is not modelled; a page that reloads is, as
another page.

### ApprovalGate

`stage` follows `authorize`, then `decide`, for each call: announced, parked,
leaving, done. `Park` is the region of `park` under its lock, with the denial of
the entry it supersedes. `reply` is what the call's one-shot channel holds.
`Decide` takes any arm of `decide`'s select that is ready, as an unbiased select
may; `Leave` is the entry's removal on drop. `Take`, `Remember` and `Settle` are
the three steps of `resolve`, each under a lock of its own or none. A frame in an
inbox carries the conversation its tab was on when it was sent (`from`): the code
has no such field, and the properties are about what stands in for it. `page` is where
a page is, `at` where the hub has its connection. Two things change `at`: a switch
frame that is handled (`MoveTo`), and a summary. `Summarise` is the locked part of
`compact_claimed` that lists who is in the conversation, and `Carry` one turn of the
loop after it, which moves one of them wherever it is by then. The page follows when
it has read `session.compacted`, with a switch of its own (`SendSwitch`); until that is
handled the connection is in `carried`, a ghost, and `FramesFollowTheirTab` does not
speak of it.

A conversation has one prompt at a time (`MayAsk`): its turn is alone, which is
`TurnHoldsItsSession` of SessionHub, and the loop asks for one call before the
next. The deadlines of the gate and of the loop are one flag, since they are set
from the same value and either may be seen first. Which calls need an answer, exec
rules and the notification when nobody is attached are left out. `owed` stands for
any number of broadcast tasks, each of which sends the list as it is then.

### Scheduler

The table (`job`, `pending`) outlives the process; everything else goes with it. A
statement on the table takes its lock alone and is an action; what was read is kept
as a copy (`Read`), in `todo` for the loop, in `asking` for "run now", in the run's
task until it settles. `run[r].at` follows a dispatch and its task: `claimed`,
`rowed`, `turn`, `settle`, `leave`. `loop` says where the thread of the wait loop
is, the boot's `start` included, since the loop is spawned when `start` returns.

| code | actions |
|---|---|
| `claim`, `dispatch` | `StartNext` or `RunNow`, then `WriteRow` or `RowRefused`, then `Launch` |
| `execute`, `settle`, the end of the spawned task | `Finish`, `Settle`, `Leave` |
| `start`, `reconcile_pending`, `catch_up` | `Start`, `Reconcile`, `Sweep`, `Miss`, `MissClose`, `MissUnschedule`, `StartNext` |
| `run`, `next_delay_ms`, `tick`, `due_jobs` | `Look`, `Woken`, `SleepEnds`, `CountRoom`, `ReadDue`, `StartNext`, `PassEnds`, `Retry` |
| `run_now` | `AskRun`, `RunNow` |
| `routes/automation.rs` `update`, then `update_job`; `delete`; `refresh_now` | `AskEdit`, `Edit`; `Delete` |
| `serve.rs`, a crash | `Boot`, `Start`, `Stop`, `Halt` |

Simplifications. The clock is the unit of the instance's intervals, and a cron
expression is an interval: what it computes is a function of the instant, and the
recomputation after a change of time zone is left out. The scheduler is enabled in
settings. Whether a boot catches up is chosen at each boot. A turn ends when it
likes, so `stop`'s cancellation needs no step. The wait of a tick that started
nothing may end at once. Jobs with equal times are taken in any order. Errors of the
table other than a missing job are left out, and so are edits that move neither the
schedule nor the switch, which leave the time alone. An update reads the job, works the
time out from what it was given and what the job had, and writes both in a later
statement; runs and other updates come between. `stale` (edited while a run, the loop or
another update held an older copy, or written beside a schedule the time was not worked
out for) and `drove` (turns the timer gave a one-shot) are histories for the
properties; no guard reads them.

### ContainerPool

The map is behind a lock no await is under, so each section of it is an action, and
`proc[p].at` says which section of its handler a process is before. The lock
`starting` is held over a start. The daemon's account (`up`) is apart from the map:
a container may be gone and still be in the map, and the map may have let go of one
the daemon still runs. A drop is a loop over the places it was told to empty.

| code | actions |
|---|---|
| `resolve_turn` | `Resolve`, `Resolved`, `Mint` |
| `Facade::run`, `run_on` | `Check`, `Run`, `Exit`, `Rebuild` |
| `ensure`, `start` | `Ensure`, `Lock`, `Room`, `Start`, `StartFails`, `Insert` |
| `drop_entry` | `Drop`, `Stop` |
| `maintain`, `reap_idle`, `close` | `Sweep`, `SweepInvalid`, `Close` |
| `warm`, `stop_instance`, `restart_instance` | `Warm`, `Ask`, `Halt`, `Halted` |

All places have the same environment. Time is a flag on an entry: idle for long
enough, or not.

### AgentLoop

`turn.at` is where the turn's task is between two awaits. A request notes the part of
the history it would send (`sent`, `asked`), which a stop may still keep from being
sent; an answer notes how much the model has heard of (`heard`). The opening append may
fail, or land and the naming of the session fail after it. A batch is run in groups:
neighbours that may run side by side are in flight together and land in any order. The
store is a sequence of rows, written whole or not at all. Messages, tools and rows are
model values with the fields the code branches on; a row costs one unit of the budget.

| code | actions |
|---|---|
| `run`, `open_turn`, `run_turn` | `Start`, `Open`, `Top`, `Close` |
| `drain_steering`, `steering.rs` | `Drain`, `Pop`, `Steer`, `CloseQueue` |
| `build_request`, `token_window_start`, `history_window_start` | `Request` |
| `stream_once`, `one_iteration`, `split_cut_calls`, `finish_answer` | `Reply`, `StreamStops`, `Finish` |
| `dispatch`, `authorize`, `run_parallel`, `refuse_rest` | `Dispatch`, `Decide`, `Land`, `RefuseRest`, `DelegationFails` |
| `append_many`, `truncate_after` | `WriteStep`, `Rewind` |

### ExtensionHost

A start is known by its generation, which also names its token, its child and its
connection. `reconcile` runs on a thread of its own: it looks once whether the host was
stopped and discovers what is installed (`Enter`), and then, for each extension, looks
whether there is anything to do, empties the row and writes one or starts (`Look`,
`StopRunning`, `WriteRow`, `Renew`), and anything may happen in between, a stop or
another reconcile (`Sweeps`) included. A child that lands between the last two is
written over, with nobody to stop it: `buried` is a history of such children, which no
guard reads. `land` and the crash each run under one lock and are a step, with the
announcement that follows; a task may be overtaken at every await, and between a
watcher's last look at its token and the start it makes. `registry` is the runtime's
half: after each announcement `apply_extension_tools` replaces the tools of the
extensions that have a row. A version stands for the bytes and settings an extension was
approved with.

### McpConnection

Generations name dials, sessions, tokens and watchers. Each section under a
connection's lock is a step; so is each publish, which follows its section, and each
look at the generation, which precedes one. An abort takes a task at its next await.
The timer passes whenever it likes, since the jitter may sample zero: a dial may begin
while another task of its connection is between two awaits, past its look at the
generation. `overtaken` is a history of that, which no guard reads. `NeverStranded`
holds all the same; `NoSessionForgotten` and `ComesBack` speak of connections where it
did not happen, because where it did they fail: TLC finds a session left open by a
second dial, a refused authorization overwritten by an older list (ready, with nobody
to act), and two failures that cancel each other's dials for as long as timers pass at
once. A timer that `arm` aborts while it wakes up is taken for one that never passed.

## 4. The runs

| run | instance | states | what it shows |
|---|---|---|---|
| HubTurns | two clients, two messages, a steer, a posted result, one session; edits and stops | 202 152 | turns, rewinds and the steering queue do not meet; a rerun is next; nothing accepted is dropped or stranded; the depth holds |
| HubSummary | one client, one message, a steer, two keys; summaries, edits, switches; fairness | 338 506 | a claim has one holder; what queues behind a summary is moved or drained; what is accepted is run or read |
| HubShutdown | a client and an unattended run, two slots; stops, leaving, eviction, close | 1 190 948 | one turn; the marker follows its turn; a resent message runs once while it is remembered |
| ReplayWhole | one page and any number of reloads of it, two turns, eviction and restart | 599 231 | what frames did not bring a page it has asked storage for; no frame brings a piece again; `covers` is exact |
| GateAnswers | two calls of one conversation with the same id and key, one tab, two frames in flight, one summary | 1 834 054 | prompts have callers and callers prompts; an answer for the session holds; lists catch up; frames follow their tab |
| SchedJobs | a recurring job and a one-shot that deletes itself, one slot, two users who run and edit, two outside events; fairness | 778 825 | no overlap; rows are closed; next times fit where no older copy was written; a one-shot once; the limit holds; what is due is served |
| PoolPlaces | three places, room for two; a command, an operator, the sweep; two digests, one event; fairness | 158 412 | the map implements `Places`; no container is forgotten; busy counts are given back; commands end; what was revoked or edited is dropped |
| LoopTurns | two messages, two iterations, batches of two reads and of a delegation and a write, one failed write, crash or rewind; fairness | 469 864 | history and requests are legal; no message is lost or doubled; figures add up; a turn that ends of itself has had an answer to its steers; a stopped turn ends |
| ExtStarts | one extension, two versions, three starts, an edit, a fault, one reconcile at a time; fairness | 362 317 | no child but a buried one is forgotten; a dead child's tools go; a stop reaches every child that is not buried |
| McpServer | one connection, three dials, two edits, two faults; fairness | 303 494 | no connection is stranded; where no dial overtook a task, the connection comes back |
| HubMoved, ExtRemoved | smallest instance that has the case | — | section 6: each fails |

*Bounds.* A race needs two actors: two clients of one session, or a client and a task.
`MaxQueueDepth` is 2 so that the bound is met with the messages there are. Two slots let
a turn that is settling overlap its successor; where no session can be closed under its
turn, one slot is enough. The ring of Replay holds three frames and a turn emits four,
so a turn is overrun within itself; the log overruns on the second turn and not on the
first; a socket holds seven units, less than a replay and a turn together. The gate's
two calls share an id and a key, so that a late answer and a remembered one both meet a
call they were not given for; two frames in an inbox are a switch and the answer behind
it. The one answer a tab gives is a refusal for the session: what follows from an answer
does not depend on the verdict, and one for the session is one for this call that is
remembered besides. `runs` stops at 2: the second run is the violation. `MaxForgets` 1
separates two counts of one session.

The scheduler's clock stops at 2: an interval of 1 makes the recurring job due
twice, with a run of it still going at the second time, and the one-shot due at 1
is due while it is. One slot makes the two jobs compete, and `run now` goes over
it. Two outside events (edits, deletes, runs on demand, ends of the process) are an
edit under a run on demand, a crash in the boot after a crash, or a delete between
a read and its claim. Three places for runs are never all needed at once by more
than there are runs to start: with four the states are the same.

PoolPlaces has one place more than there is room for, so that a start evicts while
another place is warm, and one event, since the interleaving of a command, an operator
and a sweep is what the pool is about. With two digests the event may revoke the
definition or move it to another. LoopTurns has a limit of rows (`Cap`) below what two
turns write, and a lower budget, so that both cuts of a window happen and the one falls
inside what the other left; each iteration cap is reached. ExtStarts has a start in
flight, one that replaces it and a respawn, with a crash of one of them. McpServer has
two failures of one session that are judged at once, or one under the dial that follows,
and a dial for each.

*Symmetry* is used in the safety runs only: no action or invariant names a
message, slot, connection or call. GateAnswers permutes its two calls, which have
the same conversation, id and key.

*Deadlock* is checked in the hub's runs: there is always a frame or an event to
come. In the others the instance ends (turns are bounded, calls are decided once),
and the check is off.

*Fairness* (`HubSummary`). Each handler, turn and summary task is weakly fair: the
runtime polls a task that is ready, and no task's next region, once it is ready, can be
made unready for ever by others without its doing. The client is not assumed to do
anything. A turn is assumed to end, because the loop is bounded by its caps, and a
summary is assumed to fail or be answered, because its request has a deadline. A tool
call with no time limit, which is the default, may keep a turn for ever, and
`AcceptedRuns` then speaks of nothing behind it: it assumes that a call comes back, or
that somebody stops the turn. No strong fairness is needed there. `SchedJobs` assumes
weak fairness of the wait loop, a task with timers that the runtime polls, and of each
run, whose turn has a time limit; not of the clock, of the callers, or of the process,
which may stay down: `DueIsServed` speaks of a process that is up. `PoolPlaces` assumes
it of every process of the pool and of the sweep, whose interval passes (that a command
in a container exits is assumed: `exec.timeout_ms` is 0 by default, which is no limit),
and strong fairness of taking the start lock and of `Halt`, which contends for the same
lock: the lock is tokio's, which hands it on in the order it was asked for. `LoopTurns`
assumes weak fairness of what the turn's task does by itself (`OwnStep`), and of the hub
that takes back what is left of the steering queue. What the turn waits for, a stream, a
prompt, a tool, a delegation (`AwaitedStep`), is owed only once the turn was stopped: a
tool and a delegation have no time limit by default, a prompt's can be switched off, and
a stream only has to keep talking; but each of these waits is `select!`ed against the
token. So `StoppedTurnEnds` is what the code promises, and it is not assumed that
anybody stops a turn. Store calls are assumed to return. `ExtStarts` assumes that
handshakes and probes end (they are timed), that a child told to leave goes (it is
killed in the end), and that a delay passes; not that a child crashes. `McpServer`
assumes that dials and lists end (they are timed), that a timer passes and a spawned
task runs; not that a server answers well: what goes wrong is bounded by `MaxFaults`,
and `ComesBack` speaks of what follows, where no dial overtook a task.

## 5. The proofs

**Hub.** No property of the hub is inductive alone. `HubInv` is the conjunction of
the type invariant and

* `NoTurnUnderClaim`: a claimed session has no turn running. `begin_rewind` looks
  for a turn, `drain` for a claim; neither is enough without the other.
* `OneTurn`: marker and task name each other, both ways. A turn that was cancelled
  by a close may have lost its marker to a successor, which is why `Settle` looks
  for its own; one direction without the other does not survive that step.
* `ClaimInv`: a claim has one holder, counted over handlers and summaries, which
  are different kinds of task; and a handler between frames holds none.
* `SteeringFollowsTurn`, `NoStrandedQueue`: a steering queue with something in it
  has its turn; a queue with something in it has a turn, a claim or a drain.
* `RerunInv`: a queue has at most one rerun, in front, and has none while the claim
  that will queue it is held. The property is only the first part.
* `KeysInUse`: what is live, attached to or being summarised has a key that was given
  out, the key of a summary's continuation is new until it moves there, and a steering
  queue that is not open is empty, so a turn that opens one finds nothing in it.
* `AcceptedIsKept` and `DepthIsBounded`.

The proof of the first parts has one step per action and one lemma per conjunct,
over the state changes the actions are made of (`Drain`, `PushTurn`, `QueueUnread`).
The last two are about what is in the queues, and most actions do the same to those:
`FlowIs` lists the ways a step may move messages (a frame is pushed, a turn
ends and its unread steers join the queue, a summary hands its queue on, ...), one
lemma shows that every step is one of them, and the invariants are proved of these.
`DepthIsBounded` needs no more than that a joined queue counts what both counted
(`CountedConcat`) and that a part of a queue counts no more than the queue
(`Within`, an injection from places to places, since a filter has no induction here).

`RunsOnce` has an invariant of its own, `OnceInv`, of the messages nobody forgot or
moved. A message waits in one place and is then acknowledged and not run (`WaitsOnce`);
one that was run is remembered where it was sent (`RanOnce`); and one a handler serves,
between its look at the acknowledged ids and its push, is nowhere else and has not run
(`ServedOnce`). It is proved under the hypothesis
`"overlap" \notin Inputs`, without which two connections may serve copies of one
frame at once and the property is false (§3); nothing else is assumed of what the
clients do.

The hub's proofs assume
`HubAssumption` only: keys, connections and ids are disjoint and `None` is none of
them, and the depth is positive.

**Replay.** `RingInv`: the ring is a tail of what was numbered, consecutive up to
`lastAppended`. From it `CoversIsExact`: `covers` says yes exactly when every
number after the given one is still held. It holds for any limits, a limit of zero
included.

`NoGapUnnoticed` and `NothingTwice` are about what a page has once its pipe is read to
the end, and the server keeps no more of the past than the ring. `ReplayInv` therefore
says that there *is* a story `h`, every frame the present count has numbered (`Story`),
of which nothing is assumed but what the state shows: its length is the counter, the
ring is its tail, and what a turn says after a frame of it is in it behind that frame
(`PastInv`). The log, while it retains anything, holds all of the running turn, in order
and once (`LogInv`). Of each page (`PageInv`):

* `Down`: nothing numbered after its cursor has reached it, and if the cursor is of this
  count, what it has and what was numbered since are the whole session (`HasAll`);
* `Asking`: connected and not yet answered, or answered with the header still to be
  read. The greeting may have moved the cursor past the number it asked from, so that
  both are spoken of;
* `Live`: the pipe is the rest of the greeting, the header, the frames of the replay,
  the live frames in the order of their numbers, and perhaps a close (`Laid`,
  `Numbered`). What is in the pipe is in it once (`Apart`), not held already, and
  with it the page will have everything; what a turn says after a frame of the pipe is
  in the pipe behind it or still to be numbered (`Ordered`), which is why a start that
  throws away what a page had of its turn loses nothing;
* `Stale`: the socket was closed as too slow, or the session evicted under it, and the
  page still reads what an earlier count had sent. It reads nothing twice, and nothing
  it has is numbered in this count. That it has everything is not claimed of it: it is
  detached, and asks again.

A step of a page keeps `h`; an emission appends to it (`EmissionStep`); an eviction or a
restart leaves the empty one (`ForgetStep`). A turn is accounted for (`Accounted`) when
its pieces are held or on their way, or its last row is written and the page asked for
it since or will ask, or when it is one of the exceptions `ToldOrAsked` names.
`NoGapUnnoticed` excepts, as it does in the runs, a page in one of the two gaps (`torn`,
`owing`) of section 6; nothing else is assumed of drops, limits, forgetting or the order
of frames. The assumption is `ReplayAssumption`:
the limits and bounds are numbers and the scripts are of texts and calls.

**Gate.** `GateInv` is the type invariant, `PromptHasItsCall`,
`WaitingCanBeAnswered`, `ListsCatchUp`, and two strengthenings. `MemoryInv` adds to
`SessionAnswerHolds` what a `resolve` between its locks still has to do (`HandInv`):
the call it has in hand is not in the map, and what it will remember is not yet
standing. `TabInv` says of each tab that its queued frames form a chain: the first
was sent in the conversation the connection is attached to, and each next one in
the conversation the one before leaves it in; a connection a summary has carried is
excused from the first link, and rejoins it with the next switch that is handled, since
the rest of the chain and the page's end of it are not disturbed. `FramesFollowTheirTab`
is only the first link, and not inductive.

**Scheduler.** `SchedulerInv` is the type invariant with `TaskInv` (a task past its
start has its job and its copy), `SlotInv` (the slot of a run's job names that run, from
which `OneRunPerJob` follows), `PendingInv` and `PendingHasItsRun` (which places a
pending row may have), `EngineInv` (where the loop may be in each phase of the process),
and for `NextRunFits` what the copies somebody holds of a job that was not edited agree
on with its row (`CopyInv`), and that what is about to be written as a next time fits
the copy it was computed from, a run's or an update's (`TimeInv`).

Two more parts are for the limit and for the one-shots. `LimitInv`: while a tick is
under way, the room it counted, and then the jobs it read, fit beside the runs ticks
have going; a run on demand may take a slot at any moment, but it is not a tick's, and
runs of ticks only end in between. The property alone does not survive a claim: that the
jobs in hand fit is what the claim uses, and that the room fits what the read uses.
`HandInv`: a job is in the loop's hand at most once, and what is in hand is not already
starting. `SpentInv`: a one-shot the timer has started, and nobody has edited under a
run, has no next time, is in no copy the loop holds, and is not about to be started;
that it is *unscheduled before its turn starts* is what makes this true across a crash
at any point.

The proofs assume `SchedulerAssumption`: jobs and
runs are finite, runs are positive numbers and no job is the number 0, the callers are
neither the boot nor the tick, schedules and edits are well typed, and the limit is
positive.

**AgentLoop.** `IInv` is the type invariant and the five properties of LoopTurns with
what they need from each other:

* for `HistoryIsLegal`, that a batch is answered from the front, its landed and flying
  calls being exactly those between the results and the next call (`BatchInOrder`), so
  that what is stored has one result per call, in the order of the calls;
* for `RequestIsLegal`, that what a request carried is still all there is
  (`RequestIsWhole`), that the question it answers is among the rows
  (`QuestionIsStored`), and that the start found by `find_legal_start` drops exactly
  the results of the one batch the window cuts through (`SegmentStart`,
  `LegalStartOfTail`). Nothing in the code limits the calls of a completion: after a batch
  of as many calls as the limit of rows there is nothing left to send, and the property
  says of an empty window that the newest rows are then all results;
* for `SteersAreAnswered`, that from an answer to the next drain every steer of the turn is
  within what the model has heard (`SteersHeard`), and that no row carries a turn that has
  not begun (`RowsOfTurns`);
* for `MessagesOnce`, that a steer written and not yet taken off its queue is the one
  in front of it (`PoppedIsWritten`): for that moment it is in two places, and counted
  so;
* for `StepsSumToTurn`, that a turn which ends with an answer has its figures on it
  (`AnsweredHasFigures`).

The proofs go through what a step does to the rows (`RowsStepIs`: one more, a whole
batch more, or a rewind's cut) and to the turn (`TurnStepIs`) instead of the actions one
by one. The figures of a turn's rows and the calls known along a window are recursive
functions; what they come to is proved by induction over the numbers, which
`NatSetInduction` states of *sets* of numbers, from the well-foundedness of the finite
subsets, since the library's induction takes an operator. The assumptions are
`LoopAssumption`: messages are not `None`, batches are sequences of the module's tools
and not empty, and the limits and the number of faults are numbers.

**ContainerPool.** `PoolInv` says what each place of a process's code has in hand
(`JobInv`, `KeyInv`), that a process which makes or restarts a container holds the start
lock (`LockInv`) and that what it found there still holds (`MakingInv`: its key is free,
since only it may fill a key), that the map is within the cap (`CapHolds`) and the cap
has room for it (`RoomInv`: others only leave), that names in the map, in hands and with
the daemon are of different containers (`NamesInv`), and that busy counts are of
commands inside (`InsideInv`). The refinement maps `warm` to the keys in the map and
`coming` to the key of the process at its start or its insert: the step that reaches the
start (`Room` with a place free, or the last stop of what `Room` took out) is `Begin`,
`Insert` is `Arrive`, a start that fails is `Fail`, and whatever takes an entry out is
`Leave`; all else stutters. `coming` is well defined because such a process has the
lock. The assumptions are `PoolAssumption`: keys and commands are finite, `None` is none
of the values, operator and keeper are no commands.

**ExtensionHost.** `HostInv` is the type invariant and `NoChildForgotten` with what makes
it inductive: a row holds the child of its own generation or none, so a watcher that
empties its start's row lets go of no other child (`RowInv`); generations are given out
in order, so a new start overwrites none (`BegunInv`), and only a start spawns
(`ChildInv`); children wait to be told by a stop only after it, and after it the only
rows are those a reconcile writes that had looked before, which run and offer nothing
(`HaltInv`): the half of `StopReachesAll` that needs no fairness. Any number of
reconciles may run at once. The
assumptions are `HostAssumption` and `NoneAssumption`: the bounds are numbers, and
`None` is no record.

**McpConnection.** `NeverStranded` has an invariant of its own, `StrandInv`, which holds
whatever dials overlap. `Strand` names what is to come for each state of a connection:
a start, a timer, a failure that will arm it, or the newest dial, which cannot be stale
and finds a session when it asks for the list, since who takes the session away says
that the connection has failed. `Unhurt` and `Fresh` say that no dial is aborted and no
watcher runs before its dial has adopted.

The rest is proved of the states no dial has led to that overtook a task (`Calm`), by
`CalmBefore`, which says that such a state has only such states behind it.
`NoSessionForgotten`, which is proved and in no listed run, needs that a dial which is
out finds nothing to overwrite. `DialInv` says so: the connection then has that dial's
generation and token, no session, no timer, no watcher, and no failure on its way to
arming one; or it was closed, and the dial's token has fired. `WaitInv` says when a
timer or a spawned start may stand, `GenInv` that dials, watchers and connections come
in order, `ClosedInv` that a closed connection has no session that lives. `Calm` is used
once, where a timer passes (`TimedKeeps`). `McpAssumption` asks only that the bounds are
numbers.

**Model-checked only.** Liveness (`AcceptedRuns`, `DueIsServed`, `CommandsEnd`,
`RevokedIsDropped`, `StoppedTurnEnds`, `DeadToolsGo`, `StopReachesAll`, `ComesBack`), which
these provers do not reach. Every state invariant and every action property the runs
check is proved, and so are the type invariants (`TypeOK`), which no run lists.

That every call is decided in the end was also checked of the gate, on the
instance of GateAnswers with weak fairness of the loop and of `resolve`; the run
takes too long to be kept.

## 6. What the runs found

`HubMoved` and `ExtRemoved` are runs, expected to fail, with the trace TLC prints as
the evidence. The others are configurations kept beside them, run in the same way
(`tlc -config SchedEdits.cfg MCScheduler`), each with one property that a document or
a comment states and the code does not keep.

* **HubMoved.** A message moved by a summary is resent by the web client under the
  session it was first sent to, where its id is no longer remembered, and runs
  again.
* **ReplayTorn.** The header of a replay and a greeting's status carry the current
  number, ahead of the frames they introduce. A socket that drops in between leaves
  a cursor past frames that were never applied.
* **ReplayForgotten.** After an eviction or a restart the count begins again, and a
  page with a number of the old count is told that its gap is covered as soon as
  the new count has passed it.
* **GateAbort.** A stop makes two arms of the loop's select ready, the gate's denial
  among them, and it may be read first; the documentation says a stop is no denial.
* **GateMoved.** A summary moves every connection of its conversation at once. An answer
  that a tab sent from the old one, and that is handled after, is looked up in the new
  one, although "the sender's own decides which conversation's call it answers" (`hub.rs`,
  `dispatch`) and the tab's was another. The list of who is to be moved is also read
  before: a tab that has switched elsewhere meanwhile is moved all the same, and its page
  does not follow, since it is no longer on the conversation that was summarised.
* **SchedBlocked.** A tick asks for as many due jobs as it has slots, the oldest
  first, running ones included. A job that outlasts its interval is due while it
  runs, takes up the answer, and holds back every job behind it with a slot free.
* **SchedEdits.** A run that ends writes the next time from the copy of the job it
  started with, and an update writes one worked out from the job as it was read, beside
  whatever another update has written since. An edit made meanwhile loses its time: a
  disabled job run by hand and switched on before the run ends is on, and never fires.

* **LoopStopped.** Steers are drained "after the stop checks, so a turn that is ending never
  writes a steer it will not answer" (`agent_loop.rs:1861`). A stop that falls between that
  check and the request leaves a steer in history that was never sent: `stream_once` looks
  at the token first. It is not run as the next turn either, since it was popped; the next
  turn's request carries it as a row of history.
* **ExtRemoved.** An extension that is uninstalled is retired: its row goes and its
  child is stopped. The registry is brought up to date from the rows that are left,
  so its tools stay on offer until the server restarts.
* **PoolBusy.** A sweep chooses idle containers under the lock and stops them after
  it: one that took a command in between is stopped under it, although a container
  with work in it is "never reaped" (`container_pool.rs:280`).
* **PoolEnsure.** A command looks the container up after `ensure` put it in place; a
  stop, a close or an eviction in between makes it fail with an internal error.
* **McpOvertaken.** A task that has looked at the generation and not yet taken the lock
  is overtaken by a failure, a timer of no length and a new dial: it publishes its tools
  over the new attempt, although the generation is bumped "so a slow attempt cannot
  publish over a new one" (`connection.rs:147`). The same interleavings leave a session
  open, and the window is as short as a thread's preemption.
* **McpRetired.** Tools are computed under a connection's lock and published after
  it. A server that is removed in between has its tools registered again, after the
  close took them out, and nothing takes them out any more.

Seen in ApprovalGate and kept out of its runs: a tab that switched, answered and closed
leaves two frames, the switch no longer moves its connection (`attach` ignores one that
is closing), and the answer is applied in the conversation it left, where a call may
carry the same id. `FramesFollowTheirTab` is what holds, of tabs that are open and not
being moved by a summary. Seen in Scheduler: the listener is bound before `start`, so a
run asked for in between has its row closed as interrupted by a restart while it runs; a
job deleted during catch-up makes `start`, and the boot, fail.

Seen in ExtensionHost, and claimed nowhere: a child that comes up between the two
statements of a reconcile that empty an extension's row and write it over is held by
nothing from then on, although `land` says of every path that it "stops the old process
first" (`buried`; it takes a whole handshake between two statements); a first start has
no row, so an extension that is uninstalled while it starts lands all the same and stays
until the next reconcile; a watcher looks at its token and then starts, so one that was
switched off in between is started; and a replaced child is still leaving its data
directory when the new one starts in it. Two refreshes of one MCP session may also be
written in the order they ended, not in the one they were asked; and the link of an
authorization goes to whichever connection the server has then. A session's history
window (`history_window_start`) begins at the first user row of the newest 500, which
may be a steer in the middle of a turn; a completion with 500 calls leaves none to begin
at, and the next request of the turn carries nothing but the system prompt.

Read, and not behaviours of these models: the header of `agent/src/agent_loop.rs`
says steering is drained before the caps are checked, and `run_turn` checks the
caps first; `docs/architecture.md:105` speaks of 16 steers waiting, where the
steering queue has no bound and the hub refuses at its queue depth of 8; and the
comment that what is left of the steering queue "runs next" holds only when
nothing was queued before it. `cli/src/serve.rs:838` says the scheduler is awaited
when the server closes; `close` calls `stop` and goes on.

## 7. Not modelled

Process and network I/O (Docker, the model providers, the sandbox service), the contents
of messages, prompts and tools, user interfaces, wire encodings, generated protocol
types and translations have no protocol of their own to check. The background commands,
channels, login throttle, provider resilience and runtime caches are `not_modelled` in
`PROJECT.json`, each with its reason: what they do is under one lock, or within one
request, and what races there is in the processes and services they drive. Within the
modelled parts: agents, modes and workspaces a session is bound to; attachments; the
policy that decides whether a call needs an answer; a page that moves between sessions;
the order in which idle sessions are evicted; the pool's egress gateway, containers of
an earlier process, and a stop the daemon refuses; the prompt, attachments, tool
discovery and the metering of the context in a turn, and a consumer that has gone; the
calls and cancellations of the extension RPC, what a probe asks, channels and
contributions of an extension; the OAuth exchange and the calls of an MCP tool; the
abort of a reconnect timer that has just woken.
