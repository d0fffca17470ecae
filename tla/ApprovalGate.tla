---------------------------- MODULE ApprovalGate ----------------------------
(***************************************************************************)
(* Who may run a tool whose permission is "ask": the gate a connected      *)
(* client answers (src/crates/server/src/approvals.rs), the loop's side of *)
(* the question (authorize and decide of src/crates/agent/src/dispatch.rs) *)
(* and what the hub does with both: tool.approve frames, the list of       *)
(* waiting prompts every tab is shown, eviction and close                  *)
(* (src/crates/server/src/hub.rs).                                         *)
(*                                                                         *)
(* A call is one use of the gate.  It stands for its request (scope, call  *)
(* id, memory key) and for the id `park` files it under.  Each map of the  *)
(* gate has a lock of its own, so a step takes at most one of each.        *)
(***************************************************************************)
EXTENDS Naturals, Sequences, SequencesExt

CONSTANTS
  Calls,     \* tool calls that need an answer
  Scopes,    \* conversations
  Ids,       \* call ids: the model's, so two calls can carry the same one
  Keys,      \* what a tool says makes two calls the same
  ScopeOf,   \* call -> its conversation (root_session_key, or session_key)
  IdOf,      \* call -> ApprovalRequest.call_id
  KeyOf,     \* call -> ApprovalRequest.memory_key
  Clients,   \* connections
  NoCall,    \* no entry
  Answers,   \* bound: the answers a tab gives, <<verdict, how long>>
  MaxMoves,  \* bound: summaries
  MaxInbox   \* bound: frames of one connection not handled yet

Verdicts == {"yes", "no"}
Lasts    == {"once", "session"}       \* ApprovalScope

ASSUME GateAssumption ==
  /\ ScopeOf \in [Calls -> Scopes]
  /\ IdOf \in [Calls -> Ids]
  /\ KeyOf \in [Calls -> Keys]
  /\ NoCall \notin Calls
  /\ Answers \subseteq Verdicts \X Lasts
  /\ MaxInbox \in Nat /\ MaxMoves \in Nat

VARIABLES
  stage,      \* call -> how far authorize has come with it
  reply,      \* call -> what its oneshot, or park's early return, holds
  outcome,    \* call -> ApprovalOutcome of decide
  cancelled,  \* call -> its turn's token is cancelled
  expired,    \* call -> its deadline is past, the gate's and the loop's
  pending,    \* <<scope, id>> -> the call parked under it
  memory,     \* <<scope, key>> -> by_session
  link,       \* client -> away, live, left (its record still there)
  at,         \* client -> Connection.session_key
  page,       \* client -> the conversation the page is on
  moving,     \* <<client, scope>>: moves a summary has still to make
  summaries,  \* summaries there were
  carried,    \* clients a summary moved that have not switched since (ghost)
  inbox,      \* client -> frames it sent, in order
  hand,       \* client -> the resolve its dispatch is in the middle of
  shown,      \* client -> the prompts its last approvals.pending listed
  owed,       \* a task that will broadcast the list is spawned
  closing,    \* SessionHub::close: open, cancelled, forgotten, closed
  standing    \* <<scope, key>> answered for the session and heard (ghost)

asked  == <<stage, reply, outcome, cancelled, expired>>
gate   == <<pending, memory>>
moves  == <<page, moving, summaries, carried>>
tabs   == <<link, at, inbox, shown, moves>>
vars   == <<asked, gate, tabs, hand, owed, closing, standing>>

Approve == [kind : {"approve"}, id : Ids, verdict : Verdicts, lasts : Lasts,
            from : Scopes, to : Scopes]
Switch  == [kind : {"switch"}, from : Scopes, to : Scopes]
Frame   == Approve \union Switch

\* A resolve between its steps: the entry it removed, and what is left to do.
Resolve == [step : {"remember", "settle"}, call : Calls, verdict : Verdicts,
            lasts : Lasts]
Idle    == [step |-> "none"]

Slot(a)   == <<ScopeOf[a], IdOf[a]>>
Recall(a) == <<ScopeOf[a], KeyOf[a]>>

Prompts == {p \in Scopes \X Ids : pending[p] \in Calls}      \* snapshot
Live    == {c \in Clients : link[c] = "live"}

\* authorize is somewhere between its first question and its outcome.
Active(a) == stage[a] \in {"announced", "parked", "leaving"}

Init ==
  /\ stage = [a \in Calls |-> "idle"]
  /\ reply = [a \in Calls |-> "none"]
  /\ outcome = [a \in Calls |-> "none"]
  /\ cancelled = [a \in Calls |-> FALSE]
  /\ expired = [a \in Calls |-> FALSE]
  /\ pending = [p \in Scopes \X Ids |-> NoCall]
  /\ memory = [p \in Scopes \X Keys |-> "none"]
  /\ link = [c \in Clients |-> "away"]
  /\ at \in [Clients -> Scopes]
  /\ page = at /\ moving = {} /\ summaries = 0 /\ carried = {}
  /\ inbox = [c \in Clients |-> <<>>]
  /\ hand = [c \in Clients |-> Idle]
  /\ shown = [c \in Clients |-> {}]
  /\ owed = FALSE
  /\ closing = "open"
  /\ standing = {}

----------------------------------------------------------------------------
(* The loop *)

\* A conversation runs one turn at a time (SessionHub, TurnHoldsItsSession), a
\* turn asks about one call at a time, and a delegation asks inside its
\* parent's.  Only a turn that outlives close can meet another's prompt.
MayAsk(a) ==
  \A b \in Calls : ScopeOf[b] = ScopeOf[a] /\ Active(b)
                     => cancelled[b] /\ closing # "open"

\* authorize: a remembered answer is used unannounced; otherwise the prompt
\* goes out as an event, and decide comes next.
Authorize(a) ==
  /\ stage[a] = "idle"
  /\ MayAsk(a)
  /\ IF memory[Recall(a)] = "none"
       THEN /\ stage' = [stage EXCEPT ![a] = "announced"]
            /\ UNCHANGED outcome
       ELSE /\ stage' = [stage EXCEPT ![a] = "decided"]
            /\ outcome' = [outcome EXCEPT ![a] =
                 IF memory[Recall(a)] = "yes" THEN "approved" ELSE "declined"]
  /\ UNCHANGED <<reply, cancelled, expired, gate, tabs, hand, owed, closing,
                 standing>>

\* park that returns before it files anything: the memory answers now, or the
\* turn is over.
ParkNothing(a) ==
  /\ stage[a] = "announced"
  /\ memory[Recall(a)] # "none" \/ cancelled[a]
  /\ stage' = [stage EXCEPT ![a] = "parked"]
  /\ reply' = [reply EXCEPT ![a] =
       IF memory[Recall(a)] # "none" THEN memory[Recall(a)] ELSE "denial"]
  /\ UNCHANGED <<outcome, cancelled, expired, gate, tabs, hand, owed, closing,
                 standing>>

\* park: the entry is filed, the one it supersedes is denied, and the watcher
\* is told.  A person is sent for when no tab is on the conversation; that
\* goes to a notification and changes nothing here.
Superseded(a) == IF pending[Slot(a)] \in Calls THEN {pending[Slot(a)]} ELSE {}

Park(a) ==
  /\ stage[a] = "announced"
  /\ memory[Recall(a)] = "none"
  /\ ~cancelled[a]
  /\ stage' = [stage EXCEPT ![a] = "parked"]
  /\ pending' = [pending EXCEPT ![Slot(a)] = a]
  /\ reply' = [b \in Calls |->
       IF b \in Superseded(a) /\ stage[b] = "parked" THEN "denial"
       ELSE reply[b]]
  /\ owed' = TRUE
  /\ UNCHANGED <<outcome, cancelled, expired, memory, tabs, hand, closing,
                 standing>>

\* The three arms of park's select, biased: an answer, the token, the timer.
GateSays(a) ==
  IF reply[a] = "yes" THEN {"approved"}
  ELSE IF reply[a] \in {"no", "denial"} THEN {"declined"}
  ELSE IF cancelled[a] THEN {"declined"}
  ELSE IF expired[a] THEN {"timeout"}
  ELSE {}

\* The three arms of decide's select, polled in any order.
Ready(a) ==
  GateSays(a) \union (IF expired[a] THEN {"timeout"} ELSE {})
              \union (IF cancelled[a] THEN {"aborted"} ELSE {})

Decide(a) ==
  /\ stage[a] = "parked"
  /\ \E o \in Ready(a) : outcome' = [outcome EXCEPT ![a] = o]
  /\ stage' = [stage EXCEPT ![a] = "leaving"]
  /\ UNCHANGED <<reply, cancelled, expired, gate, tabs, hand, owed, closing,
                 standing>>

\* Slip: no Leaving guard.
LeaveEntry(a) ==
  /\ stage[a] = "leaving"
  /\ stage' = [stage EXCEPT ![a] = "decided"]
  /\ reply' = [reply EXCEPT ![a] = "none"]
  /\ cancelled' = [cancelled EXCEPT ![a] = FALSE]
  /\ expired' = [expired EXCEPT ![a] = FALSE]
  /\ UNCHANGED <<outcome, gate, tabs, hand, owed, closing, standing>>

\* Slip: forget does not compare ids.
LeaveWithAny(a) ==
  /\ stage[a] = "leaving"
  /\ stage' = [stage EXCEPT ![a] = "decided"]
  /\ reply' = [reply EXCEPT ![a] = "none"]
  /\ cancelled' = [cancelled EXCEPT ![a] = FALSE]
  /\ expired' = [expired EXCEPT ![a] = FALSE]
  /\ pending' = [pending EXCEPT ![Slot(a)] = NoCall]
  /\ owed' = TRUE
  /\ UNCHANGED <<outcome, memory, tabs, hand, closing, standing>>

\* park's future is dropped, and its receiver and request with it.  That drops
\* Leaving: forget takes the entry out, if it is still this call's.
Leave(a) ==
  /\ stage[a] = "leaving"
  /\ stage' = [stage EXCEPT ![a] = "decided"]
  /\ reply' = [reply EXCEPT ![a] = "none"]
  /\ cancelled' = [cancelled EXCEPT ![a] = FALSE]
  /\ expired' = [expired EXCEPT ![a] = FALSE]
  /\ IF pending[Slot(a)] = a
       THEN /\ pending' = [pending EXCEPT ![Slot(a)] = NoCall]
            /\ owed' = TRUE
       ELSE UNCHANGED <<pending, owed>>
  /\ UNCHANGED <<outcome, memory, tabs, hand, closing, standing>>

\* The turn's token: a stop, or the turn's own limits.
Cancel(a) ==
  /\ Active(a) /\ ~cancelled[a]
  /\ cancelled' = [cancelled EXCEPT ![a] = TRUE]
  /\ UNCHANGED <<stage, reply, outcome, expired, gate, tabs, hand, owed,
                 closing, standing>>

\* approval_timeout_ms passes.
Expire(a) ==
  /\ stage[a] = "parked" /\ ~expired[a]
  /\ expired' = [expired EXCEPT ![a] = TRUE]
  /\ UNCHANGED <<stage, reply, outcome, cancelled, gate, tabs, hand, owed,
                 closing, standing>>

----------------------------------------------------------------------------
(* The tabs *)

\* greet: a tab is told what waits anywhere.
Connect(c) ==
  /\ link[c] = "away"
  /\ link' = [link EXCEPT ![c] = "live"]
  /\ shown' = [shown EXCEPT ![c] = Prompts]
  /\ UNCHANGED <<asked, gate, at, inbox, moves, hand, owed, closing, standing>>

Send(c, f) ==
  /\ link[c] = "live"
  /\ Len(inbox[c]) < MaxInbox
  /\ inbox' = [inbox EXCEPT ![c] = Append(@, f)]
  /\ page' = [page EXCEPT ![c] = f.to]
  /\ UNCHANGED <<asked, gate, link, at, shown, moving, summaries, carried, hand, owed, closing, standing>>

\* A tab answers a prompt of the conversation it is on: one its list names,
\* or one whose tool.approvalRequest it has just been sent.
SendAnswer(c) ==
  \E id \in Ids, w \in Answers :
    /\ \/ <<page[c], id>> \in shown[c]
       \/ \E a \in Calls : Slot(a) = <<page[c], id>> /\ Active(a)
    /\ Send(c, [kind |-> "approve", id |-> id, verdict |-> w[1],
                lasts |-> w[2], from |-> page[c], to |-> page[c]])

\* session.resume, session.switch and session.new; and the page that follows a
\* summary (session.compacted) into the new conversation.
SendSwitch(c) ==
  \E s \in Scopes \ {page[c]} :
    Send(c, [kind |-> "switch", from |-> page[c], to |-> s])

\* Its transport closes; the frames it queued are still dispatched.
Disconnect(c) ==
  /\ link[c] = "live"
  /\ link' = [link EXCEPT ![c] = "left"]
  /\ shown' = [shown EXCEPT ![c] = {}]
  /\ UNCHANGED <<asked, gate, at, inbox, moves, hand, owed, closing, standing>>

----------------------------------------------------------------------------
(* The hub *)

NextFrame(c) == Head(inbox[c])
Dispatching(c, kind) ==
  hand[c] = Idle /\ inbox[c] # <<>> /\ NextFrame(c).kind = kind

\* The tabs of a conversation are told what waits.
Announced(s) ==
  [d \in Clients |-> IF d \in Live /\ at'[d] = s THEN Prompts ELSE shown[d]]

\* Slip: the list is announced and the connection left where it was.
MoveNowhere(c) ==
  /\ Dispatching(c, "switch")
  /\ inbox' = [inbox EXCEPT ![c] = Tail(@)]
  /\ UNCHANGED at
  /\ carried' = carried \ {c}
  /\ shown' = Announced(NextFrame(c).to)
  /\ UNCHANGED <<asked, gate, link, page, moving, summaries, hand, owed, closing, standing>>

\* move_to: the connection is attached, and the tabs of the conversation are
\* told what waits.  A connection that has left is attached nowhere.
Attached(c, s) == IF link[c] = "live" THEN [at EXCEPT ![c] = s] ELSE at

MoveTo(c) ==
  /\ Dispatching(c, "switch")
  /\ inbox' = [inbox EXCEPT ![c] = Tail(@)]
  /\ at' = Attached(c, NextFrame(c).to)
  /\ carried' = carried \ {c}
  /\ shown' = Announced(NextFrame(c).to)
  /\ UNCHANGED <<asked, gate, link, page, moving, summaries, hand, owed, closing, standing>>

\* compact_claimed: no turn runs in a conversation that is summarised, the new
\* one has a name nobody has used, and who is to be moved is read under the lock.
Fresh(s) ==
  /\ \A c \in Clients : /\ at[c] # s /\ page[c] # s
                        /\ \A i \in 1 .. Len(inbox[c]) : s \notin {inbox[c][i].from, inbox[c][i].to}
  /\ \A a \in Calls : ScopeOf[a] = s => stage[a] = "idle"

Summarise(s, new) ==
  /\ summaries < MaxMoves /\ summaries' = summaries + 1
  /\ Fresh(new) /\ \A m \in moving : m[2] # new
  /\ \A a \in Calls : ScopeOf[a] = s => ~Active(a)
  /\ moving' = moving \union ({c \in Live : at[c] = s} \X {new})
  /\ UNCHANGED <<asked, gate, link, at, inbox, shown, page, carried, hand, owed,
                 closing, standing>>

\* Then they are moved, one after another, wherever they are by then.
Carry(c, new) ==
  /\ <<c, new>> \in moving
  /\ moving' = moving \ {<<c, new>>}
  /\ at' = Attached(c, new)
  /\ carried' = IF at'[c] # at[c] THEN carried \union {c} ELSE carried
  /\ shown' = Announced(new)
  /\ UNCHANGED <<asked, gate, link, inbox, page, summaries, hand, owed, closing, standing>>

\* resolve, its first lock: the entry leaves the map.  The frame names no
\* conversation; the connection's own is used.
Target(c) == pending[<<at[c], NextFrame(c).id>>]

Take(c) ==
  /\ Dispatching(c, "approve")
  /\ Target(c) \in Calls
  /\ pending' = [pending EXCEPT ![Slot(Target(c))] = NoCall]
  /\ hand' = [hand EXCEPT ![c] =
       [step |-> "remember", call |-> Target(c),
        verdict |-> NextFrame(c).verdict, lasts |-> NextFrame(c).lasts]]
  /\ inbox' = [inbox EXCEPT ![c] = Tail(@)]
  /\ UNCHANGED <<asked, memory, link, at, shown, moves, owed, closing, standing>>

\* Nothing is waiting under that name: the second of two tabs, or a call that
\* has ended.
TakeNothing(c) ==
  /\ Dispatching(c, "approve")
  /\ Target(c) \notin Calls
  /\ inbox' = [inbox EXCEPT ![c] = Tail(@)]
  /\ UNCHANGED <<asked, gate, link, at, shown, moves, hand, owed, closing, standing>>

\* Slip: only approvals are kept.
RememberYes(c) ==
  /\ hand[c].step = "remember"
  /\ memory' = IF hand[c].lasts = "session" /\ hand[c].verdict = "yes"
                 THEN [memory EXCEPT ![Recall(hand[c].call)] = "yes"]
                 ELSE memory
  /\ hand' = [hand EXCEPT ![c].step = "settle"]
  /\ UNCHANGED <<asked, pending, tabs, owed, closing, standing>>

Remember(c) ==
  /\ hand[c].step = "remember"
  /\ memory' = IF hand[c].lasts = "session"
                 THEN [memory EXCEPT ![Recall(hand[c].call)] = hand[c].verdict]
                 ELSE memory
  /\ hand' = [hand EXCEPT ![c].step = "settle"]
  /\ UNCHANGED <<asked, pending, tabs, owed, closing, standing>>

\* The oneshot is sent, which a caller that has gone does not hear, and the
\* watcher is told.
Hears(a) == stage[a] = "parked" /\ closing = "open"

\* Slip: the watcher is not told.
SettleQuietly(c) ==
  /\ hand[c].step = "settle"
  /\ LET a == hand[c].call IN
       reply' = IF stage[a] = "parked"
                  THEN [reply EXCEPT ![a] = hand[c].verdict] ELSE reply
  /\ hand' = [hand EXCEPT ![c] = Idle]
  /\ UNCHANGED <<stage, outcome, cancelled, expired, gate, tabs, owed, closing,
                 standing>>

Settle(c) ==
  /\ hand[c].step = "settle"
  /\ LET a == hand[c].call IN
       /\ reply' = IF stage[a] = "parked"
                     THEN [reply EXCEPT ![a] = hand[c].verdict] ELSE reply
       /\ standing' = IF hand[c].lasts = "session" /\ Hears(a)
                        THEN standing \union {Recall(a)} ELSE standing
  /\ hand' = [hand EXCEPT ![c] = Idle]
  /\ owed' = TRUE
  /\ UNCHANGED <<stage, outcome, cancelled, expired, gate, tabs, closing>>

\* broadcast_approvals: the list is read under the hub's lock, which every
\* delivery takes.
Broadcast ==
  /\ owed
  /\ owed' = FALSE
  /\ shown' = [c \in Clients |-> IF c \in Live THEN Prompts ELSE shown[c]]
  /\ UNCHANGED <<asked, gate, link, at, inbox, moves, hand, closing, standing>>

\* clear_session: the memory first, then what is still parked.
Forgotten(ss) == [p \in Scopes \X Keys |-> IF p[1] \in ss THEN "none"
                                           ELSE memory[p]]
Outlived(ss)  == {p \in standing : p[1] \notin ss}

\* evict: nobody is in the conversation and no turn runs in it.  (No turn, so
\* nothing is parked: PromptHasItsCall.)
Evict(s) ==
  /\ \A c \in Live : at[c] # s
  /\ \A a \in Calls : ScopeOf[a] = s => ~Active(a)
  /\ \E k \in Keys : memory[<<s, k>>] # "none"
  /\ memory' = Forgotten({s})
  /\ standing' = Outlived({s})
  /\ UNCHANGED <<asked, pending, tabs, hand, owed, closing>>

\* close: every running turn's token, then clear_session of every session.
CloseCancels ==
  /\ closing = "open"
  /\ closing' = "cancelled"
  /\ cancelled' = [a \in Calls |-> cancelled[a] \/ Active(a)]
  /\ UNCHANGED <<stage, reply, outcome, expired, gate, tabs, hand, owed,
                 standing>>

CloseForgets ==
  /\ closing = "cancelled"
  /\ closing' = "forgotten"
  /\ memory' = Forgotten(Scopes)
  /\ standing' = Outlived(Scopes)
  /\ UNCHANGED <<asked, pending, tabs, hand, owed>>

CloseSettles ==
  /\ closing = "forgotten"
  /\ closing' = "closed"
  /\ reply' = [a \in Calls |-> IF pending[Slot(a)] = a /\ stage[a] = "parked"
                                 THEN "denial" ELSE reply[a]]
  /\ pending' = [p \in Scopes \X Ids |-> NoCall]
  /\ owed' = (owed \/ Prompts # {})
  /\ UNCHANGED <<stage, outcome, cancelled, expired, memory, tabs, hand,
                 standing>>

----------------------------------------------------------------------------
LoopStep(a) == \/ Authorize(a) \/ ParkNothing(a) \/ Park(a) \/ Decide(a)
               \/ Leave(a) \/ Cancel(a) \/ Expire(a)
TabStep(c)  == \/ Connect(c) \/ SendAnswer(c) \/ SendSwitch(c)
               \/ Disconnect(c)
HubStep(c)  == \/ MoveTo(c) \/ Take(c) \/ TakeNothing(c) \/ Remember(c)
               \/ Settle(c)
Close       == CloseCancels \/ CloseForgets \/ CloseSettles

Next ==
  \/ \E a \in Calls : LoopStep(a)
  \/ \E c \in Clients : TabStep(c) \/ HubStep(c)
  \/ \E s, new \in Scopes : Summarise(s, new)
  \/ \E c \in Clients, s \in Scopes : Carry(c, s)
  \/ \E s \in Scopes : Evict(s)
  \/ Broadcast
  \/ Close

Spec == Init /\ [][Next]_vars

----------------------------------------------------------------------------
(* Properties *)

\* Every variable has its type.
TypeOK ==
  /\ stage \in [Calls -> {"idle", "announced", "parked", "leaving", "decided"}]
  /\ reply \in [Calls -> {"none", "yes", "no", "denial"}]
  /\ outcome \in [Calls -> {"none", "approved", "declined", "timeout",
                            "aborted"}]
  /\ cancelled \in [Calls -> BOOLEAN]
  /\ expired \in [Calls -> BOOLEAN]
  /\ pending \in [Scopes \X Ids -> Calls \union {NoCall}]
  /\ memory \in [Scopes \X Keys -> {"none", "yes", "no"}]
  /\ link \in [Clients -> {"away", "live", "left"}]
  /\ at \in [Clients -> Scopes] /\ page \in [Clients -> Scopes]
  /\ summaries \in 0 .. MaxMoves
  /\ moving \in SUBSET (Clients \X Scopes) /\ carried \in SUBSET Clients
  /\ inbox \in [Clients -> Seq(Frame)]
  /\ hand \in [Clients -> Resolve \union {Idle}]
  /\ shown \in [Clients -> SUBSET (Scopes \X Ids)]
  /\ owed \in BOOLEAN
  /\ closing \in {"open", "cancelled", "forgotten", "closed"}
  /\ standing \in SUBSET (Scopes \X Keys)

\* The map never outgrows the calls that wait: an entry is filed under its own
\* conversation and id, and its call is still in decide.  A caller that is
\* answered, stopped, late or superseded takes its entry with it, and only
\* its own (Leaving, forget).
PromptHasItsCall ==
  \A p \in Scopes \X Ids :
    pending[p] \in Calls => /\ p = Slot(pending[p])
                            /\ stage[pending[p]] \in {"parked", "leaving"}

\* A call that waits with no answer on its way can be answered: it is in the
\* map, or a tab's resolve has it in hand.
WaitingCanBeAnswered ==
  \A a \in Calls :
    stage[a] = "parked" /\ reply[a] = "none" =>
      \/ pending[Slot(a)] = a
      \/ \E c \in Clients : hand[c] # Idle /\ hand[c].call = a

\* A frame of an open connection is handled in the conversation its page was on
\* when it sent it, however many switches were then still on their way:
\* tool.approve names no conversation, and this is what stands in for one.  It
\* does not hold of a connection a summary has moved until its page has switched.
FramesFollowTheirTab ==
  \A c \in Live \ carried : inbox[c] # <<>> => NextFrame(c).from = at[c]

\* "The frame names no session, so the sender's own decides which conversation's
\* call it answers" (hub.rs, dispatch): an answer is handled in the conversation
\* it was given in, on every connection.
EveryAnswerFollows ==
  \A c \in Live : Dispatching(c, "approve") => NextFrame(c).from = at[c]

\* An answer for the session is in the memory before the call it released can
\* go on to the next one, and stays until the session is forgotten: the
\* second call is not asked about again.  (An answer that meets close is not
\* followed: the hub is being dropped under it.)
SessionAnswerHolds ==
  \A p \in standing : memory[p] # "none"

\* No tab is left with an old list: what it shows is what waits, or somebody
\* is about to tell it.
ListsCatchUp ==
  \A c \in Live : \/ shown[c] = Prompts
                  \/ owed
                  \/ \E d \in Clients : hand[d] # Idle

\* docs/tools.md: "An abort during an approval is a cancellation, not a
\* denial."
AbortIsNoDenial ==
  \A a \in Calls :
    stage[a] = "leaving" /\ cancelled[a] /\ outcome[a] = "declined"
      => reply[a] # "none"

=============================================================================
