------------------------- MODULE ApprovalGateProofs -------------------------
(***************************************************************************)
(* What TLAPS proves of ApprovalGate for every set of calls, conversations *)
(* and tabs, every way ids and keys repeat and any number of frames on     *)
(* their way.                                                              *)
(***************************************************************************)
EXTENDS ApprovalGate, SequenceTheorems, TLAPS

-----------------------------------------------------------------------------
(* Types *)

\* A resolve in progress is not idle, and is told by its step.
LEMMA HandShapes ==
  ASSUME NEW h \in Resolve \union {Idle}
  PROVE  /\ Idle.step = "none"
         /\ h # Idle <=> h \in Resolve
         /\ h # Idle <=> h.step \in {"remember", "settle"}
BY DEF Resolve, Idle

\* The next frame is a frame of its kind, and what is behind it an inbox.
LEMMA FrameInHand ==
  ASSUME TypeOK, NEW c \in Clients, inbox[c] # <<>>
  PROVE  /\ NextFrame(c) \in Frame
         /\ Tail(inbox[c]) \in Seq(Frame)
         /\ NextFrame(c).kind = "approve" => NextFrame(c) \in Approve
         /\ NextFrame(c).kind = "switch" => NextFrame(c) \in Switch
<1>1. inbox[c] \in Seq(Frame)
  BY DEF TypeOK
<1>2. NextFrame(c) \in Frame /\ Tail(inbox[c]) \in Seq(Frame)
  BY <1>1 DEF NextFrame
<1>3. QED
  BY <1>2 DEF Frame, Approve, Switch

\* A frame a tab sends is a frame, and changes nothing but its inbox.
LEMMA SendTypes ==
  ASSUME TypeOK, NEW c \in Clients, NEW f \in Frame, Send(c, f)
  PROVE  TypeOK'
<1>1. inbox[c] \in Seq(Frame)
  BY DEF TypeOK
<1>2. Append(inbox[c], f) \in Seq(Frame)
  BY <1>1
<1>3. inbox' \in [Clients -> Seq(Frame)]
  BY <1>2 DEF TypeOK, Send
<1>4. page' \in [Clients -> Scopes]
  BY DEF TypeOK, Send, Frame, Approve, Switch
<1>5. QED
  BY <1>3, <1>4 DEF TypeOK, Send, asked, gate

\* Nothing is asked, and every variable has its type.
LEMMA TypeInit == Init => TypeOK
<1> SUFFICES ASSUME Init PROVE TypeOK
  OBVIOUS
<1>1. inbox \in [Clients -> Seq(Frame)]
  <2>1. <<>> \in Seq(Frame)
    OBVIOUS
  <2>2. QED
    BY <2>1 DEF Init
<1>2. hand \in [Clients -> Resolve \union {Idle}]
  BY DEF Init
<1>3. /\ stage \in [Calls -> {"idle", "announced", "parked", "leaving",
                             "decided"}]
      /\ reply \in [Calls -> {"none", "yes", "no", "denial"}]
      /\ outcome \in [Calls -> {"none", "approved", "declined", "timeout",
                                "aborted"}]
      /\ cancelled \in [Calls -> BOOLEAN]
      /\ expired \in [Calls -> BOOLEAN]
  BY DEF Init
<1>4. /\ pending \in [Scopes \X Ids -> Calls \union {NoCall}]
      /\ memory \in [Scopes \X Keys -> {"none", "yes", "no"}]
  BY DEF Init
<1>5. /\ link \in [Clients -> {"away", "live", "left"}]
      /\ at \in [Clients -> Scopes] /\ page \in [Clients -> Scopes]
      /\ moving \in SUBSET (Clients \X Scopes) /\ carried \in SUBSET Clients
      /\ summaries \in 0 .. MaxMoves
      /\ shown \in [Clients -> SUBSET (Scopes \X Ids)]
  BY GateAssumption DEF Init
<1>6. /\ owed \in BOOLEAN
      /\ closing \in {"open", "cancelled", "forgotten", "closed"}
      /\ standing \in SUBSET (Scopes \X Keys)
  BY DEF Init
<1>7. QED
  BY <1>1, <1>2, <1>3, <1>4, <1>5, <1>6 DEF TypeOK

\* Every step keeps every type.
LEMMA TypeStep == TypeOK /\ [Next]_vars => TypeOK'
<1> SUFFICES ASSUME TypeOK, [Next]_vars PROVE TypeOK'
  OBVIOUS
<1> USE GateAssumption
<1>1. ASSUME NEW a \in Calls, LoopStep(a) PROVE TypeOK'
  <2>1. CASE Authorize(a)
    BY <2>1 DEF TypeOK, Authorize, gate, tabs, moves
  <2>2. CASE ParkNothing(a)
    <3>1. memory[Recall(a)] \in {"none", "yes", "no"}
      BY DEF TypeOK, Recall
    <3>2. QED
      BY <2>2, <3>1 DEF TypeOK, ParkNothing, gate, tabs, moves
  <2>3. CASE Park(a)
    BY <2>3 DEF TypeOK, Park, tabs, moves, Slot
  <2>4. CASE Decide(a)
    <3>1. Ready(a) \subseteq {"approved", "declined", "timeout", "aborted"}
      BY DEF Ready, GateSays
    <3>2. QED
      BY <2>4, <3>1 DEF TypeOK, Decide, gate, tabs, moves
  <2>5. CASE Leave(a)
    BY <2>5 DEF TypeOK, Leave, tabs, moves, Slot
  <2>6. CASE Cancel(a)
    BY <2>6 DEF TypeOK, Cancel, gate, tabs, moves
  <2>7. CASE Expire(a)
    BY <2>7 DEF TypeOK, Expire, gate, tabs, moves
  <2>8. QED
    BY <1>1, <2>1, <2>2, <2>3, <2>4, <2>5, <2>6, <2>7 DEF LoopStep
<1>2. ASSUME NEW c \in Clients, TabStep(c) PROVE TypeOK'
  <2>1. CASE Connect(c)
    BY <2>1 DEF TypeOK, Connect, asked, gate, moves, Prompts
  <2>2. CASE SendAnswer(c)
    <3>1. PICK id \in Ids, w \in Answers :
            Send(c, [kind |-> "approve", id |-> id, verdict |-> w[1],
                     lasts |-> w[2], from |-> page[c], to |-> page[c]])
      BY <2>2 DEF SendAnswer
    <3>2. w[1] \in Verdicts /\ w[2] \in Lasts
      OBVIOUS
    <3>3. [kind |-> "approve", id |-> id, verdict |-> w[1], lasts |-> w[2],
           from |-> page[c], to |-> page[c]] \in Frame
      BY <3>2 DEF TypeOK, Frame, Approve
    <3>4. QED
      BY <3>1, <3>3, SendTypes
  <2>3. CASE SendSwitch(c)
    <3>1. PICK s \in Scopes :
            Send(c, [kind |-> "switch", from |-> page[c], to |-> s])
      BY <2>3 DEF SendSwitch
    <3>2. [kind |-> "switch", from |-> page[c], to |-> s] \in Frame
      BY DEF TypeOK, Frame, Switch
    <3>3. QED
      BY <3>1, <3>2, SendTypes
  <2>4. CASE Disconnect(c)
    BY <2>4 DEF TypeOK, Disconnect, asked, gate, moves
  <2>5. QED
    BY <1>2, <2>1, <2>2, <2>3, <2>4 DEF TabStep
<1>3. ASSUME NEW c \in Clients, HubStep(c) PROVE TypeOK'
  <2>1. CASE MoveTo(c)
    <3>1. NextFrame(c) \in Switch /\ Tail(inbox[c]) \in Seq(Frame)
      BY <2>1, FrameInHand DEF MoveTo, Dispatching
    <3>2. at' \in [Clients -> Scopes] /\ carried' \in SUBSET Clients
      BY <2>1, <3>1 DEF TypeOK, MoveTo, Attached, Switch
    <3>3. inbox' \in [Clients -> Seq(Frame)]
      BY <2>1, <3>1 DEF TypeOK, MoveTo
    <3>4. shown' \in [Clients -> SUBSET (Scopes \X Ids)]
      BY <2>1 DEF TypeOK, MoveTo, Announced, Prompts
    <3>5. QED
      BY <2>1, <3>2, <3>3, <3>4 DEF TypeOK, MoveTo, asked, gate
  <2>2. CASE Take(c)
    <3>1. NextFrame(c) \in Approve /\ Tail(inbox[c]) \in Seq(Frame)
      BY <2>2, FrameInHand DEF Take, Dispatching
    <3>2. hand' \in [Clients -> Resolve \union {Idle}]
      BY <2>2, <3>1 DEF TypeOK, Take, Approve, Resolve
    <3>3. inbox' \in [Clients -> Seq(Frame)]
      BY <2>2, <3>1 DEF TypeOK, Take
    <3>4. pending' \in [Scopes \X Ids -> Calls \union {NoCall}]
      BY <2>2 DEF TypeOK, Take
    <3>5. QED
      BY <2>2, <3>2, <3>3, <3>4 DEF TypeOK, Take, asked, moves
  <2>3. CASE TakeNothing(c)
    <3>1. Tail(inbox[c]) \in Seq(Frame)
      BY <2>3, FrameInHand DEF TakeNothing, Dispatching
    <3>2. QED
      BY <2>3, <3>1 DEF TypeOK, TakeNothing, asked, gate, moves
  <2>4. CASE Remember(c)
    <3>1. hand[c] \in Resolve
      BY <2>4, HandShapes DEF TypeOK, Remember
    <3>2. [hand[c] EXCEPT !.step = "settle"] \in Resolve
      BY <3>1 DEF Resolve
    <3>3. hand' \in [Clients -> Resolve \union {Idle}]
      BY <2>4, <3>2 DEF TypeOK, Remember
    <3>4. memory' \in [Scopes \X Keys -> {"none", "yes", "no"}]
      BY <2>4, <3>1 DEF TypeOK, Remember, Resolve, Verdicts
    <3>5. QED
      BY <2>4, <3>3, <3>4 DEF TypeOK, Remember, asked, tabs, moves
  <2>5. CASE Settle(c)
    <3>1. hand[c] \in Resolve
      BY <2>5, HandShapes DEF TypeOK, Settle
    <3>2. reply' \in [Calls -> {"none", "yes", "no", "denial"}]
      BY <2>5, <3>1 DEF TypeOK, Settle, Resolve, Verdicts
    <3>3. Recall(hand[c].call) \in Scopes \X Keys
      BY <3>1 DEF Recall, Resolve
    <3>4. standing' \in SUBSET (Scopes \X Keys)
      BY <2>5, <3>3 DEF TypeOK, Settle
    <3>5. QED
      BY <2>5, <3>2, <3>4 DEF TypeOK, Settle, gate, tabs, moves
  <2>6. QED
    BY <1>3, <2>1, <2>2, <2>3, <2>4, <2>5 DEF HubStep
<1>4. ASSUME NEW s \in Scopes, Evict(s) PROVE TypeOK'
  BY <1>4 DEF TypeOK, Evict, Forgotten, Outlived, asked, tabs, moves
<1>5. CASE Broadcast
  BY <1>5 DEF TypeOK, Broadcast, Prompts, asked, gate, moves
<1>6. CASE CloseCancels
  BY <1>6 DEF TypeOK, CloseCancels, gate, tabs, moves, Active
<1>7. CASE CloseForgets
  BY <1>7 DEF TypeOK, CloseForgets, Forgotten, Outlived, asked, tabs, moves
<1>8. CASE CloseSettles
  BY <1>8 DEF TypeOK, CloseSettles, tabs, moves
<1>9. CASE UNCHANGED vars
  BY <1>9 DEF TypeOK, vars, asked, gate, tabs, moves
<1>10. ASSUME NEW s \in Scopes, NEW new \in Scopes, Summarise(s, new) PROVE TypeOK'
  <2>1. moving' \in SUBSET (Clients \X Scopes)
    BY <1>10 DEF TypeOK, Summarise, Live
  <2>2. summaries' \in 0 .. MaxMoves
    BY <1>10 DEF TypeOK, Summarise
  <2>3. QED
    BY <1>10, <2>1, <2>2 DEF TypeOK, Summarise, asked, gate
<1>11. ASSUME NEW c \in Clients, NEW s \in Scopes, Carry(c, s) PROVE TypeOK'
  <2>1. /\ at' \in [Clients -> Scopes] /\ carried' \in SUBSET Clients
        /\ moving' \in SUBSET (Clients \X Scopes)
    BY <1>11 DEF TypeOK, Carry, Attached
  <2>2. shown' \in [Clients -> SUBSET (Scopes \X Ids)]
    BY <1>11 DEF TypeOK, Carry, Announced, Prompts
  <2>3. QED
    BY <1>11, <2>1, <2>2 DEF TypeOK, Carry, asked, gate
<1>12. QED
  BY <1>1, <1>2, <1>3, <1>4, <1>5, <1>6, <1>7, <1>8, <1>9, <1>10, <1>11 DEF Next, Close

-----------------------------------------------------------------------------
(* The map of prompts *)

\* Every call has a place in the map and a place in the memory.
LEMMA SlotIsASlot ==
  ASSUME NEW a \in Calls
  PROVE  Slot(a) \in Scopes \X Ids /\ Recall(a) \in Scopes \X Keys
BY GateAssumption DEF Slot, Recall

\* Every step keeps each entry with its own call, still waiting.
LEMMA PromptStep ==
  TypeOK /\ PromptHasItsCall /\ [Next]_vars => PromptHasItsCall'
<1> SUFFICES ASSUME TypeOK, PromptHasItsCall, [Next]_vars,
                    NEW p \in Scopes \X Ids, pending'[p] \in Calls
             PROVE  /\ p = Slot(pending'[p])
                    /\ stage'[pending'[p]] \in {"parked", "leaving"}
  BY DEF PromptHasItsCall, Slot
<1> USE GateAssumption, SlotIsASlot
<1>1. pending[p] \in Calls => /\ p = Slot(pending[p])
                              /\ stage[pending[p]] \in {"parked", "leaving"}
  BY DEF PromptHasItsCall
<1>2. ASSUME NEW a \in Calls, LoopStep(a)
      PROVE  /\ p = Slot(pending'[p])
             /\ stage'[pending'[p]] \in {"parked", "leaving"}
  <2>1. CASE Authorize(a)
    BY <1>1, <2>1 DEF TypeOK, Authorize, gate
  <2>2. CASE ParkNothing(a)
    BY <1>1, <2>2 DEF TypeOK, ParkNothing, gate
  <2>3. CASE Park(a)
    <3>1. CASE p = Slot(a)
      BY <2>3, <3>1 DEF TypeOK, Park
    <3>2. CASE p # Slot(a)
      BY <1>1, <2>3, <3>2 DEF TypeOK, Park
    <3>3. QED
      BY <3>1, <3>2
  <2>4. CASE Decide(a)
    BY <1>1, <2>4 DEF TypeOK, Decide, gate
  <2>5. CASE Leave(a)
    <3>1. pending'[p] = pending[p] /\ pending[p] # a
      <4>1. pending[p] \in Calls => p = Slot(pending[p])
        BY DEF PromptHasItsCall
      <4>2. CASE pending[Slot(a)] = a
        BY <2>5, <4>1, <4>2 DEF TypeOK, Leave
      <4>3. CASE pending[Slot(a)] # a
        BY <2>5, <4>1, <4>3 DEF TypeOK, Leave
      <4>4. QED
        BY <4>2, <4>3
    <3>2. stage'[pending[p]] = stage[pending[p]]
      BY <2>5, <3>1 DEF TypeOK, Leave
    <3>3. QED
      BY <1>1, <3>1, <3>2
  <2>6. CASE Cancel(a)
    BY <1>1, <2>6 DEF Cancel, gate
  <2>7. CASE Expire(a)
    BY <1>1, <2>7 DEF Expire, gate
  <2>8. QED
    BY <1>2, <2>1, <2>2, <2>3, <2>4, <2>5, <2>6, <2>7 DEF LoopStep
<1>3. ASSUME NEW c \in Clients, TabStep(c)
      PROVE  pending' = pending /\ stage' = stage
  BY <1>3 DEF TabStep, Connect, SendAnswer, SendSwitch, Send, Disconnect,
              asked, gate
<1>4. ASSUME NEW c \in Clients, HubStep(c)
      PROVE  pending'[p] = pending[p] /\ stage' = stage
  <2>1. CASE Take(c)
    <3>1. Slot(Target(c)) \in Scopes \X Ids
      BY <2>1 DEF Take
    <3>2. QED
      BY <2>1, <3>1 DEF TypeOK, Take, asked
  <2>2. CASE ~Take(c)
    BY <1>4, <2>2 DEF HubStep, MoveTo, TakeNothing, Remember, Settle, asked,
                      gate
  <2>3. QED
    BY <2>1, <2>2
<1>5. ASSUME NEW s \in Scopes, Evict(s)
      PROVE  pending' = pending /\ stage' = stage
  BY <1>5 DEF Evict, asked
<1>6. CASE Broadcast \/ CloseCancels \/ CloseForgets \/ UNCHANGED vars
  <2>1. pending' = pending /\ stage' = stage
    BY <1>6 DEF Broadcast, CloseCancels, CloseForgets, vars, asked, gate
  <2>2. QED
    BY <1>1, <2>1
<1>7. CASE CloseSettles
  BY <1>7 DEF CloseSettles
<1>8. ASSUME NEW c \in Clients, NEW s \in Scopes, Carry(c, s)
      PROVE  pending' = pending /\ stage' = stage
  BY <1>8 DEF Carry, asked, gate
<1>9. ASSUME NEW s \in Scopes, NEW new \in Scopes, Summarise(s, new)
      PROVE  pending' = pending /\ stage' = stage
  BY <1>9 DEF Summarise, asked, gate
<1>10. QED
  BY <1>1, <1>2, <1>3, <1>4, <1>5, <1>6, <1>7, <1>8, <1>9 DEF Next, Close

-----------------------------------------------------------------------------
(* The callers *)

\* Who waits is unchanged by a step that leaves the loop's side and the map
\* alone and drops no resolve.
LEMMA WaitingKept ==
  ASSUME WaitingCanBeAnswered, stage' = stage, reply' = reply,
         pending' = pending,
         \A c \in Clients : hand[c] # Idle
            => hand'[c] # Idle /\ hand'[c].call = hand[c].call
  PROVE  WaitingCanBeAnswered'
BY DEF WaitingCanBeAnswered, Slot

\* Every step keeps each waiting call within an answer's reach.
LEMMA WaitingStep ==
  TypeOK /\ PromptHasItsCall /\ WaitingCanBeAnswered /\ [Next]_vars
    => WaitingCanBeAnswered'
<1> SUFFICES ASSUME TypeOK, PromptHasItsCall, WaitingCanBeAnswered,
                    [Next]_vars
             PROVE  WaitingCanBeAnswered'
  OBVIOUS
<1> USE GateAssumption, SlotIsASlot
<1>1. ASSUME NEW a \in Calls, LoopStep(a) PROVE WaitingCanBeAnswered'
  <2> SUFFICES ASSUME NEW b \in Calls, stage'[b] = "parked",
                      reply'[b] = "none"
               PROVE  \/ pending'[Slot(b)] = b
                      \/ \E c \in Clients :
                            hand'[c] # Idle /\ hand'[c].call = b
    BY DEF WaitingCanBeAnswered, Slot
  <2>0. stage[b] = "parked" /\ reply[b] = "none"
          => \/ pending[Slot(b)] = b
             \/ \E c \in Clients : hand[c] # Idle /\ hand[c].call = b
    BY DEF WaitingCanBeAnswered
  <2>1. CASE Authorize(a)
    BY <2>0, <2>1 DEF TypeOK, Authorize, gate
  <2>2. CASE ParkNothing(a)
    <3>1. b # a
      BY <2>2 DEF TypeOK, ParkNothing, Recall
    <3>2. QED
      BY <2>0, <2>2, <3>1 DEF TypeOK, ParkNothing, gate
  <2>3. CASE Park(a)
    <3>1. CASE b = a
      BY <2>3, <3>1 DEF TypeOK, Park
    <3>2. CASE b # a
      <4>1. stage[b] = "parked" /\ reply[b] = "none" /\ pending[Slot(a)] # b
        BY <2>3, <3>2 DEF TypeOK, Park, Superseded
      <4>2. pending[Slot(b)] = b => pending'[Slot(b)] = b
        BY <2>3, <4>1 DEF TypeOK, Park
      <4>3. QED
        BY <2>0, <2>3, <4>1, <4>2 DEF Park
    <3>3. QED
      BY <3>1, <3>2
  <2>4. CASE Decide(a)
    BY <2>0, <2>4 DEF TypeOK, Decide, gate
  <2>5. CASE Leave(a)
    <3>1. b # a /\ stage[b] = "parked" /\ reply[b] = "none"
      BY <2>5 DEF TypeOK, Leave
    <3>2. pending[Slot(b)] = b => pending'[Slot(b)] = b
      BY <2>5, <3>1 DEF TypeOK, Leave
    <3>3. QED
      BY <2>0, <2>5, <3>1, <3>2 DEF Leave
  <2>6. CASE Cancel(a)
    BY <2>0, <2>6 DEF Cancel, gate
  <2>7. CASE Expire(a)
    BY <2>0, <2>7 DEF Expire, gate
  <2>8. QED
    BY <1>1, <2>1, <2>2, <2>3, <2>4, <2>5, <2>6, <2>7 DEF LoopStep
<1>2. ASSUME NEW c \in Clients, TabStep(c) PROVE WaitingCanBeAnswered'
  <2>1. stage' = stage /\ reply' = reply /\ pending' = pending /\ hand' = hand
    BY <1>2 DEF TabStep, Connect, SendAnswer, SendSwitch, Send, Disconnect,
                asked, gate
  <2>2. QED
    BY <2>1, WaitingKept
<1>3. ASSUME NEW c \in Clients, HubStep(c) PROVE WaitingCanBeAnswered'
  <2>1. CASE MoveTo(c) \/ TakeNothing(c)
    <3>1. stage' = stage /\ reply' = reply /\ pending' = pending
            /\ hand' = hand
      BY <2>1 DEF MoveTo, TakeNothing, asked, gate
    <3>2. QED
      BY <3>1, WaitingKept
  <2>2. CASE Take(c)
    <3>1. hand'[c] # Idle /\ hand'[c].call = Target(c)
      BY <2>2 DEF TypeOK, Take, Idle
    <3>2. \A d \in Clients : d # c => hand'[d] = hand[d]
      BY <2>2 DEF TypeOK, Take
    <3>3. hand[c] = Idle
      BY <2>2 DEF Take, Dispatching
    <3>4. \A b \in Calls : pending[Slot(b)] = b
            => pending'[Slot(b)] = b \/ b = Target(c)
      <4>1. NextFrame(c) \in Approve
        BY <2>2, FrameInHand DEF Take, Dispatching
      <4>2. <<at[c], NextFrame(c).id>> \in Scopes \X Ids
        BY <4>1 DEF TypeOK, Approve
      <4>3. pending[Slot(Target(c))] = Target(c)
        BY <2>2, <4>2 DEF Take, Target, PromptHasItsCall
      <4>4. QED
        BY <2>2, <4>3 DEF TypeOK, Take
    <3>5. stage' = stage /\ reply' = reply
      BY <2>2 DEF Take, asked
    <3>6. QED
      BY <3>1, <3>2, <3>3, <3>4, <3>5 DEF WaitingCanBeAnswered, Slot
  <2>3. CASE Remember(c)
    <3>1. hand[c] # Idle /\ hand[c] \in Resolve
      BY <2>3, HandShapes DEF TypeOK, Remember
    <3>2. /\ hand'[c] = [hand[c] EXCEPT !.step = "settle"]
          /\ \A d \in Clients : d # c => hand'[d] = hand[d]
      BY <2>3 DEF TypeOK, Remember
    <3>3. hand'[c] # Idle /\ hand'[c].call = hand[c].call
      BY <3>1, <3>2 DEF Resolve, Idle
    <3>4. stage' = stage /\ reply' = reply /\ pending' = pending
      BY <2>3 DEF Remember, asked
    <3>5. \A d \in Clients : hand[d] # Idle
            => hand'[d] # Idle /\ hand'[d].call = hand[d].call
      BY <3>2, <3>3
    <3>6. QED
      BY <3>4, <3>5, WaitingKept
  <2>4. CASE Settle(c)
    <3>1. hand[c] \in Resolve
      BY <2>4, HandShapes DEF TypeOK, Settle
    <3>2. \A b \in Calls : stage[b] = "parked" /\ reply'[b] = "none"
            => b # hand[c].call /\ reply[b] = "none"
      BY <2>4, <3>1 DEF TypeOK, Settle, Resolve, Verdicts
    <3>3. \A d \in Clients : d # c => hand'[d] = hand[d]
      BY <2>4 DEF TypeOK, Settle
    <3>4. stage' = stage /\ pending' = pending
      BY <2>4 DEF Settle, gate
    <3>5. QED
      BY <3>2, <3>3, <3>4 DEF WaitingCanBeAnswered, Slot
  <2>5. QED
    BY <1>3, <2>1, <2>2, <2>3, <2>4 DEF HubStep
<1>4. ASSUME NEW s \in Scopes, Evict(s) PROVE WaitingCanBeAnswered'
  BY <1>4, WaitingKept DEF Evict, asked
<1>5. CASE Broadcast \/ CloseCancels \/ CloseForgets \/ UNCHANGED vars
  <2>1. stage' = stage /\ reply' = reply /\ pending' = pending /\ hand' = hand
    BY <1>5 DEF Broadcast, CloseCancels, CloseForgets, vars, asked, gate
  <2>2. QED
    BY <2>1, WaitingKept
<1>6. CASE CloseSettles
  <2>1. \A b \in Calls : stage[b] = "parked" /\ reply'[b] = "none"
          => reply[b] = "none" /\ pending[Slot(b)] # b
    BY <1>6 DEF TypeOK, CloseSettles
  <2>2. stage' = stage /\ hand' = hand
    BY <1>6 DEF CloseSettles
  <2>3. QED
    BY <2>1, <2>2 DEF WaitingCanBeAnswered, Slot
<1>7. ASSUME NEW c \in Clients, NEW s \in Scopes, Carry(c, s)
      PROVE  WaitingCanBeAnswered'
  <2>1. stage' = stage /\ reply' = reply /\ pending' = pending /\ hand' = hand
    BY <1>7 DEF Carry, asked, gate
  <2>2. QED
    BY <2>1 DEF WaitingCanBeAnswered, Slot
<1>8. ASSUME NEW s \in Scopes, NEW new \in Scopes, Summarise(s, new)
      PROVE  WaitingCanBeAnswered'
  <2>1. stage' = stage /\ reply' = reply /\ pending' = pending /\ hand' = hand
    BY <1>8 DEF Summarise, asked, gate
  <2>2. QED
    BY <2>1 DEF WaitingCanBeAnswered, Slot
<1>9. QED
  BY <1>1, <1>2, <1>3, <1>4, <1>5, <1>6, <1>7, <1>8 DEF Next, Close

-----------------------------------------------------------------------------
(* The lists *)

\* Every step that changes the map leaves somebody to tell the tabs.
LEMMA ListsStep ==
  TypeOK /\ ListsCatchUp /\ [Next]_vars => ListsCatchUp'
<1> SUFFICES ASSUME TypeOK, ListsCatchUp, [Next]_vars PROVE ListsCatchUp'
  OBVIOUS
<1> SUFFICES ASSUME NEW c \in Live', owed' = FALSE,
                    \A d \in Clients : hand'[d] = Idle
             PROVE  shown'[c] = Prompts'
  <2>1. owed' \in BOOLEAN
    BY TypeStep DEF TypeOK
  <2>2. QED
    BY <2>1 DEF ListsCatchUp
<1> USE GateAssumption, SlotIsASlot
<1>0. /\ c \in Clients
      /\ c \in Live => \/ shown[c] = Prompts \/ owed = TRUE
                      \/ \E d \in Clients : hand[d] # Idle
  BY DEF ListsCatchUp, Live, TypeOK
<1>1. ASSUME pending' = pending, shown' = shown, link' = link, hand' = hand,
             owed' = owed
      PROVE  shown'[c] = Prompts'
  BY <1>0, <1>1 DEF Prompts, Live
<1>2. ASSUME NEW a \in Calls, LoopStep(a) PROVE shown'[c] = Prompts'
  <2>1. CASE Park(a)
    BY <2>1 DEF Park
  <2>2. CASE Leave(a)
    BY <1>1, <2>2 DEF Leave, tabs
  <2>3. QED
    BY <1>1, <1>2, <2>1, <2>2
       DEF LoopStep, Authorize, ParkNothing, Decide, Cancel, Expire, gate, tabs
<1>3. ASSUME NEW d \in Clients, TabStep(d) PROVE shown'[c] = Prompts'
  <2>1. pending' = pending /\ hand' = hand /\ owed' = owed
    BY <1>3 DEF TabStep, Connect, SendAnswer, SendSwitch, Send, Disconnect,
                gate
  <2>2. Prompts' = Prompts
    BY <2>1 DEF Prompts
  <2>3. CASE Connect(d)
    BY <1>0, <2>1, <2>2, <2>3 DEF TypeOK, Connect, Live
  <2>4. CASE Disconnect(d)
    <3>1. c # d /\ c \in Live
      BY <1>0, <2>4 DEF TypeOK, Disconnect, Live
    <3>2. QED
      BY <1>0, <2>1, <2>2, <2>4, <3>1 DEF TypeOK, Disconnect
  <2>5. CASE SendAnswer(d) \/ SendSwitch(d)
    BY <1>1, <2>1, <2>5 DEF SendAnswer, SendSwitch, Send
  <2>6. QED
    BY <1>3, <2>3, <2>4, <2>5 DEF TabStep
<1>4. ASSUME NEW d \in Clients, HubStep(d) PROVE shown'[c] = Prompts'
  <2>1. CASE MoveTo(d)
    BY <1>0, <2>1 DEF TypeOK, MoveTo, Announced, Prompts, Live, gate
  <2>2. CASE Take(d)
    BY <2>2 DEF TypeOK, Take, Idle
  <2>3. CASE TakeNothing(d)
    BY <1>1, <2>3 DEF TakeNothing, gate
  <2>4. CASE Remember(d)
    <3>1. hand[d] \in Resolve
      BY <2>4, HandShapes DEF TypeOK, Remember
    <3>2. hand'[d] = [hand[d] EXCEPT !.step = "settle"]
      BY <2>4 DEF TypeOK, Remember
    <3>3. hand'[d] # Idle
      BY <3>1, <3>2 DEF Resolve, Idle
    <3>4. QED
      BY <3>3
  <2>5. CASE Settle(d)
    BY <2>5 DEF Settle
  <2>6. QED
    BY <1>4, <2>1, <2>2, <2>3, <2>4, <2>5 DEF HubStep
<1>5. ASSUME NEW s \in Scopes, Evict(s) PROVE shown'[c] = Prompts'
  BY <1>1, <1>5 DEF Evict, tabs
<1>6. CASE Broadcast
  BY <1>6 DEF TypeOK, Broadcast, Prompts, Live, gate
<1>7. CASE CloseCancels \/ CloseForgets \/ UNCHANGED vars
  BY <1>1, <1>7 DEF CloseCancels, CloseForgets, vars, gate, tabs
<1>8. CASE CloseSettles
  <2>1. Prompts = {} /\ owed = FALSE
    BY <1>8 DEF CloseSettles, TypeOK
  <2>2. Prompts' = {}
    BY <1>8 DEF CloseSettles, Prompts
  <2>3. link' = link /\ shown' = shown /\ hand' = hand
    BY <1>8 DEF CloseSettles, tabs
  <2>4. QED
    BY <1>0, <2>1, <2>2, <2>3 DEF Live
<1>9. ASSUME NEW s \in Scopes, NEW new \in Scopes, Summarise(s, new)
      PROVE  shown'[c] = Prompts'
  BY <1>1, <1>9 DEF Summarise, gate
<1>10. ASSUME NEW d \in Clients, NEW s \in Scopes, Carry(d, s) PROVE shown'[c] = Prompts'
  BY <1>0, <1>10 DEF TypeOK, Carry, Announced, Prompts, Live, gate
<1>11. QED
  BY <1>2, <1>3, <1>4, <1>5, <1>6, <1>7, <1>8, <1>9, <1>10 DEF Next, Close

-----------------------------------------------------------------------------
(* What a session answer leaves *)

\* A resolve has a call that is past its announcement, and once it has stored
\* a session answer for a caller that still waits, the memory has one.
HandInv ==
  \A c \in Clients : hand[c] # Idle =>
    /\ stage[hand[c].call] \in {"parked", "leaving", "decided"}
    /\ hand[c].step = "settle" /\ hand[c].lasts = "session"
         /\ Hears(hand[c].call)
         => memory[Recall(hand[c].call)] # "none"

\* What a step may do to the memory while HandInv and SessionAnswerHolds
\* stand: lose nothing a caller that waits has been promised.
LEMMA HandKept ==
  ASSUME TypeOK, HandInv, hand' = hand,
         \A a \in Calls : stage[a] \in {"parked", "leaving", "decided"}
            => stage'[a] \in {"parked", "leaving", "decided"},
         \A a \in Calls : Hears(a)' /\ stage[a] # "announced" => Hears(a),
         \A a \in Calls : Hears(a)' /\ memory[Recall(a)] # "none"
            => memory'[Recall(a)] # "none"
  PROVE  HandInv'
<1> SUFFICES ASSUME NEW c \in Clients, hand[c] # Idle
             PROVE  /\ stage'[hand[c].call] \in {"parked", "leaving", "decided"}
                    /\ hand[c].step = "settle" /\ hand[c].lasts = "session"
                         /\ Hears(hand[c].call)'
                         => memory'[Recall(hand[c].call)] # "none"
  BY DEF HandInv, Hears, Recall
<1>1. hand[c].call \in Calls
  BY HandShapes DEF TypeOK, Resolve
<1>2. stage[hand[c].call] \in {"parked", "leaving", "decided"}
  BY DEF HandInv
<1>3. QED
  BY <1>1, <1>2 DEF HandInv

MemoryInv == HandInv /\ SessionAnswerHolds

\* Every step keeps what a session answer promised.
LEMMA MemoryStep ==
  TypeOK /\ PromptHasItsCall /\ MemoryInv /\ [Next]_vars => MemoryInv'
<1> SUFFICES ASSUME TypeOK, PromptHasItsCall, MemoryInv, [Next]_vars
             PROVE  MemoryInv'
  OBVIOUS
<1> USE GateAssumption, SlotIsASlot
<1>0. HandInv /\ SessionAnswerHolds
  BY DEF MemoryInv
<1>1. ASSUME memory' = memory, standing' = standing
      PROVE  SessionAnswerHolds'
  BY <1>0, <1>1 DEF SessionAnswerHolds
<1>2. ASSUME NEW a \in Calls, LoopStep(a) PROVE MemoryInv'
  <2>1. memory' = memory /\ standing' = standing /\ hand' = hand
          /\ closing' = closing
    BY <1>2 DEF LoopStep, Authorize, ParkNothing, Park, Decide, Leave, Cancel,
                Expire, gate
  <2>2. \A b \in Calls :
          \/ stage'[b] = stage[b]
          \/ stage[b] \in {"idle", "announced"}
          \/ /\ stage[b] \in {"parked", "leaving"}
             /\ stage'[b] \in {"leaving", "decided"}
    BY <1>2 DEF TypeOK, LoopStep, Authorize, ParkNothing, Park, Decide, Leave,
                Cancel, Expire
  <2>3. \A b \in Calls : stage[b] = "idle" => stage'[b] # "parked"
    BY <1>2 DEF TypeOK, LoopStep, Authorize, ParkNothing, Park, Decide, Leave,
                Cancel, Expire
  <2>4. \A b \in Calls : Hears(b)' /\ stage[b] # "announced" => Hears(b)
    BY <2>1, <2>2, <2>3 DEF Hears, TypeOK
  <2>5. \A b \in Calls : stage[b] \in {"parked", "leaving", "decided"}
          => stage'[b] \in {"parked", "leaving", "decided"}
    BY <2>2
  <2>6. HandInv'
    BY <1>0, <2>1, <2>4, <2>5, HandKept
  <2>7. QED
    BY <1>1, <2>1, <2>6 DEF MemoryInv
<1>3. ASSUME stage' = stage, memory' = memory, standing' = standing,
             hand' = hand, closing' = "open" => closing = "open"
      PROVE  MemoryInv'
  <2>1. \A b \in Calls : Hears(b)' => Hears(b)
    BY <1>3 DEF Hears
  <2>2. HandInv'
    BY <1>0, <1>3, <2>1, HandKept
  <2>3. QED
    BY <1>1, <1>3, <2>2 DEF MemoryInv
<1>4. ASSUME NEW c \in Clients, TabStep(c) PROVE MemoryInv'
  <2>1. stage' = stage /\ memory' = memory /\ standing' = standing
          /\ hand' = hand /\ closing' = closing
    BY <1>4 DEF TabStep, Connect, SendAnswer, SendSwitch, Send, Disconnect,
                asked, gate
  <2>2. QED
    BY <1>3, <2>1
<1>5. ASSUME NEW c \in Clients, HubStep(c) PROVE MemoryInv'
  <2>1. CASE MoveTo(c) \/ TakeNothing(c)
    BY <1>3, <2>1 DEF MoveTo, TakeNothing, asked, gate
  <2>2. CASE Take(c)
    <3>1. NextFrame(c) \in Approve
      BY <2>2, FrameInHand DEF Take, Dispatching
    <3>2. <<at[c], NextFrame(c).id>> \in Scopes \X Ids
      BY <3>1 DEF TypeOK, Approve
    <3>3. stage[Target(c)] \in {"parked", "leaving"}
      BY <2>2, <3>2 DEF Take, Target, PromptHasItsCall
    <3>4. /\ hand'[c].step = "remember" /\ hand'[c].call = Target(c)
          /\ \A d \in Clients : d # c => hand'[d] = hand[d]
      BY <2>2 DEF TypeOK, Take
    <3>5. stage' = stage /\ memory' = memory /\ standing' = standing
            /\ closing' = closing
      BY <2>2 DEF Take, asked
    <3>6. HandInv'
      BY <1>0, <3>3, <3>4, <3>5 DEF HandInv, Hears, Recall
    <3>7. QED
      BY <1>1, <3>5, <3>6 DEF MemoryInv
  <2>3. CASE Remember(c)
    <3>1. hand[c] # Idle /\ hand[c] \in Resolve
      BY <2>3, HandShapes DEF TypeOK, Remember
    <3>2. /\ hand'[c].call = hand[c].call /\ hand'[c].lasts = hand[c].lasts
          /\ \A d \in Clients : d # c => hand'[d] = hand[d]
      BY <2>3, <3>1 DEF TypeOK, Remember, Resolve
    <3>3. \A p \in Scopes \X Keys : memory[p] # "none" => memory'[p] # "none"
      BY <2>3, <3>1 DEF TypeOK, Remember, Resolve, Verdicts
    <3>4. hand[c].lasts = "session" => memory'[Recall(hand[c].call)] # "none"
      BY <2>3, <3>1 DEF TypeOK, Remember, Resolve, Verdicts
    <3>5. stage' = stage /\ standing' = standing /\ closing' = closing
      BY <2>3 DEF Remember, asked
    <3>6. \A d \in Clients : hand[d] # Idle => hand[d].call \in Calls
      BY HandShapes DEF TypeOK, Resolve
    <3>7. HandInv'
      BY <1>0, <3>1, <3>2, <3>3, <3>4, <3>5, <3>6 DEF HandInv, Hears, Recall
    <3>8. SessionAnswerHolds'
      BY <1>0, <3>3, <3>5 DEF SessionAnswerHolds, TypeOK
    <3>9. QED
      BY <3>7, <3>8 DEF MemoryInv
  <2>4. CASE Settle(c)
    <3>1. hand[c] # Idle
      BY <2>4, HandShapes DEF TypeOK, Settle
    <3>2. /\ hand'[c] = Idle
          /\ \A d \in Clients : d # c => hand'[d] = hand[d]
      BY <2>4 DEF TypeOK, Settle
    <3>3. stage' = stage /\ memory' = memory /\ closing' = closing
      BY <2>4 DEF Settle, gate
    <3>4. HandInv'
      BY <1>0, <3>2, <3>3 DEF HandInv, Hears, Recall
    <3>5. SessionAnswerHolds'
      BY <1>0, <2>4, <3>1, <3>3 DEF SessionAnswerHolds, HandInv, Settle
    <3>6. QED
      BY <3>4, <3>5 DEF MemoryInv
  <2>5. QED
    BY <1>5, <2>1, <2>2, <2>3, <2>4 DEF HubStep
<1>6. ASSUME NEW s \in Scopes, Evict(s) PROVE MemoryInv'
  <2>1. \A a \in Calls : Hears(a)' => Hears(a) /\ Recall(a)[1] # s
    BY <1>6 DEF Evict, Hears, Active, Recall, asked
  <2>2. \A p \in Scopes \X Keys : p[1] # s => memory'[p] = memory[p]
    BY <1>6 DEF Evict, Forgotten
  <2>3. HandInv'
    BY <1>0, <1>6, <2>1, <2>2, HandKept DEF Evict, asked
  <2>4. SessionAnswerHolds'
    BY <1>0, <1>6, <2>2 DEF Evict, SessionAnswerHolds, Outlived, TypeOK
  <2>5. QED
    BY <2>3, <2>4 DEF MemoryInv
<1>7. CASE Broadcast
  BY <1>3, <1>7 DEF Broadcast, asked, gate
<1>8. CASE CloseCancels
  BY <1>3, <1>8 DEF CloseCancels, gate
<1>9. CASE CloseForgets
  <2>1. \A a \in Calls : ~Hears(a)'
    BY <1>9 DEF CloseForgets, Hears
  <2>2. HandInv'
    BY <1>0, <1>9, <2>1, HandKept DEF CloseForgets, asked
  <2>3. standing' = {}
    BY <1>9 DEF CloseForgets, Outlived, TypeOK
  <2>4. QED
    BY <2>2, <2>3 DEF MemoryInv, SessionAnswerHolds
<1>10. CASE CloseSettles
  BY <1>3, <1>10 DEF CloseSettles
<1>11. CASE UNCHANGED vars
  BY <1>3, <1>11 DEF vars, asked, gate
<1>12. ASSUME NEW s \in Scopes, NEW new \in Scopes, Summarise(s, new)
       PROVE  MemoryInv'
  BY <1>3, <1>12 DEF Summarise, asked, gate
<1>13. ASSUME NEW c \in Clients, NEW s \in Scopes, Carry(c, s) PROVE MemoryInv'
  BY <1>3, <1>13 DEF Carry, asked, gate
<1>14. QED
  BY <1>2, <1>4, <1>5, <1>6, <1>7, <1>8, <1>9, <1>10, <1>11, <1>12, <1>13 DEF Next, Close

-----------------------------------------------------------------------------
(* A tab's frames are handled where it was *)

\* Each frame a tab sent starts where the one before it ended.
Chained(q) ==
  /\ \A i \in 1..Len(q) : q[i].kind = "approve" => q[i].to = q[i].from
  /\ \A i \in 1..(Len(q) - 1) : q[i + 1].from = q[i].to

\* The first one starts where the hub has the connection; with none under way,
\* that is where the page is.
Follows(c) ==
  /\ inbox[c] = <<>> => page[c] = at[c]
  /\ inbox[c] # <<>> => inbox[c][1].from = at[c]

\* The last one leads to where the page is.  A summary may move a connection away
\* from its page; the next switch that is handled brings them together again.
TabInv ==
  \A c \in Clients :
    /\ Chained(inbox[c])
    /\ link[c] = "away" => inbox[c] = <<>>
    /\ inbox[c] # <<>> => inbox[c][Len(inbox[c])].to = page[c]
    /\ link[c] # "left" /\ c \notin carried => Follows(c)

\* A frame sent from where the last one leads carries the chain on.
LEMMA ChainGrows ==
  ASSUME NEW q \in Seq(Frame), NEW f \in Frame, Chained(q),
         f.kind = "approve" => f.to = f.from,
         q # <<>> => f.from = q[Len(q)].to
  PROVE  Chained(Append(q, f))
<1> DEFINE r == Append(q, f)
<1>1. /\ Len(q) \in Nat /\ Len(r) = Len(q) + 1
      /\ \A i \in 1..Len(q) : r[i] = q[i]
      /\ r[Len(q) + 1] = f
  OBVIOUS
<1> HIDE DEF r
<1>2. ASSUME NEW i \in 1..Len(r), r[i].kind = "approve"
      PROVE  r[i].to = r[i].from
  BY <1>1, <1>2 DEF Chained
<1>3. ASSUME NEW i \in 1..(Len(r) - 1) PROVE r[i + 1].from = r[i].to
  <2>1. CASE i = Len(q)
    <3>1. q # <<>>
      BY <1>1, <2>1
    <3>2. QED
      BY <1>1, <2>1, <3>1
  <2>2. CASE i # Len(q)
    <3>1. i \in 1..(Len(q) - 1) /\ i + 1 \in 1..Len(q)
      BY <1>1, <2>2
    <3>2. r[i + 1] = q[i + 1] /\ r[i] = q[i]
      BY <1>1, <3>1
    <3>3. q[i + 1].from = q[i].to
      BY <3>1 DEF Chained
    <3>4. QED
      BY <3>2, <3>3
  <2>3. QED
    BY <2>1, <2>2
<1>4. Chained(r)
  BY <1>2, <1>3 DEF Chained
<1>5. QED
  BY <1>4 DEF r

\* Handling the first frame leaves the rest of the chain, which starts where
\* that frame led.
LEMMA ChainShrinks ==
  ASSUME NEW q \in Seq(Frame), q # <<>>, Chained(q)
  PROVE  /\ Chained(Tail(q))
         /\ Tail(q) # <<>> => Tail(q)[1].from = q[1].to
         /\ Tail(q) # <<>> => Tail(q)[Len(Tail(q))] = q[Len(q)]
         /\ Tail(q) = <<>> => q[1] = q[Len(q)]
<1> DEFINE r == Tail(q)
<1>1. /\ Len(q) \in Nat /\ Len(q) > 0 /\ Len(r) = Len(q) - 1
      /\ \A i \in 1..Len(r) : r[i] = q[i + 1]
      /\ r # <<>> => Len(r) > 0
  OBVIOUS
<1>9. r = <<>> => Len(r) = 0
  <2> HIDE DEF r
  <2>1. Len(<<>>) = 0
    OBVIOUS
  <2>2. QED
    BY <2>1, Zenon
<1> HIDE DEF r
<1>2. ASSUME NEW i \in 1..Len(r), r[i].kind = "approve"
      PROVE  r[i].to = r[i].from
  BY <1>1, <1>2 DEF Chained
<1>3. ASSUME NEW i \in 1..(Len(r) - 1) PROVE r[i + 1].from = r[i].to
  <2>1. i \in 1..Len(r) /\ i + 1 \in 1..Len(r) /\ i + 1 \in 1..(Len(q) - 1)
    BY <1>1
  <2>2. r[i] = q[i + 1] /\ r[i + 1] = q[(i + 1) + 1]
    BY <1>1, <2>1
  <2>3. q[(i + 1) + 1].from = q[i + 1].to
    BY <2>1 DEF Chained
  <2>4. QED
    BY <2>2, <2>3
<1>4. ASSUME r # <<>> PROVE r[1].from = q[1].to
  <2>1. 1 \in 1..Len(r) /\ 1 \in 1..(Len(q) - 1)
    BY <1>1, <1>4
  <2>2. r[1] = q[1 + 1] /\ q[1 + 1].from = q[1].to
    BY <1>1, <2>1 DEF Chained
  <2>3. QED
    BY <2>2
<1>7. ASSUME r # <<>> PROVE r[Len(r)] = q[Len(q)]
  <2>1. Len(r) \in 1..Len(r) /\ Len(r) + 1 = Len(q)
    BY <1>1, <1>7
  <2>2. QED
    BY <1>1, <2>1
<1>8. ASSUME r = <<>> PROVE q[1] = q[Len(q)]
  <2>1. Len(q) = 1
    BY <1>1, <1>8, <1>9
  <2>2. QED
    BY <2>1
<1>5. /\ Chained(r) /\ (r # <<>> => r[1].from = q[1].to)
      /\ r # <<>> => r[Len(r)] = q[Len(q)]
      /\ r = <<>> => q[1] = q[Len(q)]
  BY <1>2, <1>3, <1>4, <1>7, <1>8 DEF Chained
<1>6. QED
  BY <1>5 DEF r

\* A step that touches one tab answers for that one.
LEMMA OneTabMoves ==
  ASSUME TabInv, NEW c \in Clients,
         \A d \in Clients \ {c} :
           /\ inbox'[d] = inbox[d] /\ at'[d] = at[d]
           /\ link'[d] = link[d] /\ page'[d] = page[d]
           /\ (d \in carried') <=> (d \in carried),
         Chained(inbox'[c]),
         link'[c] = "away" => inbox'[c] = <<>>,
         inbox'[c] # <<>> => inbox'[c][Len(inbox'[c])].to = page'[c],
         link'[c] # "left" /\ c \notin carried' => Follows(c)'
  PROVE  TabInv'
<1> SUFFICES ASSUME NEW d \in Clients
             PROVE  /\ Chained(inbox'[d])
                    /\ link'[d] = "away" => inbox'[d] = <<>>
                    /\ inbox'[d] # <<>> => inbox'[d][Len(inbox'[d])].to = page'[d]
                    /\ link'[d] # "left" /\ d \notin carried' => Follows(d)'
  BY DEF TabInv, Chained
<1>1. CASE d = c
  BY <1>1
<1>2. CASE d # c
  <2>1. /\ inbox'[d] = inbox[d] /\ at'[d] = at[d] /\ link'[d] = link[d]
        /\ page'[d] = page[d]
    BY <1>2
  <2>5. (d \in carried') <=> (d \in carried)
    BY <1>2
  <2>2. /\ Chained(inbox[d])
        /\ link[d] = "away" => inbox[d] = <<>>
        /\ inbox[d] # <<>> => inbox[d][Len(inbox[d])].to = page[d]
        /\ link[d] # "left" /\ d \notin carried => Follows(d)
    BY DEF TabInv
  <2>3. Follows(d) <=> Follows(d)'
    BY <2>1 DEF Follows
  <2>4. QED
    BY <2>1, <2>2, <2>3, <2>5
<1>3. QED
  BY <1>1, <1>2

\* Sending from the conversation the page is on keeps the chain.
LEMMA SendKeepsTab ==
  ASSUME TypeOK, TabInv, NEW c \in Clients, NEW f \in Frame, Send(c, f),
         f.from = page[c], f.kind = "approve" => f.to = f.from
  PROVE  TabInv'
<1>1. /\ inbox[c] \in Seq(Frame) /\ link[c] = "live" /\ link' = link
      /\ at' = at /\ carried' = carried
  BY DEF TypeOK, Send
<1>2. /\ inbox'[c] = Append(inbox[c], f) /\ page'[c] = f.to
      /\ \A d \in Clients : d # c => inbox'[d] = inbox[d] /\ page'[d] = page[d]
  BY DEF TypeOK, Send
<1>3. /\ Len(inbox[c]) \in Nat /\ inbox'[c] # <<>> /\ Len(inbox'[c]) = Len(inbox[c]) + 1
      /\ inbox'[c][Len(inbox'[c])] = f
      /\ inbox[c] = <<>> => inbox'[c][1] = f
      /\ inbox[c] # <<>> => inbox'[c][1] = inbox[c][1]
  BY <1>1, <1>2
<1>4. inbox[c] # <<>> => inbox[c][Len(inbox[c])].to = page[c]
  BY DEF TabInv
<1>5. Chained(inbox'[c])
  BY <1>1, <1>2, <1>4, ChainGrows DEF TabInv
<1>6. c \notin carried => Follows(c)'
  BY <1>1, <1>3 DEF TabInv, Follows
<1>7. QED
  BY <1>1, <1>2, <1>3, <1>5, <1>6, OneTabMoves

\* Handling a frame keeps the chain, if the connection ends up where the frame
\* led its page, or had not been with its page before.
LEMMA HandledKeepsTab ==
  ASSUME TypeOK, TabInv, NEW c \in Clients, inbox[c] # <<>>, link' = link, page' = page,
         inbox' = [inbox EXCEPT ![c] = Tail(@)],
         \A d \in Clients : d # c => at'[d] = at[d] /\ ((d \in carried') <=> (d \in carried)),
         link[c] = "live" /\ c \notin carried' => at'[c] = inbox[c][1].to
  PROVE  TabInv'
<1>1. inbox[c] \in Seq(Frame)
  BY DEF TypeOK
<1>2. /\ inbox'[c] = Tail(inbox[c])
      /\ \A d \in Clients : d # c => inbox'[d] = inbox[d]
  BY DEF TypeOK
<1>3. /\ Chained(inbox[c]) /\ link[c] # "away" /\ link[c] \in {"away", "live", "left"}
      /\ inbox[c][Len(inbox[c])].to = page[c]
  BY DEF TabInv, TypeOK
<1>4. /\ Chained(inbox'[c])
      /\ inbox'[c] # <<>> => inbox'[c][1].from = inbox[c][1].to
      /\ inbox'[c] # <<>> => inbox'[c][Len(inbox'[c])] = inbox[c][Len(inbox[c])]
      /\ inbox'[c] = <<>> => inbox[c][1] = inbox[c][Len(inbox[c])]
  BY <1>1, <1>2, <1>3, ChainShrinks
<1>5. link'[c] # "left" /\ c \notin carried' => Follows(c)'
  BY <1>3, <1>4 DEF Follows
<1>6. QED
  BY <1>2, <1>3, <1>4, <1>5, OneTabMoves

\* Every step keeps the chain of every tab.
LEMMA TabStepKeeps == TypeOK /\ TabInv /\ [Next]_vars => TabInv'
<1> SUFFICES ASSUME TypeOK, TabInv, [Next]_vars PROVE TabInv'
  OBVIOUS
<1>1. ASSUME inbox' = inbox, at' = at, link' = link, page' = page, carried' = carried
      PROVE  TabInv'
  BY <1>1 DEF TabInv, Chained, Follows
<1>2. ASSUME NEW a \in Calls, LoopStep(a) PROVE TabInv'
  BY <1>1, <1>2 DEF LoopStep, Authorize, ParkNothing, Park, Decide, Leave,
                    Cancel, Expire, tabs, moves
<1>3. ASSUME NEW c \in Clients, TabStep(c) PROVE TabInv'
  <2>1. CASE Connect(c)
    BY <2>1 DEF TypeOK, TabInv, Chained, Follows, Connect, moves
  <2>2. CASE SendAnswer(c)
    <3>1. PICK id \in Ids, w \in Answers :
            Send(c, [kind |-> "approve", id |-> id, verdict |-> w[1],
                     lasts |-> w[2], from |-> page[c], to |-> page[c]])
      BY <2>2 DEF SendAnswer
    <3>2. w[1] \in Verdicts /\ w[2] \in Lasts
      BY GateAssumption
    <3>3. [kind |-> "approve", id |-> id, verdict |-> w[1], lasts |-> w[2],
           from |-> page[c], to |-> page[c]] \in Frame
      BY <3>2 DEF TypeOK, Frame, Approve
    <3>4. QED
      BY <3>1, <3>3, SendKeepsTab
  <2>3. CASE SendSwitch(c)
    <3>1. PICK s \in Scopes :
            Send(c, [kind |-> "switch", from |-> page[c], to |-> s])
      BY <2>3 DEF SendSwitch
    <3>2. [kind |-> "switch", from |-> page[c], to |-> s] \in Frame
      BY DEF TypeOK, Frame, Switch
    <3>3. QED
      BY <3>1, <3>2, SendKeepsTab
  <2>4. CASE Disconnect(c)
    BY <2>4 DEF TypeOK, TabInv, Chained, Follows, Disconnect, moves
  <2>5. QED
    BY <1>3, <2>1, <2>2, <2>3, <2>4 DEF TabStep
<1>4. ASSUME NEW c \in Clients, HubStep(c) PROVE TabInv'
  <2>1. CASE MoveTo(c)
    <3>1. inbox[c] # <<>> /\ NextFrame(c) = inbox[c][1]
      BY <2>1 DEF MoveTo, Dispatching, NextFrame
    <3>2. /\ \A d \in Clients : d # c => at'[d] = at[d]
          /\ link[c] = "live" => at'[c] = inbox[c][1].to
      BY <2>1, <3>1 DEF TypeOK, MoveTo, Attached
    <3>3. /\ inbox' = [inbox EXCEPT ![c] = Tail(@)] /\ carried' = carried \ {c}
          /\ link' = link /\ page' = page
      BY <2>1 DEF MoveTo
    <3>4. QED
      BY <3>1, <3>2, <3>3, HandledKeepsTab
  <2>2. CASE Take(c) \/ TakeNothing(c)
    <3>1. /\ inbox[c] # <<>> /\ NextFrame(c) = inbox[c][1]
          /\ NextFrame(c).kind = "approve"
      BY <2>2 DEF Take, TakeNothing, Dispatching, NextFrame
    <3>2. /\ inbox' = [inbox EXCEPT ![c] = Tail(@)]
          /\ at' = at /\ link' = link /\ page' = page /\ carried' = carried
      BY <2>2 DEF Take, TakeNothing, moves
    <3>3. inbox[c] \in Seq(Frame) /\ 1 \in 1..Len(inbox[c])
      BY <3>1 DEF TypeOK
    <3>4. inbox[c][1].to = inbox[c][1].from
      BY <3>1, <3>3 DEF TabInv, Chained
    <3>5. link[c] = "live" /\ c \notin carried' => at'[c] = inbox[c][1].to
      BY <3>1, <3>2, <3>4 DEF TabInv, Follows
    <3>6. QED
      BY <3>1, <3>2, <3>5, HandledKeepsTab
  <2>3. CASE Remember(c) \/ Settle(c)
    BY <1>1, <2>3 DEF Remember, Settle, tabs, moves
  <2>4. QED
    BY <1>4, <2>1, <2>2, <2>3 DEF HubStep
<1>5. CASE (\E s \in Scopes : Evict(s)) \/ Broadcast \/ Close
  BY <1>1, <1>5 DEF Evict, Broadcast, Close, CloseCancels, CloseForgets,
                    CloseSettles, tabs, moves
<1>6. CASE UNCHANGED vars
  BY <1>1, <1>6 DEF vars, tabs, moves
<1>7. ASSUME NEW s \in Scopes, NEW new \in Scopes, Summarise(s, new) PROVE TabInv'
  BY <1>1, <1>7 DEF Summarise
<1>8. ASSUME NEW c \in Clients, NEW s \in Scopes, Carry(c, s) PROVE TabInv'
  <2>1. /\ inbox' = inbox /\ link' = link /\ page' = page
        /\ \A d \in Clients : d # c => at'[d] = at[d]
        /\ at'[c] = at[c] => carried' = carried
        /\ at'[c] # at[c] => carried' = carried \union {c}
    BY <1>8 DEF TypeOK, Carry, Attached
  <2>2. CASE at'[c] = at[c]
    BY <2>1, <2>2 DEF TabInv, Chained, Follows
  <2>3. CASE at'[c] # at[c]
    BY <2>1, <2>3, OneTabMoves DEF TabInv
  <2>4. QED
    BY <2>2, <2>3
<1>9. QED
  BY <1>2, <1>3, <1>4, <1>5, <1>6, <1>7, <1>8 DEF Next

-----------------------------------------------------------------------------
(* The theorems *)

\* The inductive invariant.
GateInv ==
  TypeOK /\ PromptHasItsCall /\ WaitingCanBeAnswered /\ ListsCatchUp
  /\ MemoryInv /\ TabInv

\* It holds before anything is asked.
LEMMA GateInit == Init => GateInv
<1> SUFFICES ASSUME Init PROVE GateInv
  OBVIOUS
<1>1. TypeOK
  BY TypeInit
<1>2. PromptHasItsCall /\ WaitingCanBeAnswered /\ ListsCatchUp
  BY GateAssumption DEF Init, PromptHasItsCall, WaitingCanBeAnswered,
     ListsCatchUp, Live
<1>3. MemoryInv
  BY DEF Init, MemoryInv, HandInv, SessionAnswerHolds
<1>4. TabInv
  BY DEF Init, TabInv, Chained, Follows
<1>5. QED
  BY <1>1, <1>2, <1>3, <1>4 DEF GateInv

\* Every step keeps it.
LEMMA GateStep == GateInv /\ [Next]_vars => GateInv'
BY TypeStep, PromptStep, WaitingStep, ListsStep, MemoryStep, TabStepKeeps
   DEF GateInv

\* The inductive invariant holds of every behaviour of the gate.
THEOREM GateInvariant == Spec => []GateInv
BY GateInit, GateStep, PTL DEF Spec

\* Every variable of the gate, the loop and the tabs keeps its type.
THEOREM GateTypes == Spec => []TypeOK
<1>1. GateInv => TypeOK
  BY DEF GateInv
<1>2. QED
  BY <1>1, GateInvariant, PTL

\* No entry outlives its call: what park files, Leaving takes out, and only
\* that (park, forget and resolve of approvals.rs).
THEOREM PromptsHaveCalls == Spec => []PromptHasItsCall
<1>1. GateInv => PromptHasItsCall
  BY DEF GateInv
<1>2. QED
  BY <1>1, GateInvariant, PTL

\* Nothing takes a waiting call out of the map without an answer for it:
\* superseded, resolved, cancelled or late (park and resolve of approvals.rs).
THEOREM NoCallWaitsUnseen == Spec => []WaitingCanBeAnswered
<1>1. GateInv => WaitingCanBeAnswered
  BY DEF GateInv
<1>2. QED
  BY <1>1, GateInvariant, PTL

\* A caller released by an answer for the session finds it in the memory, until
\* eviction or close forgets it (resolve and clear_session of approvals.rs).
THEOREM SessionAnswersHold == Spec => []SessionAnswerHolds
<1>1. GateInv => SessionAnswerHolds
  BY DEF GateInv, MemoryInv
<1>2. QED
  BY <1>1, GateInvariant, PTL

\* Every tab's list is the map, or is about to be (broadcast_approvals, greet
\* and move_to of hub.rs).
THEOREM ListsCatchUpAlways == Spec => []ListsCatchUp
<1>1. GateInv => ListsCatchUp
  BY DEF GateInv
<1>2. QED
  BY <1>1, GateInvariant, PTL

\* However many switches are under way, an open tab's answer is handled in the
\* conversation it was given in, from any switch on until a summary moves its
\* connection (dispatch, attach and compact_claimed of hub.rs).
THEOREM FramesStayWithTheirTab == Spec => []FramesFollowTheirTab
<1>1. TypeOK /\ TabInv => FramesFollowTheirTab
  BY DEF TabInv, Follows, FramesFollowTheirTab, Live, NextFrame
<1>2. GateInv => FramesFollowTheirTab
  BY <1>1 DEF GateInv
<1>3. QED
  BY <1>2, GateInvariant, PTL

=============================================================================
