---------------------------- MODULE ReplayProofs ----------------------------
(***************************************************************************)
(* What TLAPS proves of Replay for every number of pages, every limit and  *)
(* every script of turns: the shapes of the state, that the ring is the    *)
(* tail of what was emitted, that covers, which looks at one frame of the  *)
(* ring, answers for all of them, and, from an invariant of every frame    *)
(* that was numbered, that no gap goes unnoticed by a page that reads on,  *)
(* and that frames bring no page the same piece twice.                     *)
(***************************************************************************)
EXTENDS Replay, SequenceTheorems, FiniteSetTheorems, TLAPS

-----------------------------------------------------------------------------
(* The ring *)

\* What the ring's numbering needs of the state.
RingInv ==
  /\ seq \in Nat
  /\ ring \in Seq(Frame)
  /\ turns \in 0..MaxTurns
  /\ said \in [Turns -> Nat]
  /\ open => turns \in Turns /\ said[turns] # 0
  /\ RingIsTail

\* The tail of a sequence is one, of the length that is left.
LEMMA FromIsSeq ==
  ASSUME NEW S, NEW s \in Seq(S), NEW k \in 1..(Len(s) + 1)
  PROVE  /\ From(s, k) \in Seq(S)
         /\ Len(From(s, k)) = Len(s) - k + 1
         /\ \A i \in 1..(Len(s) - k + 1) : From(s, k)[i] = s[k + i - 1]
BY DEF From

\* push keeps the numbering: the new frame goes last, the oldest go first.
LEMMA PushKeepsTail ==
  ASSUME seq \in Nat, ring \in Seq(Frame), RingIsTail,
         NEW f \in Frame, f.seq = seq + 1, PushRing(f), seq' = seq + 1
  PROVE  ring' \in Seq(Frame) /\ RingIsTail'
<1> DEFINE all == Append(ring, f)
<1>1. /\ all \in Seq(Frame) /\ Len(all) = Len(ring) + 1
      /\ \A i \in 1..Len(ring) : all[i] = ring[i]
      /\ all[Len(ring) + 1] = f
  OBVIOUS
<1>2. PICK k \in 1..(Len(all) + 1) : ring' = From(all, k)
  BY DEF PushRing
<1>3. /\ ring' \in Seq(Frame)
      /\ Len(ring') = Len(all) - k + 1
      /\ \A i \in 1..(Len(all) - k + 1) : ring'[i] = all[k + i - 1]
  <2> HIDE DEF all
  <2> QED BY <1>1, <1>2, FromIsSeq
<1>4. lastAppended' = seq'
  BY DEF PushRing
<1>5. \A i \in 1..Len(all) : all[i].seq = seq + 1 - Len(all) + i
  <2> SUFFICES ASSUME NEW i \in 1..Len(all)
               PROVE  all[i].seq = seq + 1 - Len(all) + i
    OBVIOUS
  <2>1. CASE i = Len(ring) + 1
    BY <1>1, <2>1
  <2>2. CASE i # Len(ring) + 1
    <3>1. i \in 1..Len(ring)
      BY <1>1, <2>2
    <3>2. ring[i].seq = seq - Len(ring) + i
      BY <3>1 DEF RingIsTail
    <3>3. all[i].seq = seq - Len(ring) + i
      BY <1>1, <3>1, <3>2
    <3> QED
      <4> HIDE DEF all
      <4> QED BY <1>1, <3>3
  <2> QED BY <2>1, <2>2
<1>6. \A i \in 1..Len(ring') : ring'[i].seq = seq' - Len(ring') + i
  <2> SUFFICES ASSUME NEW i \in 1..Len(ring')
               PROVE  ring'[i].seq = seq' - Len(ring') + i
    OBVIOUS
  <2> HIDE DEF all
  <2>1. k + i - 1 \in 1..Len(all) /\ ring'[i] = all[k + i - 1]
    BY <1>1, <1>3
  <2>2. all[k + i - 1].seq = seq + 1 - Len(all) + (k + i - 1)
    BY <1>5, <2>1
  <2> QED BY <1>1, <1>3, <2>1, <2>2
<1> QED BY <1>3, <1>4, <1>6 DEF RingIsTail

\* emit keeps the numbering, whatever it emits.
LEMMA EmitKeepsTail ==
  ASSUME seq \in Nat, ring \in Seq(Frame), RingIsTail,
         NEW kind \in Kinds, NEW t \in 0..MaxTurns, NEW pieces \in SUBSET Pieces,
         Emit(kind, t, pieces)
  PROVE  seq' \in Nat /\ ring' \in Seq(Frame) /\ RingIsTail'
<1> DEFINE f == [type |-> "event", kind |-> kind, seq |-> seq + 1, turn |-> t,
                 pieces |-> pieces]
<1>1. f \in Frame /\ f.seq = seq + 1
  BY DEF Frame
<1>2. seq' = seq + 1 /\ PushRing(f)
  BY DEF Emit
<1> HIDE DEF f
<1> QED BY <1>1, <1>2, PushKeepsTail

\* A step of a page leaves what the server keeps alone.
LEMMA PageKeepsRing ==
  ASSUME NEW p \in Pages, PageStep(p) \/ Connect(p) \/ Drop(p)
  PROVE  UNCHANGED <<serverVars, turnVars>>
BY DEF PageStep, Connect, Drop, Resume, ApplyEvent, ApplyConnected, ApplyReplay,
       turnVars, serverVars

\* The ring starts as an empty tail.
LEMMA RingInit == Init => RingInv
<1> SUFFICES ASSUME Init PROVE RingInv
  OBVIOUS
<1>1. seq = 0 /\ ring = <<>> /\ lastAppended = 0 /\ turns = 0 /\ ~open
  BY DEF Init
<1>2. said \in [Turns -> Nat]
  BY DEF Init
<1> QED BY <1>1, <1>2, ReplayAssumption DEF RingInv, RingIsTail

\* Every step leaves the ring a tail of what was stamped.
LEMMA RingStep == RingInv /\ [Next]_vars => RingInv'
<1> SUFFICES ASSUME RingInv, [Next]_vars PROVE RingInv'
  OBVIOUS
<1>0. /\ seq \in Nat /\ ring \in Seq(Frame) /\ RingIsTail
      /\ turns \in 0..MaxTurns /\ said \in [Turns -> Nat]
      /\ open => turns \in Turns /\ said[turns] # 0
  BY DEF RingInv
<1>1. CASE TurnStart
  <2> DEFINE t == turns + 1
  <2>1. turns' = t /\ t \in Turns /\ t \in 0..MaxTurns
    BY <1>0, <1>1, ReplayAssumption DEF TurnStart, Turns
  <2>2. said' = [said EXCEPT ![t] = 1] /\ Emit("start", t, {<<t, 1>>})
    BY <1>1, <2>1 DEF TurnStart
  <2> HIDE DEF t
  <2>3. said' \in [Turns -> Nat] /\ said'[turns'] # 0
    BY <1>0, <2>1, <2>2
  <2>4. {<<t, 1>>} \in SUBSET Pieces /\ "start" \in Kinds
    BY <2>1 DEF Pieces, Kinds
  <2>5. seq' \in Nat /\ ring' \in Seq(Frame) /\ RingIsTail'
    BY <1>0, <2>1, <2>2, <2>4, EmitKeepsTail
  <2> QED BY <2>1, <2>3, <2>5 DEF RingInv
<1>2. CASE Say
  <2> DEFINE t == turns
             n == said[turns]
             kind == Script[turns][said[turns]]
  <2>1. t \in Turns /\ t \in 0..MaxTurns /\ n \in Nat /\ n # 0
    BY <1>0, <1>2 DEF Say
  <2>2. kind \in Kinds
    <3>1. Script[t] \in Seq({"text", "call"})
      BY <2>1, ReplayAssumption DEF Turns
    <3>2. n <= Len(Script[t])
      BY <1>2 DEF Say
    <3>3. Script[t][n] \in {"text", "call"}
      BY <2>1, <3>1, <3>2
    <3> QED BY <3>3 DEF Kinds
  <2>3. {<<t, n + 1>>} \in SUBSET Pieces
    BY <2>1 DEF Pieces
  <2>4. Emit(kind, t, {<<t, n + 1>>})
    BY <1>2 DEF Say
  <2>5. said' = [said EXCEPT ![t] = n + 1] /\ turns' = turns /\ open' = open
    BY <1>2 DEF Say
  <2> HIDE DEF kind, n
  <2>6. seq' \in Nat /\ ring' \in Seq(Frame) /\ RingIsTail'
    BY <1>0, <2>1, <2>2, <2>3, <2>4, EmitKeepsTail
  <2>7. said' \in [Turns -> Nat] /\ said'[turns'] # 0
    BY <1>0, <2>1, <2>5
  <2> QED BY <1>0, <2>1, <2>5, <2>6, <2>7 DEF RingInv
<1>3. CASE TurnEnd
  <2>1. turns \in Turns /\ {<<turns, 0>>} \in SUBSET Pieces /\ "end" \in Kinds
    BY <1>0, <1>3 DEF TurnEnd, Pieces, Kinds
  <2>2. /\ Emit("end", turns, {<<turns, 0>>})
        /\ ~open' /\ UNCHANGED <<turns, said>>
    BY <1>3 DEF TurnEnd
  <2>3. seq' \in Nat /\ ring' \in Seq(Frame) /\ RingIsTail'
    BY <1>0, <2>1, <2>2, EmitKeepsTail
  <2> QED BY <1>0, <2>2, <2>3 DEF RingInv
<1>4. CASE Announce
  <2>1. Emit("status", 0, {}) /\ UNCHANGED <<turns, said, open>>
    BY <1>4 DEF Announce, turnVars
  <2>2. 0 \in 0..MaxTurns /\ {} \in SUBSET Pieces /\ "status" \in Kinds
    BY ReplayAssumption DEF Kinds
  <2>3. seq' \in Nat /\ ring' \in Seq(Frame) /\ RingIsTail'
    BY <1>0, <2>1, <2>2, EmitKeepsTail
  <2> QED BY <1>0, <2>1, <2>3 DEF RingInv
<1>5. CASE Evict \/ Restart
  <2>1. seq' = 0 /\ ring' = <<>> /\ lastAppended' = 0
    BY <1>5 DEF Evict, Restart, Forgotten
  <2>2. UNCHANGED <<turns, said>> /\ (open' => open)
    BY <1>5 DEF Evict, Restart, turnVars
  <2> QED BY <1>0, <2>1, <2>2 DEF RingInv, RingIsTail
<1>6. ASSUME NEW p \in Pages, PageStep(p) \/ Connect(p) \/ Drop(p)
      PROVE  RingInv'
  <2>1. UNCHANGED <<seq, ring, lastAppended, turns, said, open>>
    BY <1>6, PageKeepsRing DEF serverVars, turnVars
  <2> QED BY <1>0, <2>1 DEF RingInv, RingIsTail
<1>7. CASE UNCHANGED vars
  <2>1. UNCHANGED <<seq, ring, lastAppended, turns, said, open>>
    BY <1>7 DEF vars, serverVars, turnVars
  <2> QED BY <1>0, <2>1 DEF RingInv, RingIsTail
<1> QED BY <1>1, <1>2, <1>3, <1>4, <1>5, <1>6, <1>7 DEF Next

\* The inductive invariant holds of every behaviour.
THEOREM RingInvariant == Spec => []RingInv
BY RingInit, RingStep, PTL DEF Spec

\* With the ring a tail, one frame answers for all: the first past last is
\* the next one exactly when none after last has gone.
LEMMA TailMakesCoversExact == RingInv => CoversIsExact
<1> SUFFICES ASSUME RingInv, NEW last \in 0..seq
             PROVE  Covers(last) <=> \A n \in (last + 1)..seq : Retained(n)
  BY DEF CoversIsExact
<1>1. /\ seq \in Nat /\ ring \in Seq(Frame) /\ lastAppended = seq
      /\ \A i \in 1..Len(ring) : ring[i].seq = seq - Len(ring) + i
  BY DEF RingInv, RingIsTail
<1>2. CASE last = seq
  BY <1>1, <1>2 DEF Covers
<1>3. CASE last < seq
  <2>1. ASSUME Covers(last), NEW n \in (last + 1)..seq
        PROVE  Retained(n)
    <3>1. PICK i \in 1..Len(ring) : ring[i].seq = last + 1
      BY <1>1, <1>3, <2>1 DEF Covers
    <3>2. last + 1 = seq - Len(ring) + i
      BY <1>1, <3>1
    <3> DEFINE j == n - seq + Len(ring)
    <3>3. j \in 1..Len(ring) /\ seq - Len(ring) + j = n
      BY <1>1, <3>1, <3>2
    <3>4. ring[j].seq = n
      <4>1. ring[j].seq = seq - Len(ring) + j
        BY <1>1, <3>3
      <4>2. Len(ring) \in Nat
        BY <1>1
      <4> HIDE DEF j
      <4> QED BY <1>1, <3>3, <4>1, <4>2
    <3> QED
      <4> HIDE DEF j
      <4> QED BY <3>3, <3>4 DEF Retained
  <2>2. ASSUME \A n \in (last + 1)..seq : Retained(n)
        PROVE  Covers(last)
    <3>0. last + 1 \in (last + 1)..seq
      BY <1>1, <1>3
    <3>1. PICK i \in 1..Len(ring) : ring[i].seq = last + 1
      BY <2>2, <3>0 DEF Retained
    <3>2. \A j \in 1..(i - 1) : ring[j].seq <= last
      BY <1>1, <3>1
    <3> QED BY <1>1, <1>3, <3>1, <3>2 DEF Covers
  <2> QED BY <2>1, <2>2
<1> QED BY <1>1, <1>2, <1>3

\* covers never answers yes with a frame gone, nor no with all of them there,
\* whatever the limits and however frames are numbered, evicted or forgotten
\* (replay.rs, emit and session of hub.rs).
THEOREM CoversTellsTheTruth == Spec => []CoversIsExact
BY RingInvariant, TailMakesCoversExact, PTL

-----------------------------------------------------------------------------
(* The inductive invariant                                                 *)
(*                                                                         *)
(* The state keeps no more of a count than the ring.  The invariant speaks *)
(* of h, every frame the count has numbered: the ring is its tail, a page's *)
(* cursor is a place in it, and what is on its way to a page is the log or *)
(* a part of it.  Any state of the program has such an h.                   *)

\* A piece that has been said.
IsSaid(x) == x[1] \in Turns /\ x \in Content(x[1])

\* y is x, or a turn says it after x.
Later(x, y) == x[1] = y[1] /\ (y[2] = 0 \/ (x[2] # 0 /\ x[2] <= y[2]))

\* A frame tells pieces of its own turn; only a start the first of them, and
\* only an end the ending.
Told(f) ==
  /\ \A x \in f.pieces : x \in Pieces /\ x[1] = f.turn
  /\ f.kind = "start" => f.pieces = {<<f.turn, 1>>}
  /\ f.kind = "end" => f.pieces = {<<f.turn, 0>>}
  /\ <<f.turn, 1>> \in f.pieces => f.kind = "start"
  /\ <<f.turn, 0>> \in f.pieces => f.kind = "end"
  /\ f.turn = 0 => f.pieces = {}

SaidBy(f) == \A x \in f.pieces : IsSaid(x)

\* Every turn that began has said something, and is stored, lost or running.
TurnInv ==
  /\ open => turns \in Turns /\ turns \notin stored \cup lost
  /\ \A t \in Turns :
       /\ t <= turns => said[t] # 0 /\ (t \in stored \cup lost \/ (open /\ t = turns))
       /\ t > turns => said[t] = 0 /\ t \notin stored \cup lost

\* The log is the running turn's, and holds all of it, in order and once, for
\* as long as it retains anything.
LogInv ==
  /\ turnLog.turn = IF open THEN turns ELSE 0
  /\ ~open => ~turnLog.retaining
  /\ turnLog.retaining =>
       LET E == turnLog.entries IN
       /\ \A x \in Content(turns) : \E i \in DOMAIN E : x \in E[i].pieces
       /\ \A i \in DOMAIN E :
            /\ Told(E[i]) /\ SaidBy(E[i]) /\ E[i].turn = turns /\ E[i].seq <= seq
            /\ \A x \in E[i].pieces, y \in Content(turns) :
                 Later(x, y) => \E j \in DOMAIN E : j >= i /\ y \in E[j].pieces
            /\ \A j \in DOMAIN E : j # i => E[i].pieces \cap E[j].pieces = {}

\* h is what the count has numbered: what a turn says after a frame of h is in
\* h behind it, and nothing is in it twice.
PastInv(h) ==
  /\ Len(h) = seq
  /\ \A n \in DOMAIN h :
       /\ h[n].seq = n /\ Told(h[n]) /\ SaidBy(h[n])
       /\ \A x \in h[n].pieces : \A y \in Content(x[1]) :
            Later(x, y) => \E k \in DOMAIN h : k >= n /\ y \in h[k].pieces
       /\ \A k \in DOMAIN h : k # n => h[n].pieces \cap h[k].pieces = {}
  /\ lastAppended = seq /\ Len(ring) <= seq
  /\ \A i \in DOMAIN ring : ring[i] = h[seq - Len(ring) + i]

\* What the count numbered after b, and what is in a pipe behind place i.
Rest(h, b)  == UNION {h[n].pieces : n \in {k \in DOMAIN h : k > b}}
Piped(q, i) == UNION {q[j].pieces : j \in {k \in DOMAIN q : k > i /\ q[k].type = "event"}}

\* Nothing numbered after b has reached page p.
Fresh(p, h, b) == \A n \in DOMAIN h : n > b => h[n].pieces \cap held[p] = {}

\* A turn is all there, or will be, or was asked for, for a page with pieces H
\* that sought turns F, will ask again if g, kept turns P in part and has pieces
\* C on their way.
Accounted(t, H, F, g, P, C) ==
  \/ t \in lost \cup P
  \/ Content(t) \subseteq H \cup C
  \/ t \in stored /\ (t \in F \/ g \/ (<<t, 0>> \in C /\ <<t, 1>> \notin H \cup C))
  \/ t = turns /\ open /\ <<t, 1>> \notin H \cup C /\ ~turnLog.retaining

\* A page in none of the two known gaps, with C on its way to it, has it all, or
\* will have or has asked for it.
HasAll(p, C) ==
  p \notin torn \cup owing =>
    \A t \in 1..turns : Accounted(t, held[p], sought[p], FALSE, patchy[p], C)

\* What a page keeps when a replay is not complete; with only that it has, or
\* will have, it all.
Kept(p, r) == {x \in held[p] : <<x[1], 0>> \notin held[p] /\ x[1] # r.resuming}
KeptHasAll(p, r, C) ==
  \A t \in 1..turns :
    Accounted(t, Kept(p, r), {}, TRUE, {x[1] : x \in Kept(p, r)}, C)

\* No piece is in a pipe twice.
Apart(q) ==
  \A i, j \in DOMAIN q :
    i # j /\ q[i].type = "event" /\ q[j].type = "event" => q[i].pieces \cap q[j].pieces = {}

\* What greet sends: no pieces.
Greeting(p, i) ==
  LET f == pipe[p][i] IN
  \/ i = 1 /\ f.type = "connected"
  \/ /\ f.type = "event" /\ f.kind = "status" /\ f.turn = 0 /\ f.pieces = {}
     /\ f.epoch = asked[p].epoch

\* A page that has not read its replay's header, with c frames of the greeting
\* before it.  The greeting moves its cursor, ahead of what it asked from, but
\* no further than s, where the replay ends.
Asking(p, h, s, c) ==
  /\ earned[p] = asked[p].epoch
  /\ Fresh(p, h, cursor[p]) /\ Fresh(p, h, asked[p].last)
  /\ \A i \in 1..c :
       /\ Greeting(p, i)
       /\ pipe[p][i].type = "connected" => Fresh(p, h, pipe[p][i].lastSeq)
  /\ asked[p].epoch = epoch =>
       /\ asked[p].last <= cursor[p] /\ cursor[p] <= s
       /\ \A i \in 1..c :
            /\ pipe[p][i].type = "connected" =>
                 cursor[p] <= pipe[p][i].lastSeq /\ pipe[p][i].lastSeq <= s
            /\ pipe[p][i].type = "event" => pipe[p][i].seq <= s
       /\ HasAll(p, Rest(h, asked[p].last))

Down(p, h) ==
  /\ pipe[p] = <<>>
  /\ Fresh(p, h, cursor[p])
  /\ earned[p] = epoch => cursor[p] <= seq /\ HasAll(p, Rest(h, cursor[p]))

\* A pipe that was answered: the header of the replay at place a (none left if
\* 0), the replay's frames up to place k, live frames up to e, and the close of
\* a page that fell behind.
Laid(p, q, a, k, e) ==
  /\ a <= k /\ k <= e /\ Len(q) \in {e, e + 1}
  /\ Len(q) = e + 1 => q[e + 1].type = "close" /\ p \notin clients
  /\ a > 0 => q[a].type = "replay" /\ q[a].epoch = epoch
  /\ \A i \in a + 1..e : q[i].type = "event" /\ q[i].epoch = epoch /\ Told(q[i]) /\ SaidBy(q[i])
  /\ \A i \in a + 1..k : ~q[i].live
  /\ \A i \in k + 1..e : q[i].live

\* The replay ends at number s, the live frames are those numbered after it,
\* and of an attached page they are all there are.
Numbered(p, q, h, a, k, e, s) ==
  /\ s + (e - k) <= seq
  /\ p \in clients => s + (e - k) = seq
  /\ a > 0 => q[a].seq = s
  /\ \A i \in a + 1..k :
       /\ q[i].seq <= s
       /\ \A n \in DOMAIN h : n > s => h[n].pieces \cap q[i].pieces = {}
  /\ \A i \in k + 1..e : q[i].seq = s + (i - k) /\ q[i].pieces = h[s + (i - k)].pieces

\* What a turn says after a frame on its way is behind it.
Ordered(q, h, a, e, m) ==
  \A i \in a + 1..e : \A x \in q[i].pieces : \A y \in Content(x[1]) :
    Later(x, y) => y \in Piped(q, i - 1) \cup Rest(h, m)

\* A page reading its pipe gets each thing once and, in the end, everything:
\* what it will hold when the replay's header has been read is H.
Reading(p, q, h, s, m) ==
  /\ IF earned[p] = epoch THEN cursor[p] = s ELSE cursor[p] > s
  /\ Piped(q, 0) \cap held[p] = {}
  /\ HasAll(p, Piped(q, 0) \cup Rest(h, m))

Answered(p, q, h, a, s, m) ==
  /\ Asking(p, h, s, a - 1)
  /\ IF q[a].complete
       THEN Piped(q, 0) \cap held[p] = {} /\ HasAll(p, Piped(q, 0) \cup Rest(h, m))
       ELSE /\ Piped(q, 0) \cap Kept(p, q[a]) = {}
            /\ KeptHasAll(p, q[a], Piped(q, 0) \cup Rest(h, m))

LiveAt(p, q, h, a, k, e, s) ==
  /\ Laid(p, q, a, k, e)
  /\ Numbered(p, q, h, a, k, e, s)
  /\ Ordered(q, h, a, e, s + (e - k))
  /\ Fresh(p, h, s)
  /\ a = 0 => Reading(p, q, h, s, s + (e - k))
  /\ a > 0 => Answered(p, q, h, a, s, s + (e - k))

Live(p, h) ==
  \E a, k, e \in 0..Len(pipe[p]), s \in 0..seq : LiveAt(p, pipe[p], h, a, k, e, s)

\* A page that was closed and reads on what the count before left it.
Stale(p, q, h) ==
  /\ p \notin clients /\ earned[p] # epoch
  /\ \A n \in DOMAIN h : h[n].pieces \cap (held[p] \cup Piped(q, 0)) = {}
  /\ \A i \in DOMAIN q :
       /\ q[i].type = "event" => q[i].epoch < epoch /\ Told(q[i]) /\ SaidBy(q[i])
       /\ q[i].type = "replay" => q[i].epoch < epoch
  /\ \E a \in 0..Len(q) :
       /\ \A i \in DOMAIN q : q[i].type = "replay" <=> i = a
       /\ \A i \in 1..a - 1 : q[i].type = "event" => q[i].pieces = {}
       /\ a = 0 \/ q[a].complete => Piped(q, 0) \cap held[p] = {}
       /\ a > 0 => Piped(q, 0) \cap Kept(p, q[a]) = {}

PageInv(p, h) ==
  /\ \A x \in held[p] : IsSaid(x)
  /\ sought[p] \subseteq stored
  /\ Apart(pipe[p])
  /\ earned[p] <= epoch
  /\ p \in clients => link[p] = "live" /\ Live(p, h)
  /\ link[p] = "down" => Down(p, h)
  /\ link[p] = "greeted" => Asking(p, h, seq, Len(pipe[p]))
  /\ link[p] = "live" => Live(p, h) \/ Stale(p, pipe[p], h)

Story(h) ==
  /\ TypeOK /\ TurnInv /\ LogInv /\ PastInv(h)
  /\ \A p \in Pages : PageInv(p, h)

\* The inductive invariant.
ReplayInv == \E h \in Seq(Frame) : Story(h)

-----------------------------------------------------------------------------
(* The frames after a number                                               *)

\* A set that holds 0 and the successor of each of its numbers holds them all.
LEMMA NatSetInduction ==
  ASSUME NEW S, 0 \in S, \A n \in Nat : n \in S => n + 1 \in S
  PROVE  Nat \subseteq S
<1> SUFFICES ASSUME Nat \ S # {} PROVE FALSE
  OBVIOUS
<1> DEFINE T == {0 .. n - 1 : n \in Nat \ S}
<1>1. IsWellFoundedOn(StrictSubsetOrdering(Nat), FiniteSubsetsOf(Nat))
  BY FS_StrictSubsetOrderingWellFounded
<1>2. T \subseteq FiniteSubsetsOf(Nat) /\ T # {}
  <2>1. ASSUME NEW n \in Nat \ S
        PROVE  0 .. n - 1 \in FiniteSubsetsOf(Nat)
    <3>1. 0 \in Int /\ n - 1 \in Int
      OBVIOUS
    <3>2. IsFiniteSet(0 .. n - 1)
      BY <3>1, FS_Interval
    <3> QED
      BY <3>2 DEF FiniteSubsetsOf
  <2> QED
    BY <2>1
<1>3. PICK X \in T : \A Y \in T : ~ (<<Y, X>> \in StrictSubsetOrdering(Nat))
  <2> HIDE DEF T
  <2> QED
    BY <1>1, <1>2, WFMin
<1>4. PICK x \in Nat \ S : X = 0 .. x - 1
  OBVIOUS
<1>5. x # 0 /\ x - 1 \in Nat
  BY <1>4
<1>6. x - 1 \in S
  <2> SUFFICES ASSUME x - 1 \notin S PROVE FALSE
    OBVIOUS
  <2> DEFINE Y == 0 .. (x - 1) - 1
  <2>1. Y \in T
    BY <1>5
  <2>2. Y \in SUBSET Nat /\ X \in SUBSET Nat
    BY <1>4, <1>5
  <2>3. Y \subseteq X /\ x - 1 \in X /\ x - 1 \notin Y
    BY <1>4, <1>5
  <2>4. <<Y, X>> \in StrictSubsetOrdering(Nat)
    <3> HIDE DEF Y
    <3> QED
      BY <2>2, <2>3 DEF StrictSubsetOrdering
  <2> QED
    BY <2>1, <2>4, <1>3
<1> QED
  BY <1>4, <1>5, <1>6

\* One place further along.
LEMMA OneFurther ==
  \A b, n, last \in Nat : b + (n - 1) > last =>
    /\ (b + (n - 1)) - last \in Nat
    /\ (b + n) - last = ((b + (n - 1)) - last) + 1
    /\ b + n > last
    /\ last + (((b + (n - 1)) - last) + 1) = b + n
OBVIOUS

\* A ring that covers a number has all that was numbered after it, and after
\* takes out just that.
LEMMA AfterIs ==
  ASSUME NEW h \in Seq(Frame), seq \in Nat, ring \in Seq(Frame), PastInv(h),
         NEW last \in Nat, Covers(last)
  PROVE  /\ last <= seq
         /\ After(last) \in Seq(Frame)
         /\ Len(After(last)) = seq - last
         /\ \A i \in 1..seq - last : After(last)[i] = h[last + i]
<1> DEFINE L == Len(ring)
           b == seq - L
           g == [n \in 0..L |-> IF b + n <= last THEN <<>>
                                ELSE [i \in 1..(b + n) - last |-> h[last + i]]]
           Is(f) == f = [n \in 0..L |->
                      IF n = 0 THEN <<>>
                      ELSE IF ring[n].seq > last THEN Append(f[n - 1], ring[n])
                      ELSE f[n - 1]]
           kept == CHOOSE f : Is(f)
<1>1. /\ L \in Nat /\ b \in Nat /\ b + L = seq /\ Len(h) = seq /\ lastAppended = seq
      /\ \A n \in 1..L : ring[n] = h[b + n] /\ ring[n].seq = b + n /\ b + n \in 1..seq
  <2>1. L \in Nat /\ L <= seq /\ Len(h) = seq /\ lastAppended = seq /\ DOMAIN ring = 1..L
    BY DEF PastInv
  <2>2. ASSUME NEW n \in 1..L PROVE ring[n] = h[b + n] /\ h[b + n].seq = b + n /\ b + n \in 1..seq
    <3>1. b + n \in 1..seq
      BY <2>1
    <3> QED
      BY <2>1, <3>1 DEF PastInv
  <2> QED
    BY <2>1, <2>2
<1>2. last \in b..seq
  <2>1. CASE last >= seq
    BY <1>1, <2>1 DEF Covers
  <2>2. CASE ~(last >= seq)
    <3>1. PICK i \in 1..L : ring[i].seq = last + 1
      BY <1>1, <2>2 DEF Covers
    <3> QED
      BY <1>1, <3>1
  <2> QED
    BY <2>1, <2>2
<1>3. \A n \in 1..seq : h[n] \in Frame
  BY <1>1
<1> HIDE DEF L, b
<1>4. ASSUME NEW n \in 0..L
      PROVE  /\ b + n <= last => g[n] = <<>>
             /\ b + n > last => /\ g[n] \in Seq(Frame) /\ Len(g[n]) = (b + n) - last
                                /\ \A i \in 1..(b + n) - last : g[n][i] = h[last + i]
  <2>1. g[n] = IF b + n <= last THEN <<>> ELSE [i \in 1..(b + n) - last |-> h[last + i]]
    OBVIOUS
  <2>2. b + n \in Nat /\ b + n <= seq /\ last \in Nat /\ seq \in Nat
    BY <1>1
  <2> DEFINE d == (b + n) - last
             q == [i \in 1..d |-> h[last + i]]
  <2>3. CASE b + n > last
    <3>1. d \in Nat /\ \A i \in 1..d : last + i \in 1..seq
      BY <2>2, <2>3
    <3> HIDE DEF d
    <3>2. q \in Seq(Frame) /\ Len(q) = d /\ \A i \in 1..d : q[i] = h[last + i]
      BY <3>1, <1>3
    <3>3. g[n] = q
      BY <2>1, <2>2, <2>3 DEF d
    <3> HIDE DEF g, q
    <3> QED
      BY <2>2, <2>3, <3>2, <3>3 DEF d
  <2> QED
    BY <2>1, <2>2, <2>3
<1>5. ASSUME NEW n \in 1..L
      PROVE  g[n] = IF ring[n].seq > last THEN Append(g[n - 1], ring[n]) ELSE g[n - 1]
  <2>1. /\ ring[n].seq = b + n /\ ring[n] = h[b + n] /\ n \in Nat /\ n - 1 \in 0..L /\ n \in 0..L
        /\ b \in Nat /\ b + n \in 1..seq /\ ring[n] \in Frame
    BY <1>1, <1>3
  <2>2. CASE b + n <= last
    <3>1. b + (n - 1) <= last
      BY <2>1, <2>2
    <3> HIDE DEF g
    <3> QED
      BY <1>4, <2>1, <2>2, <3>1
  <2>3. CASE b + n > last /\ b + (n - 1) <= last
    <3>1. b + n = last + 1
      BY <2>1, <2>3
    <3>2. g[n - 1] = <<>>
      <4> HIDE DEF g
      <4> QED
        BY <1>4, <2>1, <2>3
    <3>3. g[n] \in Seq(Frame) /\ Len(g[n]) = 1 /\ g[n][1] = h[last + 1]
      <4> HIDE DEF g
      <4>1. (b + n) - last = 1 /\ last \in Nat
        BY <3>1, <2>1
      <4>2. /\ g[n] \in Seq(Frame) /\ Len(g[n]) = (b + n) - last
            /\ \A i \in 1..(b + n) - last : g[n][i] = h[last + i]
        BY <1>4, <2>1, <2>3
      <4> QED
        BY <4>1, <4>2
    <3>4. Append(<<>>, ring[n]) = <<ring[n]>>
      OBVIOUS
    <3>5. g[n] = <<ring[n]>>
      <4> HIDE DEF g
      <4> QED
        BY <3>1, <3>3, <2>1
    <3> HIDE DEF g
    <3> QED
      BY <2>1, <2>3, <3>2, <3>4, <3>5
  <2>4. CASE b + (n - 1) > last
    <3> DEFINE d == (b + (n - 1)) - last
               u == g[n - 1]
               v == g[n]
    <3>1. d \in Nat /\ (b + n) - last = d + 1 /\ b + n > last /\ last + (d + 1) = b + n
      <4> HIDE DEF g
      <4>1. b \in Nat /\ n \in Nat /\ last \in Nat
        BY <2>1
      <4> QED
        BY <4>1, <2>4, OneFurther
    <3>2. u \in Seq(Frame) /\ Len(u) = d /\ \A i \in 1..d : u[i] = h[last + i]
      <4> HIDE DEF g
      <4> QED
        BY <1>4, <2>1, <2>4
    <3>3. v \in Seq(Frame) /\ Len(v) = d + 1 /\ \A i \in 1..d + 1 : v[i] = h[last + i]
      <4> HIDE DEF g, d
      <4> QED
        BY <1>4, <2>1, <3>1
    <3> HIDE DEF u, v, d
    <3>4. v = Append(u, ring[n])
      <4>1. v[d + 1] = ring[n]
        <5>1. v[d + 1] = h[last + (d + 1)]
          BY <3>1, <3>3
        <5> QED
          BY <5>1, <3>1, <2>1
      <4>3. ASSUME NEW i \in 1..d PROVE v[i] = u[i]
        <5>1. i \in 1..d + 1
          BY <3>1
        <5>2. v[i] = h[last + i] /\ u[i] = h[last + i]
          BY <5>1, <3>2, <3>3
        <5> QED
          BY <5>2
      <4>2. ring[n] \in Frame /\ d \in Nat
        BY <3>1, <2>1
      <4> QED
        BY <4>1, <4>2, <4>3, <3>2, <3>3
    <3> QED
      BY <3>1, <3>4, <2>1 DEF u, v
  <2> QED
    BY <2>1, <2>2, <2>3, <2>4
<1>6. g[0] = <<>> /\ 0 \in 0..L
  <2>1. 0 \in 0..L /\ b + 0 <= last
    BY <1>1, <1>2
  <2> QED
    BY <2>1
<1>7. Is(g)
  <2> DEFINE rhs == [n \in 0..L |->
                      IF n = 0 THEN <<>>
                      ELSE IF ring[n].seq > last THEN Append(g[n - 1], ring[n])
                      ELSE g[n - 1]]
  <2>1. ASSUME NEW n \in 0..L PROVE g[n] = rhs[n]
    <3>1. CASE n = 0
      BY <1>6, <3>1
    <3>2. CASE n # 0
      <4>1. n \in 1..L
        BY <1>1, <3>2
      <4> HIDE DEF g
      <4> QED
        BY <4>1, <3>2, <1>5
    <3> QED
      BY <3>1, <3>2
  <2>2. g = [n \in 0..L |-> g[n]] /\ rhs = [n \in 0..L |-> rhs[n]]
    OBVIOUS
  <2> HIDE DEF g, rhs
  <2>3. g = rhs
    BY <2>1, <2>2
  <2> QED
    BY <2>3 DEF rhs
<1>8. Is(kept)
  <2> HIDE DEF g
  <2> QED
    BY <1>7
<1>9. After(last) = kept[L]
  BY DEF After, L
<1> HIDE DEF kept
<1>10. \A n \in 0..L : kept[n] = IF n = 0 THEN <<>>
                                ELSE IF ring[n].seq > last THEN Append(kept[n - 1], ring[n])
                                ELSE kept[n - 1]
  BY <1>8
<1> DEFINE Agree == {n \in Nat : n <= L => kept[n] = g[n]}
<1> HIDE DEF g
<1>11. Nat \subseteq Agree
  <2>1. 0 \in Agree
    BY <1>6, <1>10
  <2>2. ASSUME NEW n \in Nat, n \in Agree PROVE n + 1 \in Agree
    <3> SUFFICES ASSUME n + 1 <= L PROVE kept[n + 1] = g[n + 1]
      OBVIOUS
    <3>1. n + 1 \in 1..L /\ (n + 1) - 1 = n /\ n + 1 # 0 /\ n + 1 \in 0..L
      BY <1>1
    <3>2. kept[n] = g[n]
      BY <2>2, <1>1
    <3> QED
      BY <3>1, <3>2, <1>5, <1>10
  <2> HIDE DEF Agree
  <2> QED
    BY <2>1, <2>2, NatSetInduction
<1>12. kept[L] = g[L]
  <2>1. L \in Agree
    <3> HIDE DEF Agree
    <3> QED
      BY <1>1, <1>11
  <2> QED
    BY <2>1, <1>1
<1>13. CASE b + L <= last
  <2>1. last = seq /\ After(last) = <<>>
    BY <1>1, <1>2, <1>4, <1>9, <1>12, <1>13
  <2> QED
    BY <2>1
<1>14. CASE b + L > last
  <2>1. L \in 0..L /\ (b + L) - last = seq - last
    BY <1>1
  <2>2. /\ g[L] \in Seq(Frame) /\ Len(g[L]) = (b + L) - last
        /\ \A i \in 1..(b + L) - last : g[L][i] = h[last + i]
    BY <1>4, <1>14, <2>1
  <2> QED
    BY <1>2, <1>9, <1>12, <2>1, <2>2, <1>1
<1> QED
  BY <1>1, <1>13, <1>14

-----------------------------------------------------------------------------
(* What an emission does                                                   *)

\* The server's half of an emission, and what reaches the pages attached.
Emits(f) ==
  /\ f \in Frame /\ f.seq = seq + 1
  /\ seq' = seq + 1
  /\ turnLog' = Logged(turnLog, f)
  /\ PushRing(f)
  /\ SendToSession(f)
  /\ UNCHANGED <<epoch, link, asked, pageVars>>

\* What it tells: pieces nobody has said, after all its turn has said.
Tells(f) ==
  /\ Told(f)
  /\ turns' \in 0..MaxTurns /\ open' \in BOOLEAN /\ said' \in [Turns -> Nat]
  /\ stored' \subseteq Turns /\ stored \subseteq stored' /\ lost' = lost
  /\ \A x \in f.pieces : ~IsSaid(x) /\ IsSaid(x)'
  /\ \A t \in Turns : Content(t)' = Content(t) \cup {x \in f.pieces : x[1] = t}
  /\ \A x \in f.pieces : \A y \in Content(x[1]) : ~Later(x, y)
  /\ turns <= turns' /\ \A t \in turns + 1..turns' : Content(t)' \subseteq f.pieces
  /\ open => turns' = turns /\ (open' \/ (turns \in stored' /\ <<turns, 0>> \in f.pieces))
  /\ f.kind = "start" => /\ ~open /\ open' /\ f.turn = turns'
                         /\ \A t \in Turns : t = turns' => Content(t)' = f.pieces
  /\ f.kind \in {"text", "call"} => open /\ open' /\ f.turn = turns
  /\ f.kind = "end" => open /\ ~open' /\ f.turn = turns
  /\ f.kind = "status" => open' = open /\ f.turn = 0

\* A turn's start, a thing it says, its end and an announcement tell one more
\* piece, or none.
LEMMA Emission ==
  ASSUME TypeOK, TurnInv, TurnStart \/ Say \/ TurnEnd \/ Announce
  PROVE  TurnInv' /\ \E f : Emits(f) /\ Tells(f)
<1>0. /\ turns \in 0..MaxTurns /\ open \in BOOLEAN /\ said \in [Turns -> Nat]
      /\ stored \subseteq Turns /\ lost \subseteq Turns /\ seq \in Nat
      /\ MaxTurns \in Nat /\ Turns = 1..MaxTurns
  BY ReplayAssumption DEF TypeOK, Turns
<1>1. ASSUME NEW kind \in Kinds, NEW t \in 0..MaxTurns, NEW pieces \in SUBSET Pieces,
             Emit(kind, t, pieces)
      PROVE  \E f : Emits(f) /\ f.kind = kind /\ f.turn = t /\ f.pieces = pieces
  <2> DEFINE f == [type |-> "event", kind |-> kind, seq |-> seq + 1, turn |-> t,
                   pieces |-> pieces]
  <2>1. f \in Frame
    BY <1>0 DEF Frame
  <2>2. f.kind = kind /\ f.turn = t /\ f.pieces = pieces /\ f.seq = seq + 1
    OBVIOUS
  <2>3. Emits(f)
    BY <1>1, <2>1 DEF Emit, Emits
  <2> QED
    BY <2>2, <2>3
<1>2. CASE TurnStart
  <2>0. PICK t : t = turns + 1
    OBVIOUS
  <2> DEFINE x == <<t, 1>>
  <2>1. t \in Turns /\ t \in 0..MaxTurns /\ x \in Pieces /\ t # 0 /\ {x} \in SUBSET Pieces
    BY <1>0, <1>2, <2>0 DEF TurnStart, Pieces
  <2>2. /\ turns' = t /\ open' = TRUE /\ said' = [said EXCEPT ![t] = 1] /\ ~open
        /\ Emit("start", t, {x}) /\ UNCHANGED <<stored, lost>>
    BY <1>2, <2>0 DEF TurnStart
  <2>3. said[t] = 0 /\ t \notin stored \cup lost
    BY <1>0, <2>0, <2>1 DEF TurnInv
  <2>4. TurnInv'
    BY <1>0, <2>0, <2>1, <2>2, <2>3 DEF TurnInv
  <2>5. Content(t) = {} /\ Content(t)' = {x}
    <3>1. said'[t] = 1 /\ stored' = stored /\ 1..1 = {1} /\ 1..0 = {}
      BY <1>0, <2>1, <2>2
    <3> QED
      BY <2>3, <3>1 DEF Content
  <2>6. ASSUME NEW u \in Turns, u # t PROVE Content(u)' = Content(u)
    <3>1. said'[u] = said[u] /\ stored' = stored
      BY <1>0, <2>1, <2>2, <2>6
    <3> QED
      BY <3>1 DEF Content
  <2>7. x[1] = t /\ x[2] = 1 /\ "start" \in Kinds
    BY DEF Kinds
  <2>8. said' \in [Turns -> Nat]
    BY <1>0, <2>1, <2>2
  <2> HIDE DEF x
  <2>9. PICK f : Emits(f) /\ f.kind = "start" /\ f.turn = t /\ f.pieces = {x}
    BY <1>1, <2>1, <2>2, <2>7
  <2>10. Told(f)
    BY <2>1, <2>7, <2>9 DEF Told, x
  <2>11. ~IsSaid(x) /\ IsSaid(x)'
    BY <2>1, <2>5, <2>7 DEF IsSaid, Turns
  <2>12. \A u \in Turns : Content(u)' = Content(u) \cup {y \in f.pieces : y[1] = u}
    BY <2>5, <2>6, <2>7, <2>9
  <2>13. \A u \in turns + 1..turns' : u = t
    BY <1>0, <2>0, <2>2
  <2>14. Tells(f)
    <3>1. turns' \in 0..MaxTurns /\ open' \in BOOLEAN /\ turns <= turns'
      BY <1>0, <2>0, <2>1, <2>2
    <3>2. \A u \in turns + 1..turns' : Content(u)' \subseteq f.pieces
      BY <2>5, <2>9, <2>13
    <3>3. \A y \in f.pieces : \A z \in Content(y[1]) : ~Later(y, z)
      BY <2>5, <2>7, <2>9
    <3>4. \A u \in Turns : u = turns' => Content(u)' = f.pieces
      BY <2>2, <2>5, <2>9
    <3> QED
      BY <1>0, <2>2, <2>8, <2>9, <2>10, <2>11, <2>12, <3>1, <3>2, <3>3, <3>4 DEF Tells
  <2> QED
    BY <2>4, <2>9, <2>14
<1>3. CASE Say
  <2>0. PICK t, n, kind : t = turns /\ n = said[turns] + 1 /\ kind = Script[turns][said[turns]]
    OBVIOUS
  <2> DEFINE x == <<t, n>>
  <2>1. /\ t \in Turns /\ t \in 0..MaxTurns /\ open /\ said[t] \in Nat /\ said[t] # 0
        /\ t \notin stored \cup lost /\ n = said[t] + 1
    BY <1>0, <1>3, <2>0 DEF Say, TurnInv
  <2>2. n \in Nat /\ n > 1 /\ x \in Pieces /\ t # 0 /\ {x} \in SUBSET Pieces
    BY <1>0, <2>1 DEF Pieces
  <2>3. kind \in {"text", "call"} /\ kind \in Kinds
    <3>1. Script[t] \in Seq({"text", "call"})
      BY <2>1, ReplayAssumption DEF Turns
    <3>2. said[t] <= Len(Script[t])
      BY <1>3, <2>0 DEF Say
    <3> QED
      BY <2>0, <2>1, <3>1, <3>2 DEF Kinds
  <2>4. /\ said' = [said EXCEPT ![t] = n] /\ Emit(kind, t, {x})
        /\ UNCHANGED <<turns, open, stored, lost>>
    BY <1>3, <2>0 DEF Say
  <2>5. said' \in [Turns -> Nat] /\ said'[t] = n /\ \A u \in Turns : u # t => said'[u] = said[u]
    BY <1>0, <2>1, <2>2, <2>4
  <2>6. TurnInv'
    BY <1>0, <2>0, <2>1, <2>2, <2>4, <2>5 DEF TurnInv
  <2>7. /\ Content(t) = {<<t, i>> : i \in 1..said[t]}
        /\ Content(t)' = {<<t, i>> : i \in 1..n}
    BY <2>1, <2>4, <2>5 DEF Content
  <2>8. Content(t)' = Content(t) \cup {x} /\ x \notin Content(t)
    <3>1. 1..n = (1..said[t]) \cup {n} /\ n \notin 1..said[t]
      BY <2>1
    <3> QED
      BY <2>7, <3>1
  <2>9. ASSUME NEW u \in Turns, u # t PROVE Content(u)' = Content(u)
    <3>1. said'[u] = said[u] /\ stored' = stored
      BY <2>4, <2>5, <2>9
    <3> QED
      BY <3>1 DEF Content
  <2>10. \A y \in Content(t) : ~Later(x, y)
    <3> SUFFICES ASSUME NEW i \in 1..said[t], Later(x, <<t, i>>) PROVE FALSE
      BY <2>7
    <3> QED
      BY <2>1 DEF Later
  <2>11. x[1] = t /\ x[2] = n
    OBVIOUS
  <2>12. PICK f : Emits(f) /\ f.kind = kind /\ f.turn = t /\ f.pieces = {x}
    BY <1>1, <2>1, <2>2, <2>3, <2>4
  <2>13. Told(f)
    <3>1. x # <<t, 1>> /\ x # <<t, 0>>
      BY <2>2
    <3> HIDE DEF x
    <3> QED
      BY <2>2, <2>3, <2>11, <2>12, <3>1 DEF Told
  <2> HIDE DEF x
  <2>14. ~IsSaid(x) /\ IsSaid(x)'
    BY <2>1, <2>8, <2>11 DEF IsSaid, Turns
  <2>15. \A u \in Turns : Content(u)' = Content(u) \cup {y \in f.pieces : y[1] = u}
    BY <2>8, <2>9, <2>11, <2>12
  <2>16. Tells(f)
    <3>1. turns' = turns /\ turns <= turns' /\ turns + 1..turns' = {}
      BY <1>0, <2>4
    <3>2. \A y \in f.pieces : \A z \in Content(y[1]) : ~Later(y, z)
      BY <2>10, <2>11, <2>12
    <3> QED
      BY <1>0, <2>0, <2>1, <2>3, <2>4, <2>5, <2>12, <2>13, <2>14, <2>15, <3>1, <3>2 DEF Tells
  <2> QED
    BY <2>6, <2>12, <2>16
<1>4. CASE TurnEnd
  <2>0. PICK t : t = turns
    OBVIOUS
  <2> DEFINE x == <<t, 0>>
  <2>1. /\ t \in Turns /\ t \in 0..MaxTurns /\ open /\ said[t] \in Nat /\ said[t] # 0
        /\ t \notin stored \cup lost /\ x \in Pieces /\ t # 0 /\ {x} \in SUBSET Pieces
    BY <1>0, <1>4, <2>0 DEF TurnEnd, TurnInv, Pieces
  <2>2. /\ open' = FALSE /\ stored' = stored \cup {t} /\ Emit("end", t, {x})
        /\ UNCHANGED <<turns, said, lost>>
    BY <1>4, <2>0 DEF TurnEnd
  <2>3. TurnInv'
    BY <1>0, <2>0, <2>1, <2>2 DEF TurnInv
  <2>4. /\ Content(t) = {<<t, i>> : i \in 1..said[t]}
        /\ Content(t)' = {<<t, i>> : i \in 1..said[t]} \cup {x}
    BY <2>1, <2>2 DEF Content
  <2>5. x \notin Content(t) /\ Content(t)' = Content(t) \cup {x}
    <3>1. 0 \notin 1..said[t]
      BY <2>1
    <3> QED
      BY <2>4, <3>1
  <2>6. ASSUME NEW u \in Turns, u # t PROVE Content(u)' = Content(u)
    <3>1. said'[u] = said[u] /\ (u \in stored' <=> u \in stored)
      BY <2>2, <2>6
    <3> QED
      BY <3>1 DEF Content
  <2>7. \A y \in Content(t) : ~Later(x, y)
    <3> SUFFICES ASSUME NEW i \in 1..said[t], Later(x, <<t, i>>) PROVE FALSE
      BY <2>4
    <3> QED
      BY <2>1 DEF Later
  <2>8. x[1] = t /\ x[2] = 0 /\ x # <<t, 1>> /\ "end" \in Kinds
    BY DEF Kinds
  <2>9. PICK f : Emits(f) /\ f.kind = "end" /\ f.turn = t /\ f.pieces = {x}
    BY <1>1, <2>1, <2>2, <2>8
  <2>10. Told(f) /\ <<turns, 0>> \in f.pieces
    <3>1. <<t, 0>> = x
      OBVIOUS
    <3> HIDE DEF x
    <3> QED
      BY <2>0, <2>1, <2>8, <2>9, <3>1 DEF Told
  <2> HIDE DEF x
  <2>12. ~IsSaid(x) /\ IsSaid(x)'
    BY <2>1, <2>5, <2>8 DEF IsSaid, Turns
  <2>13. \A u \in Turns : Content(u)' = Content(u) \cup {y \in f.pieces : y[1] = u}
    BY <2>5, <2>6, <2>8, <2>9
  <2>14. Tells(f)
    <3>1. turns' = turns /\ turns <= turns' /\ turns + 1..turns' = {}
      BY <1>0, <2>2
    <3>2. \A y \in f.pieces : \A z \in Content(y[1]) : ~Later(y, z)
      BY <2>7, <2>8, <2>9
    <3>3. turns \in stored' /\ stored' \subseteq Turns /\ stored \subseteq stored'
      BY <1>0, <2>0, <2>1, <2>2
    <3> QED
      BY <1>0, <2>0, <2>1, <2>2, <2>9, <2>10, <2>12, <2>13, <3>1, <3>2, <3>3 DEF Tells
  <2> QED
    BY <2>3, <2>9, <2>14
<1>5. CASE Announce
  <2>1. Emit("status", 0, {}) /\ UNCHANGED <<turns, said, open, stored, lost>>
    BY <1>5 DEF Announce, turnVars
  <2>2. TurnInv'
    BY <2>1 DEF TurnInv
  <2>3. \A t \in Turns : Content(t)' = Content(t)
    BY <2>1 DEF Content
  <2>4. "status" \in Kinds /\ 0 \in 0..MaxTurns /\ {} \in SUBSET Pieces
    BY <1>0 DEF Kinds
  <2>5. PICK f : Emits(f) /\ f.kind = "status" /\ f.turn = 0 /\ f.pieces = {}
    BY <1>1, <2>1, <2>4
  <2>6. Told(f)
    BY <2>5 DEF Told
  <2>7. Tells(f)
    <3>1. turns <= turns' /\ turns + 1..turns' = {}
      BY <1>0, <2>1
    <3> QED
      BY <1>0, <2>1, <2>3, <2>5, <2>6, <3>1 DEF Tells
  <2> QED
    BY <2>2, <2>5, <2>7
<1> QED
  BY <1>2, <1>3, <1>4, <1>5

-----------------------------------------------------------------------------
(* The log                                                                 *)

LogType == [turn : 0..MaxTurns, retaining : BOOLEAN, entries : Seq(Frame), bytes : 0..LogBytes]

\* charge keeps the log's shape, and either counts or lets everything go.
LEMMA ChargedIs ==
  ASSUME NEW log, NEW n \in Nat,
         log \in [turn : 0..MaxTurns, retaining : BOOLEAN, entries : Seq(Frame), bytes : Nat]
  PROVE  /\ Charged(log, n) \in LogType
         /\ Charged(log, n).turn = log.turn
         /\ Charged(log, n).retaining =>
              log.retaining /\ Charged(log, n).entries = log.entries
<1>0. LogBytes \in Nat /\ 0 \in 0..LogBytes /\ <<>> \in Seq(Frame)
  BY ReplayAssumption
<1>1. log.bytes + n \in Nat
  OBVIOUS
<1>2. CASE log.bytes + n > LogBytes
  <2>1. Charged(log, n) = [log EXCEPT !.retaining = FALSE, !.entries = <<>>, !.bytes = 0]
    BY <1>2 DEF Charged
  <2> QED
    BY <1>0, <2>1 DEF LogType
<1>3. CASE ~(log.bytes + n > LogBytes)
  <2>1. Charged(log, n) = [log EXCEPT !.bytes = log.bytes + n]
    BY <1>3 DEF Charged
  <2>2. log.bytes + n \in 0..LogBytes
    BY <1>0, <1>1, <1>3
  <2> QED
    BY <2>1, <2>2 DEF LogType
<1> QED
  BY <1>2, <1>3

\* append puts a frame last, or joins it to a delta that is last.
LEMMA AppendedIs ==
  ASSUME NEW log \in LogType, NEW f \in Frame
  PROVE  LET r == Appended(log, f)
             E == log.entries
         IN /\ r \in LogType /\ r.turn = log.turn
            /\ r.retaining =>
                 /\ log.retaining
                 /\ \/ r.entries = Append(E, f)
                    \/ /\ Len(E) # 0 /\ f.kind = "text" /\ E[Len(E)].kind = "text"
                       /\ r.entries = [E EXCEPT ![Len(E)] = Joined(E[Len(E)], f)]
<1> DEFINE E == log.entries
           r == Appended(log, f)
<1>0. /\ E \in Seq(Frame) /\ Len(E) \in Nat /\ log.bytes \in Nat /\ log.turn \in 0..MaxTurns
      /\ log.retaining \in BOOLEAN
      /\ log = [turn |-> log.turn, retaining |-> log.retaining, entries |-> E, bytes |-> log.bytes]
  BY ReplayAssumption DEF LogType
<1>1. \A kind : Payload(kind) \in Nat
  BY DEF Payload
<1>2. CASE f.kind = "text" /\ E # <<>> /\ Last(E).kind = "text"
  <2> DEFINE g == Joined(E[Len(E)], f)
             E2 == [E EXCEPT ![Len(E)] = g]
             b == [log EXCEPT !.entries = E2]
  <2>1. Len(E) \in 1..Len(E) /\ Last(E) = E[Len(E)] /\ E[Len(E)] \in Frame
    BY <1>0, <1>2 DEF Last
  <2>2. g \in Frame
    BY <2>1 DEF Joined, Frame
  <2>3. E2 \in Seq(Frame)
    <3> HIDE DEF g, E
    <3> QED
      BY <1>0, <2>1, <2>2
  <2>4. r = Charged(b, Payload("text"))
    <3> DEFINE c == [log EXCEPT !.entries[Len(log.entries)] = Joined(Last(log.entries), f)]
    <3>1. r = Charged(c, Payload("text"))
      <4>1. E # <<>> /\ Last(E).kind = "text" /\ f.kind = "text"
        BY <1>2
      <4> QED
        BY <4>1 DEF Appended
    <3>2. c = b
      BY <2>1
    <3> HIDE DEF c, b, r
    <3> QED
      BY <3>1, <3>2
  <2>5. b = [turn |-> log.turn, retaining |-> log.retaining, entries |-> E2, bytes |-> log.bytes]
    BY <1>0
  <2> HIDE DEF E2, E, r, b
  <2>6. /\ b \in [turn : 0..MaxTurns, retaining : BOOLEAN, entries : Seq(Frame), bytes : Nat]
        /\ b.turn = log.turn /\ b.retaining = log.retaining /\ b.entries = E2
    BY <1>0, <2>3, <2>5
  <2>7. /\ r \in LogType /\ r.turn = log.turn
        /\ r.retaining => log.retaining /\ r.entries = E2
    BY <1>1, <2>4, <2>6, ChargedIs
  <2>8. Len(E) # 0 /\ E[Len(E)].kind = "text"
    BY <1>2, <2>1, <1>0
  <2> QED
    BY <2>7, <2>8, <1>2 DEF E2, E, r
<1>3. CASE ~(f.kind = "text" /\ E # <<>> /\ Last(E).kind = "text")
  <2> DEFINE E2 == Append(E, f)
             b == [log EXCEPT !.entries = E2]
  <2>3. E2 \in Seq(Frame)
    BY <1>0
  <2>4. r = Charged(b, Payload(f.kind) + Overhead)
    BY <1>3 DEF Appended
  <2> HIDE DEF E2
  <2>5. b = [turn |-> log.turn, retaining |-> log.retaining, entries |-> E2, bytes |-> log.bytes]
    BY <1>0
  <2> HIDE DEF E, r, b
  <2>6. /\ b \in [turn : 0..MaxTurns, retaining : BOOLEAN, entries : Seq(Frame), bytes : Nat]
        /\ b.turn = log.turn /\ b.retaining = log.retaining /\ b.entries = E2
    BY <1>0, <2>3, <2>5
  <2>7. Payload(f.kind) + Overhead \in Nat
    BY <1>1 DEF Overhead
  <2>8. /\ r \in LogType /\ r.turn = log.turn
        /\ r.retaining => log.retaining /\ r.entries = E2
    BY <2>7, <2>4, <2>6, ChargedIs
  <2> QED
    BY <2>8 DEF E2, E, r
<1> QED
  BY <1>2, <1>3

\* What a frame of a turn does to the log.
LEMMA LoggedIs ==
  ASSUME NEW log \in LogType, NEW f \in Frame
  PROVE  LET r == Logged(log, f)
             E == log.entries
         IN /\ r \in LogType
            /\ f.kind = "start" =>
                 r.turn = f.turn /\ (r.retaining => r.entries = <<f>>)
            /\ f.kind = "end" /\ f.turn = log.turn => r = NoLog
            /\ f.kind = "status" => r = log
            /\ f.kind \in {"text", "call"} /\ f.turn = log.turn =>
                 /\ r.turn = log.turn
                 /\ r.retaining =>
                    /\ log.retaining
                    /\ \/ r.entries = Append(E, f)
                       \/ /\ Len(E) # 0 /\ f.kind = "text" /\ E[Len(E)].kind = "text"
                          /\ r.entries = [E EXCEPT ![Len(E)] = Joined(E[Len(E)], f)]
<1>0. LogBytes \in Nat /\ MaxTurns \in Nat /\ NoLog \in LogType
  <2>1. LogBytes \in Nat /\ MaxTurns \in Nat
    BY ReplayAssumption
  <2>2. 0 \in 0..MaxTurns /\ 0 \in 0..LogBytes /\ <<>> \in Seq(Frame)
    BY <2>1
  <2> QED
    BY <2>1, <2>2 DEF NoLog, LogType
<1>1. CASE f.kind = "start"
  <2> DEFINE some == LogBytes > 0
             begun == [NoLog EXCEPT !.turn = f.turn, !.retaining = some]
  <2>2. f.turn \in 0..MaxTurns /\ some \in BOOLEAN
    BY <1>0 DEF Frame
  <2>3. Logged(log, f) = IF begun.retaining THEN Appended(begun, f) ELSE begun
    BY <1>1 DEF Logged
  <2> HIDE DEF some
  <2>4. begun \in LogType /\ begun.turn = f.turn /\ begun.entries = <<>>
    <3>1. begun \in LogType
      BY <1>0, <2>2 DEF LogType
    <3>2. begun.turn = f.turn /\ begun.entries = NoLog.entries
      BY <1>0 DEF LogType
    <3> QED
      BY <3>1, <3>2 DEF NoLog
  <2> HIDE DEF begun
  <2>5. /\ Appended(begun, f) \in LogType /\ Appended(begun, f).turn = f.turn
        /\ Appended(begun, f).retaining => Appended(begun, f).entries = Append(<<>>, f)
    BY <2>4, AppendedIs
  <2>6. Append(<<>>, f) = <<f>>
    OBVIOUS
  <2> QED
    BY <1>1, <2>3, <2>4, <2>5, <2>6
<1>2. CASE f.kind = "end"
  BY <1>0, <1>2 DEF Logged
<1>3. CASE f.kind = "status"
  BY <1>0, <1>3 DEF Logged
<1>4. CASE f.kind \in {"text", "call"}
  <2>1. Logged(log, f) = IF log.retaining /\ f.turn = log.turn THEN Appended(log, f) ELSE log
    BY <1>4 DEF Logged
  <2>2. CASE log.retaining /\ f.turn = log.turn
    BY <1>4, <2>1, <2>2, AppendedIs
  <2>3. CASE ~(log.retaining /\ f.turn = log.turn)
    BY <1>4, <2>1, <2>3
  <2> QED
    BY <2>2, <2>3
<1>5. f.kind \in {"start", "text", "call", "end", "status"}
  BY DEF Frame, Kinds
<1> QED
  BY <1>1, <1>2, <1>3, <1>4, <1>5

-----------------------------------------------------------------------------
(* What is on its way                                                      *)

\* The fields of what a pipe may hold.
LEMMA OutboundIs ==
  ASSUME NEW g \in Outbound
  PROVE  /\ g.type \in {"event", "connected", "replay", "close"}
         /\ g.type = "event" =>
              /\ g.kind \in Kinds /\ g.seq \in Nat /\ g.turn \in 0..MaxTurns
              /\ g.pieces \subseteq Pieces /\ g.live \in BOOLEAN /\ g.epoch \in Nat
         /\ g.type = "connected" => g.lastSeq \in Nat
         /\ g.type = "replay" =>
              /\ g.seq \in Nat /\ g.complete \in BOOLEAN
              /\ g.resuming \in 0..MaxTurns /\ g.epoch \in Nat
BY DEF Outbound

\* A frame as it is sent.
LEMMA EventIs ==
  ASSUME NEW f \in Frame, NEW live \in BOOLEAN, epoch \in Nat
  PROVE  /\ Event(f, live) \in Outbound
         /\ Event(f, live).type = "event" /\ Event(f, live).kind = f.kind
         /\ Event(f, live).seq = f.seq /\ Event(f, live).turn = f.turn
         /\ Event(f, live).pieces = f.pieces /\ Event(f, live).live = live
         /\ Event(f, live).epoch = epoch
BY DEF Event, Outbound, Frame

\* A close is a frame of its own kind.
LEMMA CloseIs == [type |-> "close"] \in Outbound /\ [type |-> "close"].type = "close"
BY DEF Outbound

\* The ring after a push is the end of what it was and the new frame.
LEMMA PushIs ==
  ASSUME ring \in Seq(Frame), NEW f \in Frame, PushRing(f)
  PROVE  /\ lastAppended' = f.seq /\ ring' \in Seq(Frame)
         /\ Len(ring') <= Len(ring) + 1
         /\ \A i \in 1..Len(ring') :
              LET j == (Len(ring) + 1) - Len(ring') + i IN
              ring'[i] = IF j = Len(ring) + 1 THEN f ELSE ring[j]
<1> DEFINE all == Append(ring, f)
<1>1. /\ all \in Seq(Frame) /\ Len(all) = Len(ring) + 1 /\ Len(ring) \in Nat
      /\ \A i \in 1..Len(ring) + 1 : all[i] = IF i = Len(ring) + 1 THEN f ELSE ring[i]
  OBVIOUS
<1>2. /\ lastAppended' = f.seq
      /\ \E k \in 1..(Len(all) + 1) : ring' = From(all, k)
  BY DEF PushRing
<1> HIDE DEF all
<1>3. PICK k \in 1..(Len(all) + 1) : ring' = From(all, k)
  BY <1>2
<1>4. /\ ring' \in Seq(Frame) /\ Len(ring') = Len(all) - k + 1
      /\ \A i \in 1..(Len(all) - k + 1) : ring'[i] = all[k + i - 1]
  BY <1>1, <1>3, FromIsSeq
<1>5. ASSUME NEW i \in 1..Len(ring')
      PROVE  LET j == (Len(ring) + 1) - Len(ring') + i IN
             ring'[i] = IF j = Len(ring) + 1 THEN f ELSE ring[j]
  <2> DEFINE j == (Len(ring) + 1) - Len(ring') + i
  <2>1. j = k + i - 1 /\ j \in 1..Len(ring) + 1 /\ i \in 1..(Len(all) - k + 1)
    BY <1>1, <1>4
  <2>2. ring'[i] = all[j]
    BY <1>4, <2>1
  <2> HIDE DEF j
  <2>3. ring'[i] = IF j = Len(ring) + 1 THEN f ELSE ring[j]
    BY <1>1, <2>1, <2>2
  <2> QED
    BY <2>3 DEF j
<1> QED
  BY <1>1, <1>2, <1>4, <1>5

\* The shapes after an emission.
LEMMA EmissionTypes ==
  ASSUME TypeOK, NEW f, Emits(f), Tells(f)
  PROVE  TypeOK'
<1>0. /\ f \in Frame /\ f.seq = seq + 1 /\ seq' = seq + 1 /\ seq \in Nat /\ epoch \in Nat
      /\ UNCHANGED <<epoch, link, asked, pageVars>>
      /\ turnLog' = Logged(turnLog, f) /\ PushRing(f) /\ SendToSession(f)
  BY DEF Emits, TypeOK
<1>1. turnLog' \in LogType
  <2>1. turnLog \in LogType
    BY DEF TypeOK, LogType
  <2> QED
    BY <1>0, <2>1, LoggedIs
<1>2. ring' \in Seq(Frame) /\ lastAppended' \in Nat
  BY <1>0, PushIs DEF TypeOK
<1>3. pipe' \in [Pages -> Seq(Outbound)]
  <2>1. Event(f, TRUE) \in Outbound /\ [type |-> "close"] \in Outbound
    BY <1>0, EventIs, CloseIs
  <2>2. \A p \in Pages : pipe[p] \in Seq(Outbound)
    BY DEF TypeOK
  <2>3. ASSUME NEW p \in Pages, NEW g \in Outbound PROVE Append(pipe[p], g) \in Seq(Outbound)
    BY <2>2
  <2>4. pipe' = [p \in Pages |->
            IF p \notin clients THEN pipe[p]
            ELSE IF Behind(p, f) THEN Append(pipe[p], [type |-> "close"])
            ELSE Append(pipe[p], Event(f, TRUE))]
    BY <1>0 DEF SendToSession
  <2> HIDE DEF SendToSession
  <2>5. ASSUME NEW p \in Pages
        PROVE  (IF p \notin clients THEN pipe[p]
                ELSE IF Behind(p, f) THEN Append(pipe[p], [type |-> "close"])
                ELSE Append(pipe[p], Event(f, TRUE))) \in Seq(Outbound)
    BY <2>1, <2>2, <2>3
  <2> QED
    BY <2>4, <2>5
<1>4. clients' \subseteq Pages
  BY <1>0 DEF SendToSession, TypeOK
<1>5. /\ turns' \in 0..MaxTurns /\ open' \in BOOLEAN /\ said' \in [Turns -> Nat]
      /\ stored' \subseteq Turns /\ lost' \subseteq Turns
  BY DEF Tells, TypeOK
<1>6. seq' \in Nat
  BY <1>0
<1> QED
  BY <1>0, <1>1, <1>2, <1>3, <1>4, <1>5, <1>6 DEF TypeOK, LogType, pageVars

\* What was said stays said, and nothing that was said is told again.
LEMMA TellsNew ==
  ASSUME NEW f, Tells(f)
  PROVE  /\ \A x : IsSaid(x) => IsSaid(x)' /\ x \notin f.pieces
         /\ \A g : SaidBy(g) => SaidBy(g)' /\ g.pieces \cap f.pieces = {}
         /\ \A t \in Turns : \A y : y \in Content(t)' => y \in Content(t) \/ (y \in f.pieces /\ y[1] = t)
         /\ \A x \in f.pieces, t \in Turns : x[1] = t => x \in Content(t)'
<1>1. \A t \in Turns : Content(t)' = Content(t) \cup {x \in f.pieces : x[1] = t}
  BY DEF Tells
<1>2. \A x : IsSaid(x) => IsSaid(x)' /\ x \notin f.pieces
  <2>1. \A x \in f.pieces : ~IsSaid(x)
    BY DEF Tells
  <2>2. Turns' = Turns
    BY DEF Turns
  <2> QED
    BY <1>1, <2>1, <2>2 DEF IsSaid
<1>3. \A g : SaidBy(g) => SaidBy(g)' /\ g.pieces \cap f.pieces = {}
  BY <1>2 DEF SaidBy
<1> QED
  BY <1>1, <1>2, <1>3

\* The history after an emission is one frame longer.
LEMMA EmissionPast ==
  ASSUME TypeOK, NEW f, Emits(f), Tells(f), NEW h \in Seq(Frame), PastInv(h)
  PROVE  PastInv(Append(h, f))'
<1>0. /\ f \in Frame /\ f.seq = seq + 1 /\ seq' = seq + 1 /\ seq \in Nat
      /\ PushRing(f) /\ ring \in Seq(Frame)
  BY DEF Emits, TypeOK
<1>1. PICK g : g = Append(h, f)
  OBVIOUS
<1>2. /\ Len(h) = seq /\ lastAppended = seq /\ Len(ring) <= seq
      /\ DOMAIN h = 1..seq /\ DOMAIN ring = 1..Len(ring) /\ Len(ring) \in Nat
  BY <1>0 DEF PastInv
<1>3. /\ Len(g) = seq + 1 /\ DOMAIN g = 1..seq + 1 /\ g[seq + 1] = f
      /\ \A n \in 1..seq : g[n] = h[n]
  BY <1>0, <1>1, <1>2
<1>4. /\ Told(f) /\ SaidBy(f)' /\ \A x \in f.pieces : x[1] \in Turns
      /\ \A x \in f.pieces : \A y \in Content(x[1]) : ~Later(x, y)
  <2>1. Turns' = Turns
    BY DEF Turns
  <2> QED
    BY <2>1 DEF Tells, SaidBy, IsSaid
<1>5. ASSUME NEW n \in 1..seq
      PROVE  /\ h[n].seq = n /\ Told(h[n]) /\ SaidBy(h[n])
             /\ \A x \in h[n].pieces : x[1] \in Turns /\ \A y \in Content(x[1]) :
                  Later(x, y) => \E k \in 1..seq : k >= n /\ y \in h[k].pieces
             /\ \A k \in 1..seq : k # n => h[n].pieces \cap h[k].pieces = {}
  BY <1>2 DEF PastInv, SaidBy, IsSaid
<1>6. ASSUME NEW n \in 1..seq + 1
      PROVE  /\ g[n].seq = n /\ Told(g[n]) /\ SaidBy(g[n])'
             /\ \A x \in g[n].pieces : \A y \in Content(x[1])' :
                  Later(x, y) => \E k \in 1..seq + 1 : k >= n /\ y \in g[k].pieces
             /\ \A k \in 1..seq + 1 : k # n => g[n].pieces \cap g[k].pieces = {}
  <2>0. CASE n = seq + 1
    <3>1. g[n] = f
      BY <1>3, <2>0
    <3>2. ASSUME NEW x \in f.pieces, NEW y \in Content(x[1])', Later(x, y) PROVE y \in f.pieces
      BY <1>4, <3>2, TellsNew
    <3>3. ASSUME NEW k \in 1..seq + 1, k # n PROVE f.pieces \cap g[k].pieces = {}
      <4>1. k \in 1..seq /\ SaidBy(g[k])
        BY <1>0, <1>3, <1>5, <2>0, <3>3
      <4> QED
        BY <4>1, TellsNew
    <3>4. \A x \in g[n].pieces : \A y \in Content(x[1])' :
            Later(x, y) => \E k \in 1..seq + 1 : k >= n /\ y \in g[k].pieces
      BY <1>0, <2>0, <3>1, <3>2
    <3> QED
      BY <1>0, <1>4, <2>0, <3>1, <3>3, <3>4
  <2>1. CASE n # seq + 1
    <3>1. n \in 1..seq /\ g[n] = h[n]
      BY <1>0, <1>3, <2>1
    <3>2. g[n].seq = n /\ Told(g[n]) /\ SaidBy(g[n]) /\ SaidBy(g[n])' /\ g[n].pieces \cap f.pieces = {}
      BY <1>5, <3>1, TellsNew
    <3>3. ASSUME NEW x \in g[n].pieces, NEW y \in Content(x[1])', Later(x, y)
          PROVE  \E k \in 1..seq + 1 : k >= n /\ y \in g[k].pieces
      <4>1. x[1] \in Turns
        BY <1>5, <3>1
      <4>2. CASE y \in f.pieces
        BY <1>0, <1>3, <3>1, <4>2
      <4>3. CASE y \in Content(x[1])
        <5>1. PICK k \in 1..seq : k >= n /\ y \in h[k].pieces
          BY <1>5, <3>1, <3>3, <4>3
        <5> QED
          BY <1>0, <1>3, <5>1
      <4> QED
        BY <4>1, <4>2, <4>3, TellsNew
    <3>4. ASSUME NEW k \in 1..seq + 1, k # n PROVE g[n].pieces \cap g[k].pieces = {}
      <4>1. CASE k = seq + 1
        BY <1>3, <3>2, <4>1
      <4>2. CASE k # seq + 1
        <5>1. k \in 1..seq
          BY <1>0, <4>2
        <5> QED
          BY <1>3, <1>5, <3>1, <3>4, <5>1
      <4> QED
        BY <4>1, <4>2
    <3> QED
      BY <3>2, <3>3, <3>4
  <2> QED
    BY <2>0, <2>1
<1>7. /\ lastAppended' = seq' /\ Len(ring') <= seq' /\ ring' \in Seq(Frame)
  BY <1>0, <1>2, PushIs
<1>8. ASSUME NEW i \in 1..Len(ring') PROVE ring'[i] = g[(seq' - Len(ring')) + i]
  <2> DEFINE L == Len(ring)
             M == Len(ring')
             j == (L + 1) - M + i
  <2>1. /\ L \in Nat /\ M \in Nat /\ M <= L + 1 /\ L <= seq
        /\ ring'[i] = IF j = L + 1 THEN f ELSE ring[j]
    BY <1>0, <1>2, <1>7, PushIs
  <2>2. j \in 1..L + 1 /\ (seq' - M) + i = (seq - L) + j /\ (j # L + 1 => j \in 1..L)
    <3> HIDE DEF L, M
    <3> QED
      BY <1>0, <2>1 DEF M
  <2> HIDE DEF j, M
  <2>3. CASE j = L + 1
    <3>1. (seq - L) + j = seq + 1
      <4> HIDE DEF L
      <4> QED
        BY <1>0, <2>1, <2>3
    <3> QED
      BY <1>3, <2>1, <2>2, <2>3, <3>1 DEF M
  <2>4. CASE j # L + 1
    <3>1. ring[j] = h[(seq - L) + j]
      BY <1>2, <2>2, <2>4 DEF PastInv
    <3>2. (seq - L) + j \in 1..seq
      <4> HIDE DEF L
      <4> QED
        BY <1>0, <2>1, <2>2, <2>4
    <3> QED
      BY <1>3, <2>1, <2>2, <2>4, <3>1, <3>2 DEF M
  <2> QED
    BY <2>3, <2>4
<1>9. PastInv(g)'
  <2>1. DOMAIN ring' = 1..Len(ring')
    BY <1>7
  <2>2. Len(g) = seq' /\ DOMAIN g = 1..seq + 1
    BY <1>0, <1>3
  <2>3. \A n \in DOMAIN g :
          /\ g[n].seq = n /\ Told(g[n]) /\ SaidBy(g[n])'
          /\ \A x \in g[n].pieces : \A y \in Content(x[1])' :
               Later(x, y) => \E k \in DOMAIN g : k >= n /\ y \in g[k].pieces
          /\ \A k \in DOMAIN g : k # n => g[n].pieces \cap g[k].pieces = {}
    BY <1>6, <2>2
  <2>4. \A i \in DOMAIN ring' : ring'[i] = g[seq' - Len(ring') + i]
    BY <1>8, <2>1
  <2> QED
    BY <1>7, <2>2, <2>3, <2>4 DEF PastInv
<1> QED
  BY <1>1, <1>9

\* The log after an emission.
LEMMA EmissionLog ==
  ASSUME TypeOK, TurnInv, LogInv, NEW f, Emits(f), Tells(f)
  PROVE  /\ LogInv'
         /\ open /\ open' /\ ~turnLog.retaining => ~turnLog'.retaining
<1> DEFINE E == turnLog.entries
           L == Len(E)
<1>0. /\ f \in Frame /\ f.seq = seq + 1 /\ seq' = seq + 1 /\ seq \in Nat
      /\ turnLog' = Logged(turnLog, f) /\ turnLog \in LogType
      /\ E \in Seq(Frame) /\ L \in Nat /\ DOMAIN E = 1..L
      /\ turns \in 0..MaxTurns /\ turns' \in 0..MaxTurns /\ MaxTurns \in Nat
      /\ turns \in Turns \/ turns = 0
      /\ Turns' = Turns /\ Turns = 1..MaxTurns
  <2>1. /\ f \in Frame /\ f.seq = seq + 1 /\ seq' = seq + 1 /\ turnLog' = Logged(turnLog, f)
    BY DEF Emits
  <2>2. turns' \in 0..MaxTurns
    BY DEF Tells
  <2>3. /\ seq \in Nat /\ turnLog \in LogType /\ turns \in 0..MaxTurns
    BY DEF TypeOK, LogType
  <2>4. E \in Seq(Frame)
    BY <2>3 DEF LogType
  <2>5. L \in Nat /\ DOMAIN E = 1..L
    BY ONLY <2>4
  <2>6. MaxTurns \in Nat /\ Turns = 1..MaxTurns /\ Turns' = Turns
    BY ReplayAssumption DEF Turns
  <2>7. turns \in Turns \/ turns = 0
    BY <2>3, <2>6
  <2> QED
    BY <2>1, <2>2, <2>3, <2>4, <2>5, <2>6, <2>7
<1>1. /\ Told(f) /\ SaidBy(f)'
      /\ \A x \in f.pieces : x[1] = f.turn /\ x[1] \in Turns
      /\ \A x \in f.pieces : \A y \in Content(x[1]) : ~Later(x, y)
  BY <1>0 DEF Tells, SaidBy, IsSaid, Told
<1>2. /\ turnLog.turn = IF open THEN turns ELSE 0
      /\ ~open => ~turnLog.retaining
      /\ turnLog.retaining =>
           /\ open /\ turns \in Turns
           /\ \A x \in Content(turns) : \E i \in 1..L : x \in E[i].pieces
           /\ \A i \in 1..L :
                /\ Told(E[i]) /\ SaidBy(E[i]) /\ E[i].turn = turns /\ E[i].seq <= seq
                /\ \A x \in E[i].pieces, y \in Content(turns) :
                     Later(x, y) => \E j \in 1..L : j >= i /\ y \in E[j].pieces
                /\ \A j \in 1..L : j # i => E[i].pieces \cap E[j].pieces = {}
  BY <1>0 DEF LogInv, TurnInv
<1> DEFINE r == Logged(turnLog, f)
<1>3. CASE f.kind = "start"
  <2>1. r.turn = f.turn /\ (r.retaining => r.entries = <<f>>)
    BY <1>0, <1>3, LoggedIs
  <2>2. /\ ~open /\ open' /\ f.turn = turns' /\ f.pieces = {<<f.turn, 1>>}
        /\ \A t \in Turns : t = turns' => Content(t)' = f.pieces
    BY <1>1, <1>3 DEF Tells, Told
  <2>3. PICK t : t = turns'
    OBVIOUS
  <2>4. t \in Turns /\ Content(t)' = f.pieces /\ f.turn = t
    BY <1>1, <2>2, <2>3
  <2>5. Content(turns)' = f.pieces
    BY <2>3, <2>4
  <2>6. r.retaining =>
          /\ DOMAIN r.entries = {1} /\ r.entries[1] = f
    BY <2>1
  <2> HIDE DEF r, E
  <2>7. f.seq <= seq'
    BY <1>0
  <2>8. turnLog' = r
    BY <1>0 DEF r
  <2>9. turnLog'.turn = IF open' THEN turns' ELSE 0
    BY <2>1, <2>2, <2>8
  <2> QED
    BY <1>1, <2>2, <2>3, <2>4, <2>5, <2>6, <2>7, <2>8, <2>9 DEF LogInv
<1>4. CASE f.kind = "end"
  <2>1. open /\ ~open' /\ f.turn = turns
    BY <1>4 DEF Tells
  <2>2. turnLog' = NoLog
    BY <1>0, <1>2, <1>4, <2>1, LoggedIs
  <2> QED
    BY <2>1, <2>2 DEF LogInv, NoLog
<1>5. CASE f.kind = "status"
  <2>1. turnLog' = turnLog
    BY <1>0, <1>5, LoggedIs
  <2>2. open' = open /\ f.pieces = {} /\ (open => turns' = turns)
    BY <1>1, <1>5 DEF Tells, Told
  <2>3. \A t \in Turns : Content(t)' = Content(t)
    BY <2>2 DEF Tells
  <2>4. CASE ~turnLog.retaining
    BY <1>2, <2>1, <2>2, <2>4 DEF LogInv
  <2>5. CASE turnLog.retaining
    <3>1. PICK t : t = turns
      OBVIOUS
    <3>2. t \in Turns /\ turns' = t /\ Content(t)' = Content(t)
      BY <1>2, <2>2, <2>3, <2>5, <3>1
    <3>3. Content(turns)' = Content(turns)
      BY <3>1, <3>2
    <3>5. PICK e : e = E
      OBVIOUS
    <3>6. /\ turnLog'.entries = e /\ turnLog'.retaining /\ turnLog'.turn = t /\ DOMAIN e = 1..L
          /\ open' /\ turns' = t
      BY <1>0, <1>2, <2>1, <2>2, <2>5, <3>1, <3>2, <3>5
    <3>7. /\ \A x \in Content(t) : \E i \in DOMAIN e : x \in e[i].pieces
          /\ \A i \in DOMAIN e :
               /\ Told(e[i]) /\ e[i].turn = t
               /\ \A x \in e[i].pieces, y \in Content(t) :
                    Later(x, y) => \E j \in DOMAIN e : j >= i /\ y \in e[j].pieces
               /\ \A j \in DOMAIN e : j # i => e[i].pieces \cap e[j].pieces = {}
      <4>1. LogInv /\ turnLog.retaining /\ e = turnLog.entries /\ t = turns
        BY <2>5, <3>1, <3>5
      <4> QED
        BY ONLY <4>1 DEF LogInv
    <3>8. ASSUME NEW i \in DOMAIN e PROVE SaidBy(e[i])' /\ e[i].seq <= seq'
      <4>1. SaidBy(e[i]) /\ e[i].seq <= seq /\ e[i] \in Frame
        BY <1>0, <1>2, <2>5, <3>5
      <4> QED
        BY <1>0, <4>1, TellsNew DEF Frame
    <3> HIDE DEF E, L
    <3>9. Content(turns)' = Content(t)' /\ Content(t)' = Content(t)
      BY <3>2, <3>6
    <3>10. PICK c : c = Content(t)
      OBVIOUS
    <3>11. Content(turns)' = c
      BY <3>9, <3>10
    <3>12. /\ \A x \in c : \E i \in DOMAIN e : x \in e[i].pieces
           /\ \A i \in DOMAIN e :
                /\ Told(e[i]) /\ SaidBy(e[i])' /\ e[i].turn = turns' /\ e[i].seq <= seq'
                /\ \A x \in e[i].pieces, y \in c :
                     Later(x, y) => \E j \in DOMAIN e : j >= i /\ y \in e[j].pieces
                /\ \A j \in DOMAIN e : j # i => e[i].pieces \cap e[j].pieces = {}
      BY <3>6, <3>7, <3>8, <3>10
    <3>13. LogInv'
      BY <3>6, <3>11, <3>12 DEF LogInv
    <3> QED
      BY <3>13, <2>1, <2>5
  <2> QED
    BY <2>1, <2>4, <2>5
<1>6. CASE f.kind \in {"text", "call"}
  <2>1. open /\ open' /\ f.turn = turns /\ turns' = turns
    BY <1>6 DEF Tells
  <2>2. /\ r.turn = turnLog.turn /\ r \in LogType
        /\ r.retaining =>
             /\ turnLog.retaining
             /\ \/ r.entries = Append(E, f)
                \/ /\ L # 0 /\ f.kind = "text" /\ E[L].kind = "text"
                   /\ r.entries = [E EXCEPT ![L] = Joined(E[L], f)]
    BY <1>0, <1>2, <1>6, <2>1, LoggedIs
  <2>3. turnLog' = r
    BY <1>0
  <2>4. CASE ~r.retaining
    BY <1>2, <2>1, <2>2, <2>3, <2>4 DEF LogInv
  <2>5. CASE r.retaining
    <3> DEFINE Q == r.entries
    <3>1. PICK t, q, e, l : t = turns /\ q = Q /\ e = E /\ l = L
      OBVIOUS
    <3> DEFINE M == Len(q)
    <3>2. t \in Turns /\ turns' = t /\ turns = t
      BY <1>2, <2>1, <2>2, <2>5, <3>1
    <3>3. /\ e \in Seq(Frame) /\ l \in Nat /\ Len(e) = l
          /\ \A x \in Content(t) : \E i \in 1..l : x \in e[i].pieces
          /\ \A i \in 1..l :
               /\ Told(e[i]) /\ SaidBy(e[i]) /\ e[i].turn = t /\ e[i].seq <= seq /\ e[i] \in Frame
               /\ \A x \in e[i].pieces, y \in Content(t) :
                    Later(x, y) => \E j \in 1..l : j >= i /\ y \in e[j].pieces
               /\ \A j \in 1..l : j # i => e[i].pieces \cap e[j].pieces = {}
      <4> HIDE DEF E, r
      <4>1. e \in Seq(Frame) /\ l \in Nat /\ Len(e) = l
        BY <1>0, <3>1 DEF L
      <4> HIDE DEF L
      <4>2. \A i \in 1..l : e[i] \in Frame
        BY <4>1
      <4>3. DOMAIN e = 1..l /\ e = turnLog.entries /\ t = turns /\ turnLog.retaining
        <5>1. e = turnLog.entries
          BY <3>1 DEF E
        <5> QED
          BY <2>2, <2>5, <3>1, <4>1, <5>1
      <4>4. LogInv
        OBVIOUS
      <4> QED
        BY ONLY <4>1, <4>2, <4>3, <4>4 DEF LogInv
    <3>4. \A y \in Content(t)' : y \in Content(t) \/ y \in f.pieces
      BY <3>2, TellsNew
    <3>5. \A x \in f.pieces : x[1] = t
      BY <1>1, <2>1, <3>1
    \* What changes of the log: one entry, at the end.
    <3>6. PICK m \in Nat :
            /\ q \in Seq(Frame) /\ Len(q) = m /\ DOMAIN q = 1..m /\ m # 0 /\ m >= l
            /\ \A i \in 1..m : i # m => i \in 1..l /\ q[i] = e[i]
            /\ \A i \in 1..l : i # m => q[i] = e[i]
            /\ q[m].seq = seq + 1 /\ q[m].turn = t /\ Told(q[m])
            /\ q[m].pieces = f.pieces \cup (IF m = l THEN e[l].pieces ELSE {})
      <4>1. CASE q = Append(e, f)
        <5>1. q \in Seq(Frame) /\ Len(q) = l + 1 /\ q[l + 1] = f /\ \A i \in 1..l : q[i] = e[i]
          BY <1>0, <3>3, <4>1
        <5>2. DOMAIN q = 1..l + 1 /\ l + 1 # 0 /\ l + 1 >= l /\ l + 1 # l /\ l + 1 \in Nat
          BY <3>3, <5>1
        <5>3. \A i \in 1..l + 1 : i # l + 1 => i \in 1..l
          BY <3>3
        <5> HIDE DEF Q
        <5> QED
          BY <1>0, <1>1, <2>1, <3>1, <5>1, <5>2, <5>3
      <4>2. CASE /\ l # 0 /\ f.kind = "text" /\ e[l].kind = "text"
                 /\ q = [e EXCEPT ![l] = Joined(e[l], f)]
        <5> DEFINE g == Joined(e[l], f)
        <5>1. l \in 1..l /\ e[l] \in Frame /\ Told(e[l]) /\ e[l].turn = t
          BY <3>3, <4>2
        <5>2. /\ g \in Frame /\ g.seq = seq + 1 /\ g.turn = t /\ g.kind = "text"
              /\ g.pieces = e[l].pieces \cup f.pieces
          BY <1>0, <4>2, <5>1 DEF Joined, Frame
        <5>3. f.turn = t
          BY <2>1, <3>1
        <5>4. Told(g)
          BY <1>1, <4>2, <5>1, <5>2, <5>3 DEF Told
        <5> HIDE DEF g
        <5>5. q \in Seq(Frame) /\ Len(q) = l /\ q[l] = g /\ \A i \in 1..l : i # l => q[i] = e[i]
          BY <3>3, <4>2, <5>1, <5>2 DEF g
        <5>6. DOMAIN q = 1..l
          BY <3>3, <5>5
        <5> HIDE DEF Q
        <5> QED
          BY <3>3, <4>2, <5>2, <5>4, <5>5, <5>6
      <4> QED
        BY <2>2, <2>5, <3>1, <4>1, <4>2
    <3> HIDE DEF Q, E, L, r
    <3>7. \A i \in 1..m : /\ f.pieces \subseteq q[m].pieces /\ m \in 1..m
                          /\ (i \in 1..l => e[i].pieces \subseteq q[i].pieces)
      BY <3>3, <3>6
    <3>8. \A i \in 1..l : i \in 1..m /\ e[i].pieces \cap f.pieces = {}
      <4>1. \A i \in 1..l : SaidBy(e[i])
        BY <3>3
      <4>2. \A g : SaidBy(g) => g.pieces \cap f.pieces = {}
        BY TellsNew
      <4> QED
        BY <3>3, <3>6, <4>1, <4>2
    <3>9. ASSUME NEW x \in Content(t)' PROVE \E i \in 1..m : x \in q[i].pieces
      <4>1. CASE x \in f.pieces
        BY <3>6, <4>1
      <4>2. CASE x \in Content(t)
        <5>1. PICK i \in 1..l : x \in e[i].pieces
          BY <3>3, <4>2
        <5>2. i \in 1..m
          BY <3>8
        <5> QED
          BY <3>7, <5>1, <5>2
      <4> QED
        BY <3>4, <4>1, <4>2
    <3>10. ASSUME NEW i \in 1..m
           PROVE  /\ Told(q[i]) /\ SaidBy(q[i])' /\ q[i].turn = t /\ q[i].seq <= seq + 1
                  /\ \A x \in q[i].pieces, y \in Content(t)' :
                       Later(x, y) => \E j \in 1..m : j >= i /\ y \in q[j].pieces
                  /\ \A j \in 1..m : j # i => q[i].pieces \cap q[j].pieces = {}
      <4>1. CASE i # m
        <5>1. i \in 1..l /\ q[i] = e[i] /\ i < m
          BY <3>6, <4>1
        <5>2. Told(q[i]) /\ SaidBy(q[i]) /\ q[i].turn = t /\ q[i].seq <= seq /\ q[i].seq \in Nat
          BY <3>3, <5>1 DEF Frame
        <5>3. SaidBy(q[i])' /\ q[i].pieces \cap f.pieces = {}
          BY <5>2, TellsNew
        <5>4. ASSUME NEW x \in q[i].pieces, NEW y \in Content(t)', Later(x, y)
              PROVE  \E j \in 1..m : j >= i /\ y \in q[j].pieces
          <6>1. CASE y \in f.pieces
            BY <3>7, <5>1, <6>1
          <6>2. CASE y \in Content(t)
            <7>1. PICK j \in 1..l : j >= i /\ y \in e[j].pieces
              BY <3>3, <5>1, <5>4, <6>2
            <7> QED
              BY <3>7, <3>8, <7>1
          <6> QED
            BY <3>4, <6>1, <6>2
        <5>5. ASSUME NEW j \in 1..m, j # i PROVE q[i].pieces \cap q[j].pieces = {}
          <6>1. CASE j # m
            BY <3>3, <3>6, <5>1, <5>5, <6>1
          <6>2. CASE j = m
            BY <3>3, <3>6, <5>1, <5>3, <5>5, <6>2
          <6> QED
            BY <6>1, <6>2
        <5> QED
          BY <1>0, <5>2, <5>3, <5>4, <5>5
      <4>2. CASE i = m
        <5>1. SaidBy(q[m])'
          <6>1. CASE m = l
            <7>1. SaidBy(e[l])'
              BY <3>3, <3>6, <6>1, TellsNew
            <7> QED
              BY <1>1, <3>6, <6>1, <7>1 DEF SaidBy
          <6>2. CASE m # l
            BY <1>1, <3>6, <6>2 DEF SaidBy
          <6> QED
            BY <6>1, <6>2
        <5>2. ASSUME NEW x \in q[m].pieces, NEW y \in Content(t)', Later(x, y)
              PROVE  \E j \in 1..m : j >= m /\ y \in q[j].pieces
          <6>1. CASE y \in f.pieces
            BY <3>6, <3>7, <6>1
          <6>2. CASE y \in Content(t)
            <7>1. x \notin f.pieces
              BY <1>1, <3>5, <5>2, <6>2
            <7>2. m = l /\ x \in e[l].pieces /\ l \in 1..l
              BY <3>6, <7>1
            <7>3. PICK j \in 1..l : j >= l /\ y \in e[j].pieces
              BY <3>3, <5>2, <6>2, <7>2
            <7> QED
              BY <3>3, <3>6, <3>7, <3>8, <7>2, <7>3
          <6> QED
            BY <3>4, <6>1, <6>2
        <5>3. ASSUME NEW j \in 1..m, j # m PROVE q[m].pieces \cap q[j].pieces = {}
          <6>1. j \in 1..l /\ q[j] = e[j] /\ e[j].pieces \cap f.pieces = {}
            BY <3>6, <3>8, <5>3
          <6>2. m = l => e[l].pieces \cap e[j].pieces = {}
            BY <3>3, <3>6, <5>3, <6>1
          <6> QED
            BY <3>6, <6>1, <6>2
        <5> QED
          BY <1>0, <3>6, <4>2, <5>1, <5>2, <5>3
      <4> QED
        BY <4>1, <4>2
    <3>11. /\ turnLog'.entries = q /\ turnLog'.turn = t /\ open'
           /\ DOMAIN q = 1..m /\ seq' = seq + 1 /\ turns' = t
      BY <1>0, <1>2, <2>1, <2>2, <3>1, <3>2, <3>6 DEF Q, r
    <3>12. Content(turns)' = Content(t)'
      BY <3>11
    <3>13. LogInv'
      BY <3>9, <3>10, <3>11, <3>12 DEF LogInv
    <3> QED
      BY <2>2, <2>5, <3>13 
  <2> QED
    BY <2>2, <2>3, <2>4, <2>5
<1> QED
  <2>1. f.kind \in {"start", "text", "call", "end", "status"}
    BY <1>0 DEF Frame, Kinds
  <2> QED
    BY <1>3, <1>4, <1>5, <1>6, <2>1

-----------------------------------------------------------------------------
(* The pieces of a history and of a pipe                                   *)

\* What Rest gathers, frame by frame.
LEMMA RestIs ==
  ASSUME NEW h \in Seq(Frame), NEW b
  PROVE  \A x : x \in Rest(h, b) <=> \E n \in 1..Len(h) : n > b /\ x \in h[n].pieces
<1>1. DOMAIN h = 1..Len(h)
  OBVIOUS
<1> QED
  BY <1>1 DEF Rest

\* What Piped gathers, frame by frame.
LEMMA PipedIs ==
  ASSUME NEW q \in Seq(Outbound), NEW i
  PROVE  \A x : x \in Piped(q, i) <=>
           \E j \in 1..Len(q) : j > i /\ q[j].type = "event" /\ x \in q[j].pieces
<1>1. DOMAIN q = 1..Len(q)
  OBVIOUS
<1> QED
  BY <1>1 DEF Piped

\* A frame numbered next adds what it carries to what comes after any number.
LEMMA RestGrows ==
  ASSUME NEW h \in Seq(Frame), NEW f \in Frame, NEW b \in 0..Len(h)
  PROVE  Rest(Append(h, f), b) = Rest(h, b) \cup f.pieces
<1>1. PICK g, l : g = Append(h, f) /\ l = Len(h)
  OBVIOUS
<1>2. /\ g \in Seq(Frame) /\ l \in Nat /\ Len(g) = l + 1 /\ g[l + 1] = f
      /\ \A n \in 1..l : g[n] = h[n]
  BY <1>1
<1>3. \A x : x \in Rest(h, b) <=> \E n \in 1..l : n > b /\ x \in h[n].pieces
  BY <1>1, RestIs
<1>4. \A x : x \in Rest(g, b) <=> \E n \in 1..l + 1 : n > b /\ x \in g[n].pieces
  BY <1>2, RestIs
<1>5. \A n \in 1..l + 1 : n = l + 1 \/ n \in 1..l
  BY <1>2
<1>6. l + 1 > b /\ l + 1 \in 1..l + 1 /\ \A n \in 1..l : n \in 1..l + 1
  BY <1>1, <1>2
<1>7. \A x : x \in Rest(g, b) <=> x \in Rest(h, b) \/ x \in f.pieces
  BY <1>2, <1>3, <1>4, <1>5, <1>6
<1>8. Rest(g, b) = Rest(h, b) \cup f.pieces
  BY <1>7
<1> QED
  BY <1>1, <1>8

\* Nothing is numbered after the last.
LEMMA RestEnd ==
  ASSUME NEW h \in Seq(Frame), NEW b \in Nat, b >= Len(h)
  PROVE  Rest(h, b) = {}
<1>1. \A n \in 1..Len(h) : ~(n > b)
  OBVIOUS
<1> QED
  BY <1>1, RestIs

\* The next number, and what comes after it.
LEMMA RestNext ==
  ASSUME NEW h \in Seq(Frame), NEW b \in Nat, b < Len(h)
  PROVE  Rest(h, b) = h[b + 1].pieces \cup Rest(h, b + 1)
<1>1. \A n \in 1..Len(h) : n > b <=> n = b + 1 \/ n > b + 1
  OBVIOUS
<1>2. b + 1 \in 1..Len(h)
  OBVIOUS
<1> QED
  BY <1>1, <1>2, RestIs

\* A frame joins a pipe at its end.
LEMMA PipedAppend ==
  ASSUME NEW q \in Seq(Outbound), NEW g \in Outbound, NEW i \in 0..Len(q)
  PROVE  Piped(Append(q, g), i) =
           Piped(q, i) \cup (IF g.type = "event" THEN g.pieces ELSE {})
<1>1. PICK r, l : r = Append(q, g) /\ l = Len(q)
  OBVIOUS
<1>2. /\ r \in Seq(Outbound) /\ l \in Nat /\ Len(r) = l + 1 /\ r[l + 1] = g
      /\ \A n \in 1..l : r[n] = q[n]
  BY <1>1
<1>3. \A x : x \in Piped(q, i) <=> \E n \in 1..l : n > i /\ q[n].type = "event" /\ x \in q[n].pieces
  BY <1>1, PipedIs
<1>4. \A x : x \in Piped(r, i) <=>
        \E n \in 1..l + 1 : n > i /\ r[n].type = "event" /\ x \in r[n].pieces
  BY <1>2, PipedIs
<1>5. \A n \in 1..l + 1 : n = l + 1 \/ n \in 1..l
  BY <1>2
<1>6. l + 1 > i /\ l + 1 \in 1..l + 1 /\ \A n \in 1..l : n \in 1..l + 1
  BY <1>1, <1>2
<1>7. \A x : x \in Piped(r, i) <=>
        x \in Piped(q, i) \/ (g.type = "event" /\ x \in g.pieces)
  BY <1>2, <1>3, <1>4, <1>5, <1>6
<1>8. Piped(r, i) = Piped(q, i) \cup (IF g.type = "event" THEN g.pieces ELSE {})
  BY <1>7
<1> QED
  BY <1>1, <1>8

\* The tail of a pipe, place by place.
LEMMA TailIs ==
  ASSUME NEW q \in Seq(Outbound), q # <<>>
  PROVE  /\ Tail(q) \in Seq(Outbound) /\ Len(q) \in Nat \ {0} /\ Len(Tail(q)) = Len(q) - 1
         /\ Head(q) = q[1] /\ q[1] \in Outbound
         /\ \A i \in 1..Len(q) - 1 : i + 1 \in 1..Len(q) /\ Tail(q)[i] = q[i + 1]
OBVIOUS

\* What is behind the first frame of a pipe.
LEMMA PipedTail ==
  ASSUME NEW q \in Seq(Outbound), q # <<>>
  PROVE  /\ \A i \in Nat : Piped(Tail(q), i) = Piped(q, i + 1)
         /\ Piped(q, 0) = Piped(q, 1) \cup (IF q[1].type = "event" THEN q[1].pieces ELSE {})
<1>1. PICK r, l : r = Tail(q) /\ l = Len(q) - 1
  OBVIOUS
<1>2. /\ r \in Seq(Outbound) /\ l \in Nat /\ Len(q) = l + 1 /\ Len(r) = l
      /\ \A n \in 1..l : r[n] = q[n + 1]
  BY <1>1, TailIs
<1>3. ASSUME NEW i \in Nat PROVE Piped(r, i) = Piped(q, i + 1)
  <2>1. \A x : x \in Piped(q, i + 1) <=>
          \E n \in 1..l + 1 : n > i + 1 /\ q[n].type = "event" /\ x \in q[n].pieces
    BY <1>2, PipedIs
  <2>2. \A x : x \in Piped(r, i) <=> \E n \in 1..l : n > i /\ r[n].type = "event" /\ x \in r[n].pieces
    BY <1>2, PipedIs
  <2>3. ASSUME NEW x \in Piped(q, i + 1) PROVE x \in Piped(r, i)
    <3>1. PICK n \in 1..l + 1 : n > i + 1 /\ q[n].type = "event" /\ x \in q[n].pieces
      BY <2>1
    <3>2. n - 1 \in 1..l /\ n - 1 > i /\ (n - 1) + 1 = n
      BY <1>2, <3>1
    <3> QED
      BY <1>2, <2>2, <3>1, <3>2
  <2>4. ASSUME NEW x \in Piped(r, i) PROVE x \in Piped(q, i + 1)
    <3>1. PICK n \in 1..l : n > i /\ r[n].type = "event" /\ x \in r[n].pieces
      BY <2>2
    <3>2. n + 1 \in 1..l + 1 /\ n + 1 > i + 1
      BY <1>2, <3>1
    <3> QED
      BY <1>2, <2>1, <3>1, <3>2
  <2> QED
    BY <2>3, <2>4
<1>4. Piped(q, 0) = Piped(q, 1) \cup (IF q[1].type = "event" THEN q[1].pieces ELSE {})
  <2>1. \A x : x \in Piped(q, 1) <=>
          \E n \in 1..l + 1 : n > 1 /\ q[n].type = "event" /\ x \in q[n].pieces
    BY <1>2, PipedIs
  <2>2. \A x : x \in Piped(q, 0) <=>
          \E n \in 1..l + 1 : n > 0 /\ q[n].type = "event" /\ x \in q[n].pieces
    BY <1>2, PipedIs
  <2>3. 1 \in 1..l + 1 /\ \A n \in 1..l + 1 : n > 0 /\ (n = 1 \/ n > 1)
    BY <1>2
  <2>4. \A x : x \in Piped(q, 0) <=> x \in Piped(q, 1) \/ (q[1].type = "event" /\ x \in q[1].pieces)
    BY <2>1, <2>2, <2>3
  <2> QED
    BY <2>4
<1> QED
  BY <1>1, <1>3, <1>4

-----------------------------------------------------------------------------
(* What an emission does to a page                                         *)

\* What a page was to get of a turn it is still to get, and what is told now.
LEMMA AccountedGrows ==
  ASSUME TypeOK, TurnInv, NEW f, Tells(f),
         open /\ open' /\ ~turnLog.retaining => ~turnLog'.retaining,
         NEW H, NEW F, NEW g, NEW P, NEW C, NEW t \in 1..turns',
         t <= turns => Accounted(t, H, F, g, P, C)
  PROVE  Accounted(t, H, F, g, P, C \cup f.pieces)'
<1>0. /\ turns \in 0..MaxTurns /\ turns' \in 0..MaxTurns /\ MaxTurns \in Nat
      /\ turns <= turns' /\ t \in Turns /\ t \in Nat
      /\ Content(t)' = Content(t) \cup {x \in f.pieces : x[1] = t}
      /\ stored \subseteq stored' /\ lost' = lost
  <2>1. turns \in 0..MaxTurns /\ turns' \in 0..MaxTurns /\ MaxTurns \in Nat /\ turns <= turns'
    BY ReplayAssumption DEF Tells, TypeOK
  <2>2. t \in Turns /\ t \in Nat
    BY <2>1 DEF Turns
  <2> QED
    BY <2>1, <2>2 DEF Tells
<1>1. CASE t > turns
  <2>1. Content(t)' \subseteq f.pieces
    <3>1. t \in turns + 1..turns'
      BY <1>0, <1>1
    <3> QED
      BY <3>1 DEF Tells
  <2> QED
    BY <2>1 DEF Accounted
<1>2. CASE t <= turns
  <2>1. <<t, 1>> \notin f.pieces
    <3>1. said[t] \in Nat /\ said[t] # 0
      BY <1>0, <1>2 DEF TurnInv, TypeOK
    <3>2. 1 \in 1..said[t]
      BY <3>1
    <3>3. <<t, 1>> \in Content(t)
      BY <3>2 DEF Content
    <3>4. IsSaid(<<t, 1>>)
      BY <1>0, <3>3 DEF IsSaid
    <3> QED
      BY <3>4, TellsNew
  <2>2. CASE t \in lost \cup P
    BY <1>0, <2>2 DEF Accounted
  <2>3. CASE Content(t) \subseteq H \cup C
    BY <1>0, <2>3 DEF Accounted
  <2>4. CASE t \in stored /\ (t \in F \/ g \/ (<<t, 0>> \in C /\ <<t, 1>> \notin H \cup C))
    BY <1>0, <2>1, <2>4 DEF Accounted
  <2>5. CASE t = turns /\ open /\ <<t, 1>> \notin H \cup C /\ ~turnLog.retaining
    <3>1. turns' = turns /\ (open' \/ (turns \in stored' /\ <<turns, 0>> \in f.pieces))
      BY <2>5 DEF Tells
    <3> QED
      BY <2>1, <2>5, <3>1 DEF Accounted
  <2> QED
    BY <1>2, <2>2, <2>3, <2>4, <2>5 DEF Accounted
<1> QED
  BY <1>0, <1>1, <1>2

\* What the next frame brings has not reached a page that holds only said pieces.
LEMMA FreshGrows ==
  ASSUME TypeOK, NEW f, Emits(f), Tells(f), NEW h \in Seq(Frame), NEW p \in Pages,
         \A x \in held[p] : IsSaid(x), NEW b
  PROVE  Fresh(p, h, b) => Fresh(p, Append(h, f), b)'
<1> SUFFICES ASSUME Fresh(p, h, b) PROVE Fresh(p, Append(h, f), b)'
  OBVIOUS
<1>1. PICK g, l : g = Append(h, f) /\ l = Len(h)
  OBVIOUS
<1>2. f \in Frame /\ held' = held
  BY DEF Emits, pageVars
<1>3. /\ l \in Nat /\ DOMAIN g = 1..l + 1 /\ DOMAIN h = 1..l /\ g[l + 1] = f
      /\ \A n \in 1..l : g[n] = h[n]
  BY <1>1, <1>2
<1>4. f.pieces \cap held[p] = {}
  BY TellsNew
<1>5. ASSUME NEW n \in DOMAIN g, n > b PROVE g[n].pieces \cap held[p] = {}
  <2>1. CASE n = l + 1
    BY <1>3, <1>4, <2>1
  <2>2. CASE n # l + 1
    <3>1. n \in DOMAIN h /\ g[n] = h[n]
      BY <1>3, <2>2
    <3> QED
      BY <1>5, <3>1 DEF Fresh
  <2> QED
    BY <2>1, <2>2
<1>6. Fresh(p, g, b)'
  BY <1>2, <1>5 DEF Fresh
<1> QED
  BY <1>1, <1>6

\* A page that has, or will have, it all still will once the next frame is on its way too.
LEMMA HasAllGrows ==
  ASSUME TypeOK, TurnInv, LogInv, NEW f, Emits(f), Tells(f), NEW p \in Pages, NEW C,
         HasAll(p, C)
  PROVE  HasAll(p, C \cup f.pieces)'
<1>1. open /\ open' /\ ~turnLog.retaining => ~turnLog'.retaining
  BY EmissionLog
<1>2. /\ held' = held /\ sought' = sought /\ patchy' = patchy
      /\ torn' = torn /\ owing' = owing
  BY DEF Emits, pageVars
<1> SUFFICES ASSUME (p \notin torn \cup owing)', NEW t \in 1..turns'
             PROVE  Accounted(t, held[p], sought[p], FALSE, patchy[p], C \cup f.pieces)'
  BY DEF HasAll
<1>3. PICK H, F, P : H = held[p] /\ F = sought[p] /\ P = patchy[p]
  OBVIOUS
<1>4. t <= turns => t \in 1..turns
  BY DEF TypeOK
<1>5. t <= turns => Accounted(t, H, F, FALSE, P, C)
  BY <1>2, <1>3, <1>4 DEF HasAll
<1>6. Accounted(t, H, F, FALSE, P, C \cup f.pieces)'
  BY <1>1, <1>5, AccountedGrows
<1> QED
  BY <1>2, <1>3, <1>6 DEF Accounted

\* So will a page that keeps only what an incomplete replay leaves it.
LEMMA KeptGrows ==
  ASSUME TypeOK, TurnInv, LogInv, NEW f, Emits(f), Tells(f), NEW p \in Pages, NEW r, NEW C
  PROVE  /\ Kept(p, r)' = Kept(p, r)
         /\ KeptHasAll(p, r, C) => KeptHasAll(p, r, C \cup f.pieces)'
<1>1. open /\ open' /\ ~turnLog.retaining => ~turnLog'.retaining
  BY EmissionLog
<1>2. Kept(p, r)' = Kept(p, r)
  BY DEF Emits, pageVars, Kept
<1>3. ASSUME KeptHasAll(p, r, C), NEW t \in 1..turns'
      PROVE  Accounted(t, Kept(p, r), {}, TRUE, {x[1] : x \in Kept(p, r)}, C \cup f.pieces)'
  <2>1. PICK H, P : H = Kept(p, r) /\ P = {x[1] : x \in Kept(p, r)}
    OBVIOUS
  <2>2. t <= turns => t \in 1..turns
    BY DEF TypeOK
  <2>3. t <= turns => Accounted(t, H, {}, TRUE, P, C)
    BY <1>3, <2>1, <2>2 DEF KeptHasAll
  <2>4. Accounted(t, H, {}, TRUE, P, C \cup f.pieces)'
    BY <1>1, <2>3, AccountedGrows
  <2> QED
    BY <1>2, <2>1, <2>4 DEF Accounted
<1> QED
  BY <1>2, <1>3 DEF KeptHasAll

\* A page that has not read its replay's header is no worse off.
LEMMA AskingGrows ==
  ASSUME TypeOK, TurnInv, LogInv, NEW f, Emits(f), Tells(f),
         NEW h \in Seq(Frame), Len(h) = seq, NEW p \in Pages,
         \A x \in held[p] : IsSaid(x),
         NEW s \in 0..seq, NEW s2 \in Nat, s <= s2, NEW c \in 0..Len(pipe[p]),
         \A i \in 1..c : pipe'[p][i] = pipe[p][i],
         Asking(p, h, s, c)
  PROVE  Asking(p, Append(h, f), s2, c)'
<1>0. /\ UNCHANGED <<epoch, asked, pageVars>> /\ f \in Frame /\ seq \in Nat
      /\ cursor[p] \in Nat /\ asked[p].last \in Nat /\ pipe[p] \in Seq(Outbound)
  BY DEF Emits, TypeOK
<1>1. PICK g, q, q2, d, o : g = Append(h, f) /\ q = pipe[p] /\ q2 = pipe'[p] /\ d = cursor[p] /\ o = asked[p]
  OBVIOUS
<1>2. cursor'[p] = d /\ asked'[p] = o /\ epoch' = epoch /\ earned'[p] = earned[p]
  BY <1>0, <1>1 DEF pageVars
<1>3. \A i \in 1..c : q2[i] = q[i] /\ q[i] \in Outbound
  BY <1>0, <1>1
<1>4. \A b : Fresh(p, h, b) => Fresh(p, g, b)'
  BY <1>1, FreshGrows
<1>5. earned[p] = o.epoch /\ Fresh(p, g, d)' /\ Fresh(p, g, o.last)'
  BY <1>1, <1>4 DEF Asking
<1>6. ASSUME NEW i \in 1..c
      PROVE  Greeting(p, i)' /\ (q[i].type = "connected" => Fresh(p, g, q[i].lastSeq)')
  <2>1. Greeting(p, i) /\ (q[i].type = "connected" => Fresh(p, h, q[i].lastSeq))
    BY <1>1, <1>6 DEF Asking
  <2>2. Greeting(p, i)'
    BY <1>1, <1>2, <1>3, <2>1 DEF Greeting
  <2> QED
    BY <1>4, <2>1, <2>2
<1>7. ASSUME o.epoch = epoch
      PROVE  /\ o.last <= d /\ d <= s2
             /\ \A i \in 1..c :
                  /\ q[i].type = "connected" => d <= q[i].lastSeq /\ q[i].lastSeq <= s2
                  /\ q[i].type = "event" => q[i].seq <= s2
             /\ HasAll(p, Rest(g, o.last))'
  <2>1. /\ o.last <= d /\ d <= s
        /\ \A i \in 1..c :
             /\ q[i].type = "connected" => d <= q[i].lastSeq /\ q[i].lastSeq <= s
             /\ q[i].type = "event" => q[i].seq <= s
        /\ HasAll(p, Rest(h, o.last))
    BY <1>1, <1>7 DEF Asking
  <2>2. d \in Nat /\ o.last \in Nat /\ s \in Nat /\ s <= seq
    BY <1>0, <1>1
  <2>3. ASSUME NEW i \in 1..c
        PROVE  /\ q[i].type = "connected" => d <= q[i].lastSeq /\ q[i].lastSeq <= s2
               /\ q[i].type = "event" => q[i].seq <= s2
    <3>1. /\ q[i].type = "connected" => q[i].lastSeq \in Nat
          /\ q[i].type = "event" => q[i].seq \in Nat
      BY <1>3, OutboundIs
    <3> QED
      BY <2>1, <2>2, <3>1
  <2>4. o.last \in 0..Len(h)
    BY <2>1, <2>2, <1>0
  <2>5. Rest(g, o.last) = Rest(h, o.last) \cup f.pieces
    BY <1>0, <1>1, <2>4, RestGrows
  <2>6. HasAll(p, Rest(h, o.last) \cup f.pieces)'
    BY <2>1, HasAllGrows
  <2>7. HasAll(p, Rest(g, o.last))'
    BY <2>5, <2>6
  <2> QED
    BY <2>1, <2>2, <2>3, <2>7
<1>8. Asking(p, g, s2, c)'
  <2>1. \A i \in 1..c : pipe'[p][i] = q[i]
    BY <1>1, <1>3
  <2> QED
    BY <1>1, <1>2, <1>5, <1>6, <1>7, <2>1 DEF Asking
<1> QED
  BY <1>1, <1>8

\* One live frame more.
LEMMA OneMore ==
  \A s, k, e \in Nat : k <= e =>
    /\ e - k \in Nat /\ s + (e - k) \in Nat
    /\ s + ((e + 1) - k) = (s + (e - k)) + 1
    /\ s <= s + (e - k)
OBVIOUS

\* Pipe q, its replay and live frames up to e, has become q2 and e2.
Reached(f, h, g, p, q, l, k, e, s, q2, e2) ==
  /\ q2 = pipe'[p] /\ e2 <= Len(q2)
  /\ l <= Len(q2) /\ \A i \in 1..l : q2[i] = q[i]
  /\ Len(q2) \in {e2, e2 + 1}
  /\ Len(q2) = e2 + 1 => q2[e2 + 1].type = "close" /\ p \notin clients'
  /\ p \in clients' => s + (e2 - k) = seq + 1
  /\ s + (e2 - k) <= seq + 1
  /\ \/ e2 = e
     \/ /\ e2 = e + 1 /\ q2[e2].type = "event" /\ q2[e2].epoch = epoch /\ q2[e2].live
        /\ q2[e2].seq = seq + 1 /\ q2[e2].pieces = f.pieces /\ q2[e2].kind = f.kind
        /\ q2[e2].turn = f.turn /\ s + (e2 - k) = seq + 1
  /\ \A i \in 0..l :
       /\ Piped(q2, i) \subseteq Piped(q, i) \cup f.pieces
       /\ Piped(q2, i) \cup Rest(g, s + (e2 - k)) =
            (Piped(q, i) \cup Rest(h, s + (e - k))) \cup f.pieces

\* A page that was not attached gets nothing, one that is behind a close, and
\* any other the frame.
LEMMA EmissionReaches ==
  ASSUME TypeOK, NEW f, Emits(f), Tells(f),
         NEW h \in Seq(Frame), Len(h) = seq, NEW p \in Pages,
         NEW q, q = pipe[p], NEW l, l = Len(q), NEW g, g = Append(h, f),
         NEW a \in Nat, NEW k \in Nat, NEW e \in 0..l, NEW s \in 0..seq,
         Laid(p, q, a, k, e), Numbered(p, q, h, a, k, e, s)
  PROVE  \E q2 \in Seq(Outbound), e2 \in Nat : Reached(f, h, g, p, q, l, k, e, s, q2, e2)
<1>0. /\ f \in Frame /\ f.seq = seq + 1 /\ seq \in Nat /\ epoch \in Nat /\ SendToSession(f)
      /\ q \in Seq(Outbound)
  BY DEF Emits, TypeOK
<1>1. PICK m : m = s + (e - k)
  OBVIOUS
<1>2. /\ clients' = {x \in clients : ~Behind(x, f)}
      /\ pipe'[p] = IF p \notin clients THEN q
                    ELSE IF Behind(p, f) THEN Append(q, [type |-> "close"])
                    ELSE Append(q, Event(f, TRUE))
  BY <1>0 DEF SendToSession
<1>3. /\ k <= e /\ l \in {e, e + 1} /\ (l = e + 1 => q[e + 1].type = "close" /\ p \notin clients)
      /\ m <= seq /\ (p \in clients => m = seq)
  BY <1>1 DEF Laid, Numbered
<1>4. e \in Nat /\ l \in Nat /\ s \in Nat /\ m \in Nat /\ s <= m /\ e <= l
  <2>1. l \in Nat
    BY <1>0
  <2>2. e \in Nat /\ e <= l /\ s \in Nat
    BY <1>0, <2>1
  <2> QED
    BY <1>1, <1>3, <2>1, <2>2, OneMore
<1>5. Rest(g, m) = Rest(h, m) \cup f.pieces
  <2>1. m \in 0..Len(h)
    BY <1>0, <1>3, <1>4
  <2> QED
    BY <1>0, <2>1, RestGrows
<1>6. CASE p \notin clients
  <2>1. pipe'[p] = q /\ p \notin clients'
    BY <1>2, <1>6
  <2>2. \A i \in 0..l : /\ Piped(q, i) \subseteq Piped(q, i) \cup f.pieces
                        /\ Piped(q, i) \cup Rest(g, m) = (Piped(q, i) \cup Rest(h, m)) \cup f.pieces
    BY <1>5
  <2>3. e <= l /\ m <= seq + 1 /\ l <= l
    BY <1>0, <1>3, <1>4
  <2>4. e \in Nat
    BY <1>4
  <2> USE <1>0, <2>4
  <2> WITNESS q \in Seq(Outbound), e \in Nat
  <2> QED
    BY <1>1, <1>3, <2>1, <2>2, <2>3 DEF Reached
<1>7. CASE p \in clients /\ Behind(p, f)
  <2>1. PICK c : c = [type |-> "close"]
    OBVIOUS
  <2>2. PICK q2 : q2 = Append(q, c)
    OBVIOUS
  <2>3. c \in Outbound /\ c.type = "close" /\ pipe'[p] = q2 /\ p \notin clients' /\ l = e
    BY <1>2, <1>3, <1>7, <2>1, <2>2, CloseIs
  <2>4. /\ q2 \in Seq(Outbound) /\ Len(q2) = l + 1 /\ q2[l + 1] = c
        /\ \A i \in 1..l : q2[i] = q[i]
    <3>1. c \in Outbound /\ q \in Seq(Outbound)
      BY <1>0, <2>3
    <3> QED
      BY <2>2, <3>1
  <2>5. ASSUME NEW i \in 0..l PROVE Piped(q2, i) = Piped(q, i)
    <3>1. c.type # "event" /\ i \in 0..Len(q)
      BY <2>3
    <3>2. Piped(Append(q, c), i) = Piped(q, i) \cup (IF c.type = "event" THEN c.pieces ELSE {})
      BY <1>0, <2>3, <3>1, PipedAppend
    <3> QED
      BY <2>2, <3>1, <3>2
  <2>6. \A i \in 0..l : /\ Piped(q2, i) \subseteq Piped(q, i) \cup f.pieces
                        /\ Piped(q2, i) \cup Rest(g, m) = (Piped(q, i) \cup Rest(h, m)) \cup f.pieces
    BY <1>5, <2>5
  <2>7. /\ e <= Len(q2) /\ m <= seq + 1 /\ l <= Len(q2) /\ Len(q2) = e + 1
        /\ Len(q2) \in {e, e + 1} /\ q2[e + 1] = c
    BY <1>0, <1>3, <1>4, <2>3, <2>4
  <2>8. q2 \in Seq(Outbound) /\ e \in Nat
    BY <1>4, <2>4
  <2> USE <2>8
  <2> WITNESS q2 \in Seq(Outbound), e \in Nat
  <2> QED
    BY <1>1, <2>3, <2>4, <2>6, <2>7 DEF Reached
<1>8. CASE p \in clients /\ ~Behind(p, f)
  <2>1. PICK c : c = Event(f, TRUE)
    OBVIOUS
  <2>2. PICK q2 : q2 = Append(q, c)
    OBVIOUS
  <2>3. /\ c \in Outbound /\ c.type = "event" /\ c.kind = f.kind /\ c.seq = seq + 1
        /\ c.turn = f.turn /\ c.pieces = f.pieces /\ c.live /\ c.epoch = epoch
    BY <1>0, <2>1, EventIs
  <2>4. pipe'[p] = q2 /\ l = e
    BY <1>2, <1>3, <1>8, <2>1, <2>2
  <2>5. /\ q2 \in Seq(Outbound) /\ Len(q2) = l + 1 /\ q2[l + 1] = c
        /\ \A i \in 1..l : q2[i] = q[i]
    BY <1>0, <2>2, <2>3
  <2>6. m = seq /\ s + ((e + 1) - k) = seq + 1
    BY <1>1, <1>3, <1>4, <1>8, OneMore
  <2>7. Rest(g, seq + 1) = {} /\ Rest(h, m) = {}
    <3>1. g \in Seq(Frame) /\ Len(g) = seq + 1
      BY <1>0
    <3>2. seq + 1 \in Nat /\ seq + 1 >= Len(g) /\ m \in Nat /\ m >= Len(h)
      BY <1>0, <2>6, <3>1
    <3> QED
      BY <3>1, <3>2, RestEnd
  <2>8. ASSUME NEW i \in 0..l PROVE Piped(q2, i) = Piped(q, i) \cup f.pieces
    <3>1. Piped(Append(q, c), i) = Piped(q, i) \cup (IF c.type = "event" THEN c.pieces ELSE {})
      BY <1>0, <2>3, PipedAppend
    <3> QED
      BY <2>2, <2>3, <3>1
  <2>9. \A i \in 0..l : /\ Piped(q2, i) \subseteq Piped(q, i) \cup f.pieces
                        /\ Piped(q2, i) \cup Rest(g, seq + 1) = (Piped(q, i) \cup Rest(h, m)) \cup f.pieces
    BY <2>7, <2>8
  <2>10. /\ e + 1 <= Len(q2) /\ l <= Len(q2) /\ Len(q2) = e + 1 /\ Len(q2) # (e + 1) + 1
         /\ q2[e + 1] = c /\ seq + 1 <= seq + 1
    BY <1>0, <1>3, <1>4, <2>4, <2>5
  <2>11. q2 \in Seq(Outbound) /\ e + 1 \in Nat
    BY <1>4, <2>5
  <2> USE <2>11
  <2> WITNESS q2 \in Seq(Outbound), e + 1 \in Nat
  <2> QED
    BY <1>1, <2>3, <2>4, <2>5, <2>6, <2>9, <2>10 DEF Reached
<1> QED
  BY <1>6, <1>7, <1>8

\* A page reading its pipe, or its greeting, goes on being able to.
LEMMA EmissionLive ==
  ASSUME TypeOK, TurnInv, LogInv, NEW f, Emits(f), Tells(f),
         NEW h \in Seq(Frame), PastInv(h), NEW p \in Pages,
         \A x \in held[p] : IsSaid(x), Live(p, h)
  PROVE  Live(p, Append(h, f))'
<1>0. /\ f \in Frame /\ f.seq = seq + 1 /\ seq' = seq + 1 /\ seq \in Nat /\ epoch' = epoch
      /\ pipe[p] \in Seq(Outbound) /\ Len(h) = seq /\ cursor' = cursor /\ earned' = earned
      /\ held' = held
  BY DEF Emits, TypeOK, pageVars, PastInv
<1>1. PICK q, l, g : q = pipe[p] /\ l = Len(q) /\ g = Append(h, f)
  OBVIOUS
<1>2. PICK a, k, e \in 0..l, s \in 0..seq : LiveAt(p, q, h, a, k, e, s)
  BY <1>1 DEF Live
<1>3. /\ Laid(p, q, a, k, e) /\ Numbered(p, q, h, a, k, e, s)
      /\ Ordered(q, h, a, e, s + (e - k)) /\ Fresh(p, h, s)
      /\ a = 0 => Reading(p, q, h, s, s + (e - k))
      /\ a > 0 => Answered(p, q, h, a, s, s + (e - k))
  BY <1>2 DEF LiveAt
<1>4. l \in Nat /\ a \in Nat /\ k \in Nat /\ e \in Nat /\ s \in Nat /\ q \in Seq(Outbound)
      /\ a <= k /\ k <= e /\ e <= l
  BY <1>0, <1>1, <1>2, <1>3 DEF Laid
<1>51. PICK q2 \in Seq(Outbound), e2 \in Nat : Reached(f, h, g, p, q, l, k, e, s, q2, e2)
  <2>1. /\ q = pipe[p] /\ l = Len(q) /\ g = Append(h, f) /\ Len(h) = seq
        /\ a \in Nat /\ k \in Nat /\ e \in 0..l /\ s \in 0..seq
        /\ Laid(p, q, a, k, e) /\ Numbered(p, q, h, a, k, e, s)
    BY <1>0, <1>1, <1>2, <1>3, <1>4
  <2> QED
    BY <2>1, EmissionReaches
<1>5. /\ q2 = pipe'[p] /\ e2 <= Len(q2)
      /\ l <= Len(q2) /\ \A i \in 1..l : q2[i] = q[i]
      /\ Len(q2) \in {e2, e2 + 1}
      /\ Len(q2) = e2 + 1 => q2[e2 + 1].type = "close" /\ p \notin clients'
      /\ p \in clients' => s + (e2 - k) = seq + 1
      /\ s + (e2 - k) <= seq + 1
      /\ \/ e2 = e
         \/ /\ e2 = e + 1 /\ q2[e2].type = "event" /\ q2[e2].epoch = epoch /\ q2[e2].live
            /\ q2[e2].seq = seq + 1 /\ q2[e2].pieces = f.pieces /\ q2[e2].kind = f.kind
            /\ q2[e2].turn = f.turn /\ s + (e2 - k) = seq + 1
      /\ \A i \in 0..l :
           /\ Piped(q2, i) \subseteq Piped(q, i) \cup f.pieces
           /\ Piped(q2, i) \cup Rest(g, s + (e2 - k)) =
                (Piped(q, i) \cup Rest(h, s + (e - k))) \cup f.pieces
  BY <1>51 DEF Reached
<1>6. PICK m, m2 : m = s + (e - k) /\ m2 = s + (e2 - k)
  OBVIOUS
<1>7. /\ Told(f) /\ SaidBy(f)' /\ Turns' = Turns
      /\ \A x \in f.pieces : x[1] \in Turns
      /\ \A x \in f.pieces : \A y \in Content(x[1]) : ~Later(x, y)
  <2>1. Turns' = Turns
    BY DEF Turns
  <2> QED
    BY <2>1 DEF Tells, SaidBy, IsSaid
<1>8. Laid(p, q2, a, k, e2)'
  <2>1. k <= e2 /\ e2 \in Nat
    BY <1>4, <1>5
  <2>2. ASSUME NEW i \in a + 1..e2
        PROVE  /\ q2[i].type = "event" /\ q2[i].epoch = epoch /\ Told(q2[i]) /\ SaidBy(q2[i])'
               /\ i > k => q2[i].live
               /\ i <= k => ~q2[i].live
    <3>1. CASE i <= e
      <4>1. i \in a + 1..e /\ i \in 1..l /\ (i > k => i \in k + 1..e) /\ (i <= k => i \in a + 1..k)
        BY <1>4, <2>2, <3>1
      <4>2. q2[i] = q[i]
        BY <1>5, <4>1
      <4> QED
        BY <1>3, <4>1, <4>2, TellsNew DEF Laid
    <3>2. CASE ~(i <= e)
      <4>0. e2 = e \/ e2 = e + 1
        BY <1>5
      <4>1. i = e2 /\ e2 = e + 1 /\ i > k
        BY <1>4, <2>1, <2>2, <3>2, <4>0
      <4>2. /\ q2[i].pieces = f.pieces /\ q2[i].kind = f.kind /\ q2[i].turn = f.turn
            /\ q2[i].type = "event" /\ q2[i].epoch = epoch /\ q2[i].live
        BY <1>4, <1>5, <4>1
      <4>3. Told(q2[i]) /\ SaidBy(q2[i])'
        BY <1>7, <4>2 DEF Told, SaidBy
      <4> QED
        BY <4>1, <4>2, <4>3, <1>4
    <3> QED
      BY <3>1, <3>2
  <2>3. a > 0 => q2[a].type = "replay" /\ q2[a].epoch = epoch
    <3>1. a > 0 => a \in 1..l
      BY <1>4
    <3> QED
      BY <1>3, <1>5, <3>1 DEF Laid
  <2>4. /\ \A i \in a + 1..k : ~q2[i].live
        /\ \A i \in k + 1..e2 : q2[i].live
    <3>1. \A i \in a + 1..k : i \in a + 1..e2 /\ i <= k
      BY <1>4, <2>1
    <3>2. \A i \in k + 1..e2 : i \in a + 1..e2 /\ i > k
      BY <1>4, <2>1
    <3> QED
      BY <2>2, <3>1, <3>2
  <2> QED
    BY <1>0, <1>4, <1>5, <2>1, <2>2, <2>3, <2>4 DEF Laid
<1>9. /\ Len(g) = seq + 1 /\ g \in Seq(Frame) /\ g[seq + 1] = f /\ DOMAIN g = 1..seq + 1
      /\ \A n \in 1..seq : g[n] = h[n] /\ DOMAIN h = 1..seq
  BY <1>0, <1>1
<1>10. Numbered(p, q2, g, a, k, e2, s)'
  <2>1. s + (e2 - k) <= seq' /\ (p \in clients' => s + (e2 - k) = seq')
    BY <1>0, <1>5
  <2>2. a > 0 => q2[a].seq = s
    <3>1. a > 0 => a \in 1..l
      BY <1>4
    <3> QED
      BY <1>3, <1>5, <3>1 DEF Numbered
  <2>3. ASSUME NEW i \in a + 1..k
        PROVE  /\ q2[i].seq <= s
               /\ \A n \in DOMAIN g : n > s => g[n].pieces \cap q2[i].pieces = {}
    <3>1. i \in 1..l /\ i \in a + 1..e
      BY <1>4, <2>3
    <3>2. /\ q2[i] = q[i] /\ q[i].seq <= s /\ SaidBy(q[i])
          /\ \A n \in DOMAIN h : n > s => h[n].pieces \cap q[i].pieces = {}
      BY <1>3, <1>5, <2>3, <3>1 DEF Numbered, Laid
    <3>3. f.pieces \cap q[i].pieces = {}
      BY <3>2, TellsNew
    <3>4. ASSUME NEW n \in DOMAIN g, n > s PROVE g[n].pieces \cap q[i].pieces = {}
      <4>1. CASE n = seq + 1
        BY <1>9, <3>3, <4>1
      <4>2. CASE n # seq + 1
        <5>1. n \in 1..seq
          BY <1>0, <1>9, <4>2
        <5> QED
          BY <1>9, <3>2, <3>4, <5>1
      <4> QED
        BY <4>1, <4>2
    <3> QED
      BY <3>2, <3>4
  <2>4. ASSUME NEW i \in k + 1..e2
        PROVE  q2[i].seq = s + (i - k) /\ q2[i].pieces = g[s + (i - k)].pieces
    <3>1. CASE i <= e
      <4>1. i \in k + 1..e /\ i \in 1..l /\ s + (i - k) \in 1..seq
        <5>1. s + (e - k) <= seq
          BY <1>3 DEF Numbered
        <5> QED
          BY <1>0, <1>4, <2>4, <3>1, <5>1
      <4>2. q[i].seq = s + (i - k) /\ q[i].pieces = h[s + (i - k)].pieces
        BY <1>3, <4>1 DEF Numbered
      <4> QED
        BY <1>5, <1>9, <4>1, <4>2
    <3>2. CASE ~(i <= e)
      <4>1. i = e2 /\ e2 = e + 1
        BY <1>4, <1>5, <2>4, <3>2
      <4>2. q2[e2].seq = seq + 1 /\ q2[e2].pieces = f.pieces /\ s + (e2 - k) = seq + 1
        BY <1>4, <1>5, <4>1
      <4> QED
        BY <1>9, <4>1, <4>2
    <3> QED
      BY <3>1, <3>2
  <2> QED
    BY <2>1, <2>2, <2>3, <2>4 DEF Numbered
<1>11. \A i \in 0..l : /\ Piped(q2, i) \subseteq Piped(q, i) \cup f.pieces
                       /\ Piped(q2, i) \cup Rest(g, m2) = (Piped(q, i) \cup Rest(h, m)) \cup f.pieces
  BY <1>5, <1>6
<1>12. Ordered(q2, g, a, e2, m2)'
  <2> SUFFICES ASSUME NEW i \in a + 1..e2, NEW x \in q2[i].pieces, NEW y \in Content(x[1])',
                      Later(x, y)
               PROVE  y \in Piped(q2, i - 1) \cup Rest(g, m2)
    BY DEF Ordered
  <2>1. i - 1 \in 0..l
    BY <1>4, <1>5
  <2>2. Piped(q2, i - 1) \cup Rest(g, m2) = (Piped(q, i - 1) \cup Rest(h, m)) \cup f.pieces
    BY <1>11, <2>1
  <2>3. CASE y \in f.pieces
    BY <2>2, <2>3
  <2>4. CASE y \notin f.pieces
    <3>1. SaidBy(q2[i])'
      BY <1>8 DEF Laid
    <3>2. x[1] \in Turns
      BY <1>7, <3>1 DEF SaidBy, IsSaid
    <3>3. y \in Content(x[1])
      BY <2>4, <3>2, TellsNew
    <3>4. x \notin f.pieces
      BY <1>7, <3>3
    <3>5. i \in a + 1..e /\ i \in 1..l
      BY <1>4, <1>5, <3>4
    <3>6. q2[i] = q[i]
      BY <1>5, <3>5
    <3>7. y \in Piped(q, i - 1) \cup Rest(h, m)
      BY <1>3, <1>6, <3>3, <3>5, <3>6 DEF Ordered
    <3> QED
      BY <2>2, <3>7
  <2> QED
    BY <2>3, <2>4
<1>13. Fresh(p, g, s)'
  BY <1>1, <1>3, FreshGrows
<1>14. 0 \in 0..l
  BY <1>4
<1>15. f.pieces \cap held[p] = {}
  BY TellsNew
<1>16. \A C : HasAll(p, C) => HasAll(p, C \cup f.pieces)'
  BY HasAllGrows
<1>17. a = 0 => Reading(p, q2, g, s, m2)'
  <2> SUFFICES ASSUME a = 0 PROVE Reading(p, q2, g, s, m2)'
    OBVIOUS
  <2>1. Reading(p, q, h, s, m)
    BY <1>3, <1>6
  <2>2. Piped(q2, 0) \cap held[p] = {}
    BY <1>11, <1>14, <1>15, <2>1 DEF Reading
  <2>3. HasAll(p, (Piped(q, 0) \cup Rest(h, m)) \cup f.pieces)'
    BY <1>16, <2>1 DEF Reading
  <2>4. HasAll(p, Piped(q2, 0) \cup Rest(g, m2))'
    BY <1>11, <1>14, <2>3
  <2> QED
    BY <1>0, <2>1, <2>2, <2>4 DEF Reading
<1>18. a > 0 => Answered(p, q2, g, a, s, m2)'
  <2> SUFFICES ASSUME a > 0 PROVE Answered(p, q2, g, a, s, m2)'
    OBVIOUS
  <2>1. Answered(p, q, h, a, s, m)
    BY <1>3, <1>6
  <2>2. a - 1 \in 0..l /\ a \in 1..l /\ (\A i \in 1..a - 1 : i \in 1..l)
    BY <1>4
  <2>3. q2[a] = q[a] /\ \A i \in 1..a - 1 : pipe'[p][i] = pipe[p][i]
    BY <1>1, <1>5, <2>2
  <2>4. Asking(p, g, s, a - 1)'
    <3>1. Asking(p, h, s, a - 1)
      BY <2>1 DEF Answered
    <3>2. a - 1 \in 0..Len(pipe[p]) /\ s \in 0..seq /\ s \in Nat /\ s <= s
      BY <1>1, <1>4, <2>2
    <3>3. Asking(p, Append(h, f), s, a - 1)'
      BY <1>0, <2>3, <3>1, <3>2, AskingGrows
    <3> QED
      BY <1>1, <3>3
  <2>5. CASE q[a].complete
    <3>1. Piped(q2, 0) \cap held[p] = {}
      BY <1>11, <1>14, <1>15, <2>1, <2>5 DEF Answered
    <3>2. HasAll(p, (Piped(q, 0) \cup Rest(h, m)) \cup f.pieces)'
      BY <1>16, <2>1, <2>5 DEF Answered
    <3>3. HasAll(p, Piped(q2, 0) \cup Rest(g, m2))'
      BY <1>11, <1>14, <3>2
    <3> QED
      BY <1>0, <2>3, <2>4, <2>5, <3>1, <3>3 DEF Answered
  <2>6. CASE ~q[a].complete
    <3>0. PICK r : r = q[a]
      OBVIOUS
    <3>1. Kept(p, r)' = Kept(p, r) /\ Kept(p, r) \subseteq held[p]
      BY KeptGrows DEF Kept
    <3>2. Piped(q, 0) \cap Kept(p, r) = {} /\ KeptHasAll(p, r, Piped(q, 0) \cup Rest(h, m))
      BY <2>1, <2>6, <3>0 DEF Answered
    <3>3. Piped(q2, 0) \cap Kept(p, r)' = {}
      BY <1>11, <1>14, <1>15, <3>1, <3>2
    <3>4. KeptHasAll(p, r, (Piped(q, 0) \cup Rest(h, m)) \cup f.pieces)'
      BY <3>2, KeptGrows
    <3>5. KeptHasAll(p, r, Piped(q2, 0) \cup Rest(g, m2))'
      BY <1>11, <1>14, <3>4
    <3>6. q2[a] = r /\ ~r.complete
      BY <2>3, <2>6, <3>0
    <3> QED
      BY <2>4, <3>3, <3>5, <3>6 DEF Answered
  <2> QED
    BY <2>5, <2>6
<1>19. LiveAt(p, q2, g, a, k, e2, s)'
  BY <1>6, <1>8, <1>10, <1>12, <1>13, <1>17, <1>18 DEF LiveAt
<1>20. a \in 0..Len(q2) /\ k \in 0..Len(q2) /\ s \in 0..seq'
  BY <1>0, <1>4, <1>5
<1>21. Live(p, g)'
  BY <1>5, <1>19, <1>20 DEF Live
<1> QED
  BY <1>1, <1>21

\* A frame with nothing of what is in a pipe keeps its pieces apart.
LEMMA ApartAppend ==
  ASSUME NEW q \in Seq(Outbound), Apart(q), NEW c \in Outbound,
         c.type = "event" => c.pieces \cap Piped(q, 0) = {}
  PROVE  Apart(Append(q, c))
<1>1. PICK r, l : r = Append(q, c) /\ l = Len(q)
  OBVIOUS
<1>2. /\ l \in Nat /\ DOMAIN r = 1..l + 1 /\ DOMAIN q = 1..l /\ r[l + 1] = c
      /\ \A n \in 1..l : r[n] = q[n]
  BY <1>1
<1>3. \A n \in 1..l : q[n].type = "event" => q[n].pieces \subseteq Piped(q, 0)
  BY <1>1, PipedIs
<1>4. \A n \in 1..l + 1 : n = l + 1 \/ n \in 1..l
  BY <1>2
<1>5. \A i, j \in 1..l : i # j /\ q[i].type = "event" /\ q[j].type = "event" =>
        q[i].pieces \cap q[j].pieces = {}
  BY <1>2 DEF Apart
<1>6. ASSUME NEW i \in 1..l + 1, NEW j \in 1..l + 1, i # j, r[i].type = "event", r[j].type = "event"
      PROVE  r[i].pieces \cap r[j].pieces = {}
  <2>1. CASE i \in 1..l /\ j \in 1..l
    BY <1>2, <1>5, <1>6, <2>1
  <2>2. CASE i = l + 1 /\ j \in 1..l
    BY <1>2, <1>3, <1>6, <2>2
  <2>3. CASE j = l + 1 /\ i \in 1..l
    BY <1>2, <1>3, <1>6, <2>3
  <2> QED
    BY <1>4, <1>6, <2>1, <2>2, <2>3
<1>7. Apart(r)
  BY <1>2, <1>6 DEF Apart
<1> QED
  BY <1>1, <1>7

\* Reading a pipe keeps its pieces apart, and the first frame is apart from the rest.
LEMMA ApartTail ==
  ASSUME NEW q \in Seq(Outbound), q # <<>>, Apart(q)
  PROVE  /\ Apart(Tail(q))
         /\ q[1].type = "event" => q[1].pieces \cap Piped(q, 1) = {}
<1>1. PICK r, l : r = Tail(q) /\ l = Len(q) - 1
  OBVIOUS
<1>2. /\ r \in Seq(Outbound) /\ l \in Nat /\ Len(q) = l + 1 /\ Len(r) = l
      /\ \A n \in 1..l : r[n] = q[n + 1]
  BY <1>1, TailIs
<1>3. DOMAIN r = 1..l /\ DOMAIN q = 1..l + 1
  BY <1>2
<1>4. \A i, j \in 1..l + 1 : i # j /\ q[i].type = "event" /\ q[j].type = "event" =>
        q[i].pieces \cap q[j].pieces = {}
  BY <1>3 DEF Apart
<1>5. \A i \in 1..l : i + 1 \in 1..l + 1
  BY <1>2
<1>6. Apart(r)
  <2> SUFFICES ASSUME NEW i \in 1..l, NEW j \in 1..l, i # j, r[i].type = "event", r[j].type = "event"
               PROVE  r[i].pieces \cap r[j].pieces = {}
    BY <1>3 DEF Apart
  <2>1. i + 1 # j + 1
    OBVIOUS
  <2> QED
    BY <1>2, <1>4, <1>5, <2>1
<1>7. q[1].type = "event" => q[1].pieces \cap Piped(q, 1) = {}
  <2>1. \A x \in Piped(q, 1) : \E j \in 1..l + 1 : j > 1 /\ q[j].type = "event" /\ x \in q[j].pieces
    BY <1>2, PipedIs
  <2>2. 1 \in 1..l + 1 /\ \A j \in 1..l + 1 : j > 1 => j # 1
    BY <1>2
  <2> QED
    BY <1>4, <2>1, <2>2
<1> QED
  BY <1>1, <1>6, <1>7

\* Whatever is on its way to a page that was answered has been said.
LEMMA LiveIsSaid ==
  ASSUME TypeOK, NEW h, NEW p \in Pages, Live(p, h)
  PROVE  \A x \in Piped(pipe[p], 0) : IsSaid(x)
<1>1. PICK q, l : q = pipe[p] /\ l = Len(q)
  OBVIOUS
<1>2. q \in Seq(Outbound) /\ l \in Nat
  BY <1>1 DEF TypeOK
<1>3. PICK a, k, e \in 0..l, s \in 0..seq : LiveAt(p, q, h, a, k, e, s)
  BY <1>1 DEF Live
<1>4. /\ a \in Nat /\ e \in Nat /\ l \in {e, e + 1} /\ (l = e + 1 => q[e + 1].type = "close")
      /\ a > 0 => q[a].type = "replay" /\ Asking(p, h, s, a - 1)
      /\ \A i \in a + 1..e : SaidBy(q[i])
  <2>1. a \in Nat /\ e \in Nat
    BY <1>2
  <2>2. Laid(p, q, a, k, e) /\ (a > 0 => Answered(p, q, h, a, s, s + (e - k)))
    BY <1>3 DEF LiveAt
  <2>3. /\ l \in {e, e + 1} /\ (l = e + 1 => q[e + 1].type = "close")
        /\ a > 0 => q[a].type = "replay"
        /\ \A i \in a + 1..e : SaidBy(q[i])
    BY <1>1, <2>2 DEF Laid
  <2>4. a > 0 => Asking(p, h, s, a - 1)
    BY <2>2 DEF Answered
  <2> QED
    BY <2>1, <2>3, <2>4
<1>5. ASSUME NEW x \in Piped(q, 0) PROVE IsSaid(x)
  <2>1. PICK j \in 1..l : q[j].type = "event" /\ x \in q[j].pieces
    BY <1>1, <1>2, PipedIs
  <2>2. j # e + 1 \/ l # e + 1
    BY <1>4, <2>1
  <2>3. j \in 1..e /\ j # a
    BY <1>2, <1>4, <2>1, <2>2
  <2>4. CASE j < a
    <3>1. a > 0 /\ j \in 1..a - 1
      BY <1>4, <2>3, <2>4
    <3>2. Greeting(p, j)
      BY <1>4, <3>1 DEF Asking
    <3> QED
      BY <1>1, <2>1, <3>2 DEF Greeting
  <2>5. CASE ~(j < a)
    <3>1. j \in a + 1..e
      BY <1>4, <2>3, <2>5
    <3> QED
      BY <1>4, <2>1, <3>1 DEF SaidBy
  <2> QED
    BY <2>4, <2>5
<1> QED
  BY <1>1, <1>5

\* An emission leaves every page in order.
LEMMA EmissionPage ==
  ASSUME TypeOK, TurnInv, LogInv, NEW f, Emits(f), Tells(f),
         NEW h \in Seq(Frame), PastInv(h), NEW p \in Pages, PageInv(p, h)
  PROVE  PageInv(p, Append(h, f))'
<1>0. /\ f \in Frame /\ f.seq = seq + 1 /\ seq' = seq + 1 /\ seq \in Nat /\ epoch \in Nat
      /\ UNCHANGED <<epoch, link, asked, pageVars>> /\ SendToSession(f)
      /\ pipe[p] \in Seq(Outbound) /\ Len(h) = seq /\ cursor[p] \in Nat
  BY DEF Emits, TypeOK, PastInv
<1>1. /\ \A x \in held[p] : IsSaid(x)
      /\ sought[p] \subseteq stored /\ Apart(pipe[p]) /\ earned[p] <= epoch
      /\ p \in clients => link[p] = "live" /\ Live(p, h)
      /\ link[p] = "down" => Down(p, h)
      /\ link[p] = "greeted" => Asking(p, h, seq, Len(pipe[p]))
      /\ link[p] = "live" => Live(p, h) \/ Stale(p, pipe[p], h)
  BY DEF PageInv
<1>2. PICK g, q, q2, d, s2, l2 : /\ g = Append(h, f) /\ q = pipe[p] /\ q2 = pipe'[p]
                                /\ d = cursor[p] /\ s2 = seq' /\ l2 = Len(pipe'[p])
  OBVIOUS
<1>3. /\ clients' = {x \in clients : ~Behind(x, f)}
      /\ q2 = IF p \notin clients THEN q
              ELSE IF Behind(p, f) THEN Append(q, [type |-> "close"])
              ELSE Append(q, Event(f, TRUE))
  BY <1>0, <1>2 DEF SendToSession
<1>4. Live(p, h) => Live(p, g)'
  BY <1>1, <1>2, EmissionLive
<1>5. \A x \in held'[p] : IsSaid(x)'
  BY <1>0, <1>1, TellsNew DEF pageVars
<1>6. sought'[p] \subseteq stored' /\ earned'[p] <= epoch'
  BY <1>0, <1>1 DEF Tells, pageVars
<1>7. Apart(q2)
  <2>1. CASE p \notin clients
    BY <1>1, <1>2, <1>3, <2>1
  <2>2. CASE p \in clients
    <3>1. Live(p, h)
      BY <1>1, <2>2
    <3>2. \A x \in Piped(q, 0) : IsSaid(x)
      BY <1>2, <3>1, LiveIsSaid
    <3>3. f.pieces \cap Piped(q, 0) = {}
      BY <3>2, TellsNew
    <3>4. Apart(Append(q, Event(f, TRUE)))
      BY <1>0, <1>1, <1>2, <3>3, EventIs, ApartAppend
    <3>5. Apart(Append(q, [type |-> "close"]))
      <4>1. [type |-> "close"] \in Outbound /\ [type |-> "close"].type # "event"
        BY CloseIs
      <4> QED
        BY <1>0, <1>1, <1>2, <4>1, ApartAppend
    <3> QED
      BY <1>3, <2>2, <3>4, <3>5
  <2> QED
    BY <2>1, <2>2
<1>8. p \in clients' => link'[p] = "live" /\ Live(p, g)'
  BY <1>0, <1>1, <1>3, <1>4
<1>9. link[p] = "live" \/ (p \notin clients /\ q2 = q)
  BY <1>1, <1>3
<1>10. ASSUME link[p] = "down" PROVE Down(p, g)'
  <2>1. /\ q = <<>> /\ q2 = <<>> /\ Fresh(p, h, d)
        /\ earned[p] = epoch => d <= seq /\ HasAll(p, Rest(h, d))
    BY <1>1, <1>2, <1>9, <1>10 DEF Down
  <2>2. Fresh(p, g, d)'
    BY <1>1, <1>2, <2>1, FreshGrows
  <2>3. ASSUME earned[p] = epoch PROVE d <= seq' /\ HasAll(p, Rest(g, d))'
    <3>1. d <= seq /\ d \in Nat /\ d \in 0..Len(h)
      BY <1>0, <1>2, <2>1, <2>3
    <3>2. Rest(g, d) = Rest(h, d) \cup f.pieces
      BY <1>0, <1>2, <3>1, RestGrows
    <3>3. HasAll(p, Rest(h, d) \cup f.pieces)'
      BY <2>1, <2>3, HasAllGrows
    <3>4. HasAll(p, Rest(g, d))'
      BY <3>2, <3>3
    <3> QED
      BY <1>0, <3>1, <3>4
  <2>4. cursor'[p] = d /\ earned'[p] = earned[p] /\ epoch' = epoch
    BY <1>0, <1>2 DEF pageVars
  <2> QED
    BY <1>2, <2>1, <2>2, <2>3, <2>4 DEF Down
<1>11. ASSUME link[p] = "greeted" PROVE Asking(p, g, s2, l2)'
  <2>1. PICK c : c = Len(q)
    OBVIOUS
  <2>2. /\ c \in 0..Len(pipe[p]) /\ \A i \in 1..c : pipe'[p][i] = pipe[p][i]
        /\ Asking(p, h, seq, c) /\ l2 = c
    BY <1>0, <1>1, <1>2, <1>9, <1>11, <2>1
  <2>4. seq \in 0..seq /\ s2 \in Nat /\ seq <= s2
    BY <1>0, <1>2
  <2>5. Asking(p, g, s2, c)'
    BY <1>0, <1>1, <1>2, <2>2, <2>4, AskingGrows
  <2> QED
    BY <2>2, <2>5
<1>12. ASSUME Stale(p, q, h) PROVE Stale(p, q2, g)'
  <2>1. /\ p \notin clients /\ earned[p] # epoch /\ q2 = q /\ p \notin clients'
        /\ \A n \in DOMAIN h : h[n].pieces \cap (held[p] \cup Piped(q, 0)) = {}
        /\ \A i \in DOMAIN q :
             /\ q[i].type = "event" => q[i].epoch < epoch /\ Told(q[i]) /\ SaidBy(q[i])
             /\ q[i].type = "replay" => q[i].epoch < epoch
        /\ \E a \in 0..Len(q) :
             /\ \A i \in DOMAIN q : q[i].type = "replay" <=> i = a
             /\ \A i \in 1..a - 1 : q[i].type = "event" => q[i].pieces = {}
             /\ a = 0 \/ q[a].complete => Piped(q, 0) \cap held[p] = {}
             /\ a > 0 => Piped(q, 0) \cap Kept(p, q[a]) = {}
    BY <1>3, <1>12 DEF Stale
  <2>2. f.pieces \cap held[p] = {}
    BY <1>1, TellsNew
  <2>3. f.pieces \cap Piped(q, 0) = {}
    <3>1. q \in Seq(Outbound) /\ DOMAIN q = 1..Len(q)
      BY <1>0, <1>2
    <3>2. ASSUME NEW x \in Piped(q, 0) PROVE x \notin f.pieces
      <4>1. PICK j \in 1..Len(q) : q[j].type = "event" /\ x \in q[j].pieces
        BY <3>1, PipedIs
      <4>2. SaidBy(q[j])
        BY <2>1, <3>1, <4>1
      <4> QED
        BY <4>1, <4>2, TellsNew
    <3> QED
      BY <3>2
  <2>4. ASSUME NEW n \in DOMAIN g PROVE g[n].pieces \cap (held[p] \cup Piped(q, 0)) = {}
    <3>1. DOMAIN g = 1..seq + 1 /\ g[seq + 1] = f /\ DOMAIN h = 1..seq /\ \A m \in 1..seq : g[m] = h[m]
      BY <1>0, <1>2
    <3>2. CASE n = seq + 1
      BY <2>2, <2>3, <3>1, <3>2
    <3>3. CASE n # seq + 1
      <4>1. n \in 1..seq
        BY <1>0, <3>1, <3>3
      <4> QED
        BY <2>1, <3>1, <4>1
    <3> QED
      BY <3>2, <3>3
  <2>5. \A i \in DOMAIN q :
          /\ q[i].type = "event" => q[i].epoch < epoch /\ Told(q[i]) /\ SaidBy(q[i])'
          /\ q[i].type = "replay" => q[i].epoch < epoch
    BY <2>1, TellsNew
  <2>6. /\ epoch' = epoch /\ earned' = earned /\ held' = held
        /\ \A r : Kept(p, r)' = Kept(p, r)
    BY <1>0 DEF pageVars, Kept
  <2> QED
    BY <2>1, <2>4, <2>5, <2>6 DEF Stale
<1>13. link' = link
  BY <1>0
<1>14. link'[p] = "live" => Live(p, g)' \/ Stale(p, q2, g)'
  BY <1>1, <1>2, <1>4, <1>12, <1>13
<1>15. Stale(p, q2, g)' => Stale(p, pipe[p], g)'
  BY <1>2
<1>16. Asking(p, g, s2, l2)' => Asking(p, g, seq, Len(pipe[p]))'
  BY <1>2
<1>17. PageInv(p, g)'
  BY <1>2, <1>5, <1>6, <1>7, <1>8, <1>10, <1>11, <1>13, <1>14, <1>15, <1>16 DEF PageInv
<1> QED
  BY <1>2, <1>17

-----------------------------------------------------------------------------
(* What a page does                                                        *)

\* What the server keeps is not moved by a page.
LEMMA Quiet ==
  ASSUME UNCHANGED <<serverVars, turnVars, epoch>>
  PROVE  /\ \A x : IsSaid(x)' <=> IsSaid(x)
         /\ \A g : SaidBy(g)' <=> SaidBy(g)
         /\ \A q, h, a, e, m : Ordered(q, h, a, e, m)' <=> Ordered(q, h, a, e, m)
         /\ \A t, H, F, P, C : \A g \in BOOLEAN :
              Accounted(t, H, F, g, P, C)' <=> Accounted(t, H, F, g, P, C)
         /\ TurnInv => TurnInv'
         /\ LogInv => LogInv'
         /\ \A h : PastInv(h) => PastInv(h)'
<1>0. UNCHANGED <<seq, ring, lastAppended, turnLog, turns, open, said, stored, lost, epoch>>
  BY DEF serverVars, turnVars
<1>1. \A t : Content(t)' = Content(t)
  BY <1>0 DEF Content
<1>2. \A x : IsSaid(x)' <=> IsSaid(x)
  <2>1. Turns' = Turns
    BY DEF Turns
  <2> QED
    BY <1>1, <2>1 DEF IsSaid
<1>3. \A g : SaidBy(g)' <=> SaidBy(g)
  BY <1>2 DEF SaidBy
<1>4. \A q, h, a, e, m : Ordered(q, h, a, e, m)' <=> Ordered(q, h, a, e, m)
  BY <1>1 DEF Ordered
<1>5. \A t, H, F, P, C : \A g \in BOOLEAN :
        Accounted(t, H, F, g, P, C)' <=> Accounted(t, H, F, g, P, C)
  BY <1>0, <1>1 DEF Accounted
<1>6. TurnInv => TurnInv'
  BY <1>0 DEF TurnInv, Turns
<1>7. LogInv => LogInv'
  <2>1. PICK E, c : E = turnLog.entries /\ c = Content(turns)
    OBVIOUS
  <2>2. turnLog'.entries = E /\ Content(turns)' = c
    BY <1>0, <2>1 DEF Content
  <2>3. \A i : SaidBy(E[i])' <=> SaidBy(E[i])
    BY <1>3
  <2> QED
    BY <1>0, <2>1, <2>2, <2>3 DEF LogInv
<1>8. ASSUME NEW h, PastInv(h) PROVE PastInv(h)'
  BY <1>0, <1>1, <1>3, <1>8 DEF PastInv
<1> QED
  BY <1>2, <1>3, <1>4, <1>5, <1>6, <1>7, <1>8

\* Nor is what is laid out for a page that stays attached or detached.
LEMMA StillLaid ==
  ASSUME UNCHANGED <<serverVars, turnVars, epoch>>,
         NEW p, p \in clients' <=> p \in clients
  PROVE  /\ \A q, a, k, e : Laid(p, q, a, k, e) => Laid(p, q, a, k, e)'
         /\ \A q, h, a, k, e, s : Numbered(p, q, h, a, k, e, s) => Numbered(p, q, h, a, k, e, s)'
<1>0. UNCHANGED <<seq, epoch>>
  BY DEF serverVars
<1>1. \A g : SaidBy(g)' <=> SaidBy(g)
  BY Quiet
<1>2. ASSUME NEW q, NEW a, NEW k, NEW e, Laid(p, q, a, k, e)
      PROVE  Laid(p, q, a, k, e)'
  BY <1>0, <1>1, <1>2 DEF Laid
<1>3. ASSUME NEW q, NEW h, NEW a, NEW k, NEW e, NEW s, Numbered(p, q, h, a, k, e, s)
      PROVE  Numbered(p, q, h, a, k, e, s)'
  BY <1>0, <1>3 DEF Numbered
<1> QED
  BY <1>2, <1>3

\* A page with the transcript, the promises and the gaps it had.
SamePage(p) ==
  /\ held'[p] = held[p] /\ sought'[p] = sought[p] /\ patchy'[p] = patchy[p]
  /\ p \in torn' <=> p \in torn
  /\ p \in owing' <=> p \in owing

\* What a page would keep, and what has not reached it, as long as its pieces
\* are the same.
LEMMA StillKept ==
  ASSUME UNCHANGED <<serverVars, turnVars, epoch>>, NEW p, held'[p] = held[p]
  PROVE  /\ \A r : Kept(p, r)' = Kept(p, r)
         /\ \A r, C : KeptHasAll(p, r, C) => KeptHasAll(p, r, C)'
         /\ \A h, b : Fresh(p, h, b)' <=> Fresh(p, h, b)
<1>0. turns' = turns /\ held'[p] = held[p]
  BY DEF turnVars
<1>1. \A t, H, F, P, C : \A g \in BOOLEAN :
        Accounted(t, H, F, g, P, C)' <=> Accounted(t, H, F, g, P, C)
  BY Quiet
<1>5. \A r : Kept(p, r)' = Kept(p, r)
  BY <1>0 DEF Kept
<1>6. ASSUME NEW r, NEW C, KeptHasAll(p, r, C) PROVE KeptHasAll(p, r, C)'
  <2> SUFFICES ASSUME NEW t \in 1..turns'
               PROVE  Accounted(t, Kept(p, r), {}, TRUE, {x[1] : x \in Kept(p, r)}, C)'
    BY DEF KeptHasAll
  <2>1. PICK K, L : K = Kept(p, r) /\ L = {x[1] : x \in Kept(p, r)}
    OBVIOUS
  <2>2. Accounted(t, K, {}, TRUE, L, C)
    BY <1>0, <1>6, <2>1 DEF KeptHasAll
  <2>3. Accounted(t, K, {}, TRUE, L, C)'
    BY <1>1, <2>2
  <2>4. Kept(p, r)' = K
    BY <1>5, <2>1
  <2> QED
    BY <2>1, <2>3, <2>4 DEF Accounted
<1>7. \A h, b : Fresh(p, h, b)' <=> Fresh(p, h, b)
  BY <1>0 DEF Fresh
<1> QED
  BY <1>5, <1>6, <1>7

\* What a page has, or will have, is as it was while nothing moves but places in pipes.
LEMMA StillHasAll ==
  ASSUME UNCHANGED <<serverVars, turnVars, epoch>>, NEW p, SamePage(p)
  PROVE  /\ \A C : HasAll(p, C) => HasAll(p, C)'
         /\ \A r : Kept(p, r)' = Kept(p, r)
         /\ \A r, C : KeptHasAll(p, r, C) => KeptHasAll(p, r, C)'
         /\ \A h, b : Fresh(p, h, b) => Fresh(p, h, b)'
<1>0. /\ turns' = turns
      /\ held'[p] = held[p] /\ sought'[p] = sought[p] /\ patchy'[p] = patchy[p]
      /\ p \in torn' <=> p \in torn
      /\ p \in owing' <=> p \in owing
  BY DEF turnVars, SamePage
<1>1. \A t, H, F, P, C : \A g \in BOOLEAN :
        Accounted(t, H, F, g, P, C)' <=> Accounted(t, H, F, g, P, C)
  BY Quiet
<1>2. PICK H, F, P : H = held[p] /\ F = sought[p] /\ P = patchy[p]
  OBVIOUS
<1>3. FALSE \in BOOLEAN /\ held'[p] = H /\ sought'[p] = F /\ patchy'[p] = P
  BY <1>0, <1>2
<1>4. ASSUME NEW C, HasAll(p, C) PROVE HasAll(p, C)'
  <2> SUFFICES ASSUME p \notin torn' \cup owing', NEW t \in 1..turns'
               PROVE  Accounted(t, held[p], sought[p], FALSE, patchy[p], C)'
    BY DEF HasAll
  <2>1. Accounted(t, H, F, FALSE, P, C)
    BY <1>0, <1>2, <1>4 DEF HasAll
  <2>2. Accounted(t, H, F, FALSE, P, C)'
    BY <1>1, <1>3, <2>1
  <2> QED
    BY <1>3, <2>2 DEF Accounted
<1> QED
  BY <1>0, <1>4, StillKept

\* A page whose socket and pieces stay as they are.
LEMMA SameSocket ==
  ASSUME UNCHANGED <<serverVars, turnVars, epoch>>, NEW p, NEW h,
         held'[p] = held[p], sought'[p] \subseteq stored,
         \A C : HasAll(p, C) => HasAll(p, C)',
         p \in clients' <=> p \in clients,
         link'[p] = link[p], asked'[p] = asked[p], pipe'[p] = pipe[p],
         cursor'[p] = cursor[p], earned'[p] = earned[p], PageInv(p, h)
  PROVE  PageInv(p, h)'
<1>0. seq' = seq /\ stored' = stored /\ epoch' = epoch
  BY DEF serverVars, turnVars
<1>1. PICK q, d, o, H : q = pipe[p] /\ d = cursor[p] /\ o = asked[p] /\ H = held[p]
  OBVIOUS
<1>2. pipe'[p] = q /\ cursor'[p] = d /\ asked'[p] = o /\ held'[p] = H
  BY <1>1
<1>3. /\ \A C : HasAll(p, C) => HasAll(p, C)'
      /\ \A r : Kept(p, r)' = Kept(p, r)
      /\ \A r, C : KeptHasAll(p, r, C) => KeptHasAll(p, r, C)'
      /\ \A b : Fresh(p, h, b) => Fresh(p, h, b)'
  BY StillKept
<1>4. \A i : Greeting(p, i) => Greeting(p, i)'
  BY <1>1, <1>2 DEF Greeting
<1>5. ASSUME NEW s, NEW c, Asking(p, h, s, c) PROVE Asking(p, h, s, c)'
  BY <1>0, <1>1, <1>2, <1>3, <1>4, <1>5 DEF Asking
<1>6. Down(p, h) => Down(p, h)'
  BY <1>0, <1>1, <1>2, <1>3 DEF Down
<1>7. ASSUME NEW a, NEW k, NEW e, NEW s, LiveAt(p, q, h, a, k, e, s)
      PROVE  LiveAt(p, q, h, a, k, e, s)'
  <2>1. Laid(p, q, a, k, e)' /\ Numbered(p, q, h, a, k, e, s)'
    BY <1>7, StillLaid DEF LiveAt
  <2>2. Ordered(q, h, a, e, s + (e - k))' /\ Fresh(p, h, s)'
    BY <1>3, <1>7, Quiet DEF LiveAt
  <2>3. a = 0 => Reading(p, q, h, s, s + (e - k))'
    BY <1>0, <1>1, <1>2, <1>3, <1>7 DEF LiveAt, Reading
  <2>4. a > 0 => Answered(p, q, h, a, s, s + (e - k))'
    BY <1>2, <1>1, <1>3, <1>5, <1>7 DEF LiveAt, Answered
  <2> QED
    BY <2>1, <2>2, <2>3, <2>4 DEF LiveAt
<1>8. Live(p, h) => Live(p, h)'
  BY <1>0, <1>1, <1>2, <1>7 DEF Live
<1>9. Stale(p, q, h) => Stale(p, q, h)'
  <2>1. \A g : SaidBy(g)' <=> SaidBy(g)
    BY Quiet
  <2> QED
    BY <1>0, <1>1, <1>2, <1>3, <2>1 DEF Stale
<1>10. \A x \in H : IsSaid(x)'
  BY <1>1, Quiet DEF PageInv
<1>11. PICK c : c = Len(q)
  OBVIOUS
<1>12. Asking(p, h, seq, Len(pipe[p])) => Asking(p, h, seq, Len(pipe[p]))'
  <2>1. PICK s : s = seq
    OBVIOUS
  <2>2. Asking(p, h, s, c) => Asking(p, h, s, c)'
    BY <1>5
  <2>3. s = seq /\ s = seq' /\ c = Len(pipe[p]) /\ c = Len(pipe'[p])
    BY <1>0, <1>1, <1>2, <1>11, <2>1
  <2> QED
    BY <2>2, <2>3
<1>13. Stale(p, pipe[p], h) => Stale(p, pipe[p], h)'
  BY <1>1, <1>2, <1>9
<1> QED
  BY <1>0, <1>1, <1>2, <1>6, <1>8, <1>10, <1>12, <1>13 DEF PageInv

\* Another page's step leaves a page as it is.
LEMMA OtherPage ==
  ASSUME UNCHANGED <<serverVars, turnVars, epoch>>, NEW p, SamePage(p), NEW h,
         p \in clients' <=> p \in clients,
         link'[p] = link[p], asked'[p] = asked[p], pipe'[p] = pipe[p],
         cursor'[p] = cursor[p], earned'[p] = earned[p], PageInv(p, h)
  PROVE  PageInv(p, h)'
<1>1. held'[p] = held[p] /\ sought'[p] \subseteq stored
  BY DEF SamePage, PageInv
<1>2. \A C : HasAll(p, C) => HasAll(p, C)'
  BY StillHasAll
<1> QED
  BY <1>1, <1>2, SameSocket

\* One page's value put in its place.
LEMMA PutIs ==
  ASSUME NEW S, NEW f \in [Pages -> S], NEW p \in Pages, NEW v \in S
  PROVE  /\ [f EXCEPT ![p] = v] \in [Pages -> S]
         /\ [f EXCEPT ![p] = v][p] = v
         /\ \A z \in Pages : z # p => [f EXCEPT ![p] = v][z] = f[z]
OBVIOUS

\* What greet and the replay's header look like on the wire.
LEMMA GreetingIs ==
  ASSUME seq \in Nat, epoch \in Nat, NEW n \in Nat
  PROVE  LET s == [Event(StatusAt(seq), TRUE) EXCEPT !.epoch = n] IN
         /\ s \in Outbound /\ s.type = "event" /\ s.kind = "status" /\ s.turn = 0
         /\ s.pieces = {} /\ s.epoch = n /\ s.seq = seq
<1>1. StatusAt(seq) \in Frame /\ StatusAt(seq).kind = "status" /\ StatusAt(seq).turn = 0
      /\ StatusAt(seq).pieces = {} /\ StatusAt(seq).seq = seq
  BY ReplayAssumption DEF StatusAt, Frame, Kinds
<1>2. PICK f : f = StatusAt(seq)
  OBVIOUS
<1>3. f \in Frame
  BY <1>1, <1>2
<1> DEFINE W == [type : {"event"}, kind : Kinds, seq : Nat, turn : 0..MaxTurns,
                 pieces : SUBSET Pieces, live : BOOLEAN, epoch : Nat]
<1>4. PICK c : c = Event(f, TRUE)
  OBVIOUS
<1>5. c \in W
  BY <1>3, <1>4 DEF Event, Frame
<1>6. /\ c.type = "event" /\ c.kind = f.kind /\ c.turn = f.turn
      /\ c.pieces = f.pieces /\ c.seq = f.seq
  BY <1>3, <1>4, EventIs
<1>7. PICK s : s = [c EXCEPT !.epoch = n]
  OBVIOUS
<1>8. /\ s \in W /\ s.type = c.type /\ s.kind = c.kind /\ s.turn = c.turn
      /\ s.pieces = c.pieces /\ s.seq = c.seq /\ s.epoch = n
  BY <1>5, <1>7
<1>9. s \in Outbound
  BY <1>8 DEF Outbound
<1> HIDE DEF W
<1> QED
  BY <1>1, <1>2, <1>4, <1>6, <1>7, <1>8, <1>9

\* The replay's header is a frame.
LEMMA ReplayIs ==
  ASSUME NEW n \in Nat, NEW c \in BOOLEAN, NEW t \in 0..MaxTurns, NEW e \in Nat
  PROVE  LET r == [type |-> "replay", seq |-> n, complete |-> c, resuming |-> t, epoch |-> e]
         IN r \in Outbound /\ r.type = "replay"
BY DEF Outbound

\* The frames a replay brings.
LEMMA ReplayFrames ==
  ASSUME NEW frames \in Seq(Frame), NEW q \in Seq(Outbound), epoch \in Nat
  PROVE  LET r == q \o [i \in 1..Len(frames) |-> Event(frames[i], FALSE)] IN
         /\ r \in Seq(Outbound) /\ Len(r) = Len(q) + Len(frames)
         /\ \A i \in 1..Len(q) : r[i] = q[i]
         /\ \A i \in 1..Len(frames) : r[Len(q) + i] = Event(frames[i], FALSE)
<1> DEFINE w == [i \in 1..Len(frames) |-> Event(frames[i], FALSE)]
<1>1. Len(frames) \in Nat /\ \A i \in 1..Len(frames) : frames[i] \in Frame
  OBVIOUS
<1>2. \A i \in 1..Len(frames) : Event(frames[i], FALSE) \in Outbound
  BY <1>1, EventIs
<1>3. w \in Seq(Outbound) /\ Len(w) = Len(frames) /\ \A i \in 1..Len(frames) : w[i] = Event(frames[i], FALSE)
  <2>1. PICK n : n = Len(frames)
    OBVIOUS
  <2>2. n \in Nat /\ \A i \in 1..n : Event(frames[i], FALSE) \in Outbound
    BY <1>1, <1>2, <2>1
  <2> DEFINE u == [i \in 1..n |-> Event(frames[i], FALSE)]
  <2>3. u \in Seq(Outbound) /\ Len(u) = n /\ \A i \in 1..n : u[i] = Event(frames[i], FALSE)
    <3>1. u \in [1..n -> Outbound] /\ \A i \in 1..n : u[i] = Event(frames[i], FALSE)
      BY <2>2
    <3>2. n \in Nat
      BY <2>2
    <3> HIDE DEF u
    <3>3. u \in Seq(Outbound) /\ Len(u) = n
      BY <3>1, <3>2
    <3> QED
      BY <3>1, <3>3
  <2>4. w = u
    BY <2>1
  <2> HIDE DEF w, u
  <2> QED
    BY <2>1, <2>3, <2>4
<1> HIDE DEF w
<1>4. /\ q \o w \in Seq(Outbound) /\ Len(q \o w) = Len(q) + Len(w)
      /\ \A i \in 1..Len(q) : (q \o w)[i] = q[i]
      /\ \A i \in 1..Len(w) : (q \o w)[Len(q) + i] = w[i]
  BY <1>3
<1> QED
  BY <1>3, <1>4 DEF w

\* What a resume answers.
ReplayOf(p) ==
  LET last     == asked[p].last
      complete == last > 0 /\ Covers(last)
  IN  [type |-> "replay", seq |-> seq, complete |-> complete,
       resuming |-> IF complete \/ ~LogIsWhole THEN 0 ELSE turnLog.turn, epoch |-> epoch]

FramesOf(p) ==
  IF ReplayOf(p).complete THEN After(asked[p].last)
  ELSE IF ReplayOf(p).resuming # 0 THEN turnLog.entries ELSE <<>>

\* The answer to a resume, named part by part.
LEMMA ResumeIs ==
  ASSUME TypeOK, NEW h \in Seq(Frame), PastInv(h), NEW p \in Pages, Resume(p)
  PROVE  LET r == ReplayOf(p)
             F == FramesOf(p)
         IN /\ r \in Outbound /\ r.type = "replay" /\ r.seq = seq /\ r.epoch = epoch
            /\ r.complete \in BOOLEAN /\ r.complete = (asked[p].last > 0 /\ Covers(asked[p].last))
            /\ r.resuming = IF r.complete \/ ~LogIsWhole THEN 0 ELSE turnLog.turn
            /\ F \in Seq(Frame)
            /\ pipe' = [pipe EXCEPT ![p] =
                 Append(pipe[p], r) \o [i \in 1..Len(F) |-> Event(F[i], FALSE)]]
            /\ owing' = IF r.complete /\ asked[p].epoch # epoch THEN owing \cup {p} ELSE owing
<1> DEFINE r == ReplayOf(p)
           F == FramesOf(p)
           c == asked[p].last > 0 /\ Covers(asked[p].last)
           n == IF c \/ ~LogIsWhole THEN 0 ELSE turnLog.turn
<1>0. /\ asked[p].last \in Nat /\ seq \in Nat /\ epoch \in Nat /\ ring \in Seq(Frame)
      /\ turnLog.turn \in 0..MaxTurns /\ turnLog.entries \in Seq(Frame) /\ 0 \in 0..MaxTurns
  BY ReplayAssumption DEF TypeOK
<1>1. r = [type |-> "replay", seq |-> seq, complete |-> c, resuming |-> n, epoch |-> epoch]
  BY DEF ReplayOf
<1>2. c \in BOOLEAN /\ n \in 0..MaxTurns
  BY <1>0
<1>3. PICK c2, n2 : c2 = c /\ n2 = n
  OBVIOUS
<1>4. c2 \in BOOLEAN /\ n2 \in 0..MaxTurns
  BY <1>2, <1>3
<1>5. r = [type |-> "replay", seq |-> seq, complete |-> c2, resuming |-> n2, epoch |-> epoch]
  BY <1>1, <1>3
<1>6. /\ pipe' = [pipe EXCEPT ![p] = Append(pipe[p], r) \o [i \in 1..Len(F) |-> Event(F[i], FALSE)]]
      /\ owing' = IF r.complete /\ asked[p].epoch # epoch THEN owing \cup {p} ELSE owing
  BY DEF Resume, ReplayOf, FramesOf
<1> HIDE DEF r
<1>7. /\ r \in Outbound /\ r.type = "replay" /\ r.seq = seq /\ r.epoch = epoch
      /\ r.complete = c2 /\ r.resuming = n2
  BY <1>0, <1>4, <1>5, ReplayIs
<1>8. r.complete = c /\ r.complete \in BOOLEAN
  BY <1>3, <1>4, <1>7
<1>9. r.resuming = IF r.complete \/ ~LogIsWhole THEN 0 ELSE turnLog.turn
  BY <1>3, <1>7
<1>10. F \in Seq(Frame)
  <2>1. r.complete => After(asked[p].last) \in Seq(Frame)
    BY <1>0, <1>8, AfterIs
  <2>2. <<>> \in Seq(Frame)
    OBVIOUS
  <2> QED
    BY <1>0, <2>1, <2>2 DEF FramesOf, r
<1> QED
  BY <1>6, <1>7, <1>8, <1>9, <1>10 DEF r

\* Every page but p is as it was.
Others(p) ==
  \A z \in Pages : z # p =>
    /\ SamePage(z) /\ (z \in clients' <=> z \in clients)
    /\ link'[z] = link[z] /\ asked'[z] = asked[z] /\ pipe'[z] = pipe[z]
    /\ cursor'[z] = cursor[z] /\ earned'[z] = earned[z]

\* A step of a page moves nothing of the server's and nothing of another page,
\* and keeps the state's shapes.
LEMMA PageMovesItself ==
  ASSUME TypeOK, NEW h \in Seq(Frame), PastInv(h), NEW p \in Pages,
         PageStep(p) \/ Connect(p) \/ Drop(p)
  PROVE  UNCHANGED <<serverVars, turnVars, epoch>> /\ Others(p) /\ TypeOK'
<1>0. /\ seq \in Nat /\ epoch \in Nat /\ MaxTurns \in Nat
      /\ link \in [Pages -> {"down", "greeted", "live"}]
      /\ asked \in [Pages -> [last : Nat, epoch : Nat]]
      /\ pipe \in [Pages -> Seq(Outbound)] /\ pipe[p] \in Seq(Outbound)
      /\ cursor \in [Pages -> Nat] /\ held \in [Pages -> SUBSET Pieces]
      /\ sought \in [Pages -> SUBSET Turns]
      /\ earned \in [Pages -> Nat] /\ patchy \in [Pages -> SUBSET Turns]
      /\ torn \subseteq Pages /\ owing \subseteq Pages /\ clients \subseteq Pages
      /\ stored \subseteq Turns
  BY ReplayAssumption DEF TypeOK
<1>1. UNCHANGED <<serverVars, turnVars, epoch>>
  BY DEF PageStep, Connect, Drop, Resume, ApplyEvent, ApplyConnected, ApplyReplay
<1>2. UNCHANGED <<seq, ring, lastAppended, turnLog, turns, open, said, stored, lost, epoch>>
  BY <1>1 DEF serverVars, turnVars
<1> SUFFICES Others(p) /\ TypeOK'
  BY <1>1
<1> USE DEF Others, SamePage
<1>3. CASE Connect(p)
  <2>1. PICK v, w : /\ v = [last |-> cursor[p], epoch |-> earned[p]]
                    /\ w = <<[type |-> "connected", lastSeq |-> seq]>>
                      \o IF open THEN <<[Event(StatusAt(seq), TRUE) EXCEPT !.epoch = earned[p]]>>
                         ELSE <<>>
    OBVIOUS
  <2>2. /\ link' = [link EXCEPT ![p] = "greeted"] /\ asked' = [asked EXCEPT ![p] = v]
        /\ pipe' = [pipe EXCEPT ![p] = w] /\ UNCHANGED <<clients, pageVars>>
    BY <1>3, <2>1 DEF Connect
  <2>3. v \in [last : Nat, epoch : Nat]
    BY <1>0, <2>1
  <2>4. w \in Seq(Outbound)
    <3>1. earned[p] \in Nat
      BY <1>0
    <3>2. [Event(StatusAt(seq), TRUE) EXCEPT !.epoch = earned[p]] \in Outbound
      BY <1>0, <3>1, GreetingIs
    <3>3. [type |-> "connected", lastSeq |-> seq] \in Outbound
      BY <1>0 DEF Outbound
    <3>4. PICK b, c : /\ b = [type |-> "connected", lastSeq |-> seq]
                      /\ c = [Event(StatusAt(seq), TRUE) EXCEPT !.epoch = earned[p]]
      OBVIOUS
    <3>5. <<b>> \in Seq(Outbound) /\ <<c>> \in Seq(Outbound) /\ <<>> \in Seq(Outbound)
      BY <3>2, <3>3, <3>4
    <3>6. w = <<b>> \o IF open THEN <<c>> ELSE <<>>
      BY <2>1, <3>4
    <3> QED
      BY <3>5, <3>6
  <2>5. /\ link' \in [Pages -> {"down", "greeted", "live"}]
        /\ asked' \in [Pages -> [last : Nat, epoch : Nat]] /\ pipe' \in [Pages -> Seq(Outbound)]
        /\ \A z \in Pages : z # p => link'[z] = link[z] /\ asked'[z] = asked[z] /\ pipe'[z] = pipe[z]
    BY <1>0, <2>2, <2>3, <2>4
  <2> QED
    BY <1>2, <2>2, <2>5 DEF TypeOK, pageVars
<1>4. CASE Resume(p)
  <2>1. PICK r, F : r = ReplayOf(p) /\ F = FramesOf(p)
    OBVIOUS
  <2>2. /\ r \in Outbound /\ F \in Seq(Frame)
        /\ pipe' = [pipe EXCEPT ![p] =
             Append(pipe[p], r) \o [i \in 1..Len(F) |-> Event(F[i], FALSE)]]
        /\ owing' = IF r.complete /\ asked[p].epoch # epoch THEN owing \cup {p} ELSE owing
    BY <1>4, <2>1, ResumeIs
  <2>3. PICK u, w : u = Append(pipe[p], r) /\ w = u \o [i \in 1..Len(F) |-> Event(F[i], FALSE)]
    OBVIOUS
  <2>4. u \in Seq(Outbound)
    BY <1>0, <2>2, <2>3
  <2>5. w \in Seq(Outbound)
    BY <1>0, <2>2, <2>3, <2>4, ReplayFrames
  <2>6. /\ link' = [link EXCEPT ![p] = "live"] /\ clients' = clients \cup {p}
        /\ UNCHANGED <<asked, cursor, held, sought, earned, patchy, torn>>
    BY <1>4 DEF Resume
  <2>7. pipe' = [pipe EXCEPT ![p] = w]
    BY <2>2, <2>3
  <2>8. /\ link' \in [Pages -> {"down", "greeted", "live"}] /\ pipe' \in [Pages -> Seq(Outbound)]
        /\ \A z \in Pages : z # p => link'[z] = link[z] /\ pipe'[z] = pipe[z]
    BY <1>0, <2>5, <2>6, <2>7
  <2>9. owing' \subseteq Pages /\ \A z \in Pages : z # p => (z \in owing' <=> z \in owing)
    BY <1>0, <2>2
  <2> QED
    BY <1>2, <2>6, <2>8, <2>9 DEF TypeOK
<1>5. CASE ApplyEvent(p)
  <2>1. pipe[p] # <<>> /\ Head(pipe[p]).type = "event" /\ pipe' = [pipe EXCEPT ![p] = Tail(pipe[p])]
    BY <1>5 DEF ApplyEvent, Next1, Take
  <2>2. PICK f : f = Head(pipe[p])
    OBVIOUS
  <2>3. /\ Tail(pipe[p]) \in Seq(Outbound) /\ f \in Outbound
        /\ f.seq \in Nat /\ f.epoch \in Nat /\ f.pieces \subseteq Pieces
    BY <1>0, <2>1, <2>2, TailIs, OutboundIs
  <2>4. /\ cursor' = [cursor EXCEPT ![p] = IF f.seq > cursor[p] THEN f.seq ELSE cursor[p]]
        /\ earned' = [earned EXCEPT ![p] = IF f.seq >= cursor[p] THEN f.epoch ELSE earned[p]]
        /\ held' = [held EXCEPT ![p] =
             IF f.kind = "start" /\ ~Watched(p, f.turn) THEN (held[p] \ Of(p, f.turn)) \cup f.pieces
             ELSE IF Finished(p, f.turn) THEN held[p]
             ELSE held[p] \cup f.pieces]
        /\ sought' = [sought EXCEPT ![p] =
             IF f.kind = "start" /\ ~Watched(p, f.turn) THEN sought[p] \ {f.turn}
             ELSE IF f.kind = "end" /\ ~Watched(p, f.turn) THEN stored
             ELSE sought[p]]
        /\ UNCHANGED <<clients, link, asked, patchy, torn, owing>>
    BY <1>5, <2>2 DEF ApplyEvent, Advance
  <2>5. cursor' \in [Pages -> Nat] /\ earned' \in [Pages -> Nat]
    BY <1>0, <2>3, <2>4
  <2>6. held' \in [Pages -> SUBSET Pieces] /\ \A z \in Pages : z # p => held'[z] = held[z]
    <3>1. \E K \in SUBSET Pieces : held' = [held EXCEPT ![p] = K]
      <4>1. held[p] \in SUBSET Pieces
        BY <1>0
      <4>2. /\ (held[p] \ Of(p, f.turn)) \cup f.pieces \in SUBSET Pieces
            /\ held[p] \cup f.pieces \in SUBSET Pieces
        BY <2>3, <4>1
      <4>3. held' = [held EXCEPT ![p] =
              IF f.kind = "start" /\ ~Watched(p, f.turn) THEN (held[p] \ Of(p, f.turn)) \cup f.pieces
              ELSE IF Finished(p, f.turn) THEN held[p] ELSE held[p] \cup f.pieces]
        BY <2>4
      <4> QED
        BY <4>1, <4>2, <4>3
    <3> QED
      BY <1>0, <3>1
  <2>7. sought' \in [Pages -> SUBSET Turns] /\ \A z \in Pages : z # p => sought'[z] = sought[z]
    <3>1. \E K \in SUBSET Turns : sought' = [sought EXCEPT ![p] = K]
      <4>1. sought[p] \in SUBSET Turns /\ sought[p] \ {f.turn} \in SUBSET Turns
            /\ stored \in SUBSET Turns
        BY <1>0
      <4> QED
        BY <2>4, <4>1
    <3> QED
      BY <1>0, <3>1
  <2>9. /\ pipe' \in [Pages -> Seq(Outbound)]
        /\ \A z \in Pages : z # p => pipe'[z] = pipe[z] /\ cursor'[z] = cursor[z] /\ earned'[z] = earned[z]
    BY <1>0, <2>1, <2>3, <2>4
  <2> QED
    BY <1>2, <2>4, <2>5, <2>6, <2>7, <2>9 DEF TypeOK
<1>6. CASE ApplyConnected(p)
  <2>1. /\ pipe[p] # <<>> /\ Head(pipe[p]).type = "connected" /\ pipe' = [pipe EXCEPT ![p] = Tail(pipe[p])]
        /\ cursor' = [cursor EXCEPT ![p] = IF Head(pipe[p]).lastSeq < cursor[p]
                                             THEN Head(pipe[p]).lastSeq ELSE cursor[p]]
        /\ UNCHANGED <<clients, link, asked, held, sought, earned, patchy, torn, owing>>
    BY <1>6 DEF ApplyConnected, Next1, Take
  <2>2. Tail(pipe[p]) \in Seq(Outbound) /\ Head(pipe[p]).lastSeq \in Nat
    BY <1>0, <2>1, TailIs, OutboundIs
  <2>3. /\ pipe' \in [Pages -> Seq(Outbound)] /\ cursor' \in [Pages -> Nat]
        /\ \A z \in Pages : z # p => pipe'[z] = pipe[z] /\ cursor'[z] = cursor[z]
    BY <1>0, <2>1, <2>2
  <2> QED
    BY <1>2, <2>1, <2>3 DEF TypeOK
<1>7. CASE ApplyReplay(p)
  <2>1. pipe[p] # <<>> /\ Head(pipe[p]).type = "replay" /\ pipe' = [pipe EXCEPT ![p] = Tail(pipe[p])]
    BY <1>7 DEF ApplyReplay, Next1, Take
  <2>2. PICK r : r = Head(pipe[p])
    OBVIOUS
  <2>3. Tail(pipe[p]) \in Seq(Outbound) /\ r.seq \in Nat /\ r.epoch \in Nat
    BY <1>0, <2>1, <2>2, TailIs, OutboundIs
  <2>4. /\ cursor' = [cursor EXCEPT ![p] = IF r.seq > cursor[p] THEN r.seq ELSE cursor[p]]
        /\ earned' = [earned EXCEPT ![p] = IF r.seq >= cursor[p] THEN r.epoch ELSE earned[p]]
        /\ IF r.complete THEN UNCHANGED <<held, sought, patchy, torn, owing>>
           ELSE /\ held' = [held EXCEPT ![p] = Kept(p, r)]
                /\ sought' = [sought EXCEPT ![p] = stored]
                /\ patchy' = [patchy EXCEPT ![p] = {x[1] : x \in Kept(p, r)}]
                /\ torn' = torn \ {p} /\ owing' = owing \ {p}
        /\ UNCHANGED <<clients, link, asked>>
    BY <1>7, <2>2 DEF ApplyReplay, Advance, Kept
  <2>5. Kept(p, r) \in SUBSET Pieces /\ {x[1] : x \in Kept(p, r)} \in SUBSET Turns
    <3>1. Kept(p, r) \subseteq Pieces
      BY <1>0 DEF Kept
    <3>2. \A x \in Pieces : x[1] \in Turns
      BY DEF Pieces
    <3> QED
      BY <3>1, <3>2
  <2>6. /\ pipe' \in [Pages -> Seq(Outbound)] /\ cursor' \in [Pages -> Nat] /\ earned' \in [Pages -> Nat]
        /\ \A z \in Pages : z # p => pipe'[z] = pipe[z] /\ cursor'[z] = cursor[z] /\ earned'[z] = earned[z]
    BY <1>0, <2>1, <2>3, <2>4
  <2>7. CASE r.complete
    BY <1>0, <1>2, <2>4, <2>6, <2>7 DEF TypeOK
  <2>8. CASE ~r.complete
    <3>1. /\ held' \in [Pages -> SUBSET Pieces] /\ sought' \in [Pages -> SUBSET Turns]
          /\ patchy' \in [Pages -> SUBSET Turns]
          /\ \A z \in Pages : z # p =>
               held'[z] = held[z] /\ sought'[z] = sought[z] /\ patchy'[z] = patchy[z]
      <4>1. PICK K, P : K = Kept(p, r) /\ P = {x[1] : x \in Kept(p, r)}
        OBVIOUS
      <4>2. K \in SUBSET Pieces /\ P \in SUBSET Turns /\ stored \in SUBSET Turns
        BY <1>0, <2>5, <4>1
      <4>3. held' = [held EXCEPT ![p] = K]
        BY <2>4, <2>8, <4>1
      <4>4. patchy' = [patchy EXCEPT ![p] = P]
        BY <2>4, <2>8, <4>1
      <4>5. sought' = [sought EXCEPT ![p] = stored]
        BY <2>4, <2>8
      <4>6. held' \in [Pages -> SUBSET Pieces] /\ \A z \in Pages : z # p => held'[z] = held[z]
        BY <1>0, <4>2, <4>3
      <4>7. patchy' \in [Pages -> SUBSET Turns] /\ \A z \in Pages : z # p => patchy'[z] = patchy[z]
        BY <1>0, <4>2, <4>4
      <4>8. sought' \in [Pages -> SUBSET Turns] /\ \A z \in Pages : z # p => sought'[z] = sought[z]
        BY <1>0, <4>2, <4>5
      <4> QED
        BY <4>6, <4>7, <4>8
    <3>2. torn' \subseteq Pages /\ owing' \subseteq Pages
      BY <1>0, <2>4, <2>8
    <3>3. \A z \in Pages : z # p => /\ z \in torn' <=> z \in torn
                                    /\ z \in owing' <=> z \in owing
      BY <1>0, <2>4, <2>8
    <3> QED
      BY <1>0, <1>2, <2>4, <2>6, <3>1, <3>2, <3>3 DEF TypeOK
  <2> QED
    BY <2>7, <2>8
<1>9. CASE Drop(p)
  <2>1. /\ link' = [z \in Pages |-> IF z \in {p} THEN "down" ELSE link[z]]
        /\ pipe' = [z \in Pages |-> IF z \in {p} THEN <<>> ELSE pipe[z]]
        /\ clients' = clients \ {p}
        /\ torn' = torn \cup {z \in {p} : InReplay(z)}
        /\ UNCHANGED <<asked, cursor, held, sought, earned, patchy, owing>>
    BY <1>9 DEF Drop, Unlink
  <2>2. <<>> \in Seq(Outbound)
    OBVIOUS
  <2>3. /\ link' \in [Pages -> {"down", "greeted", "live"}] /\ pipe' \in [Pages -> Seq(Outbound)]
        /\ \A z \in Pages : z # p => link'[z] = link[z] /\ pipe'[z] = pipe[z]
    BY <1>0, <2>1, <2>2
  <2>4. /\ clients' \subseteq Pages /\ torn' \subseteq Pages
        /\ \A z \in Pages : z # p => (z \in clients' <=> z \in clients) /\ (z \in torn' <=> z \in torn)
    BY <1>0, <2>1
  <2> QED
    BY <1>2, <2>1, <2>3, <2>4 DEF TypeOK
<1> QED
  BY <1>3, <1>4, <1>5, <1>6, <1>7, <1>9 DEF PageStep

\* What a page will have after a step of its own.
LEMMA HasAllIs ==
  ASSUME UNCHANGED <<serverVars, turnVars, epoch>>, NEW p,
         NEW H, H = held'[p], NEW F, F = sought'[p], NEW P, P = patchy'[p], NEW C
  PROVE  HasAll(p, C)' <=>
           (p \notin torn' \cup owing' => \A t \in 1..turns : Accounted(t, H, F, FALSE, P, C))
<1>0. turns' = turns /\ FALSE \in BOOLEAN
  BY DEF turnVars
<1>1. \A t : Accounted(t, H, F, FALSE, P, C)' <=> Accounted(t, H, F, FALSE, P, C)
  BY <1>0, Quiet
<1>2. ASSUME NEW t
      PROVE  Accounted(t, held[p], sought[p], FALSE, patchy[p], C)' <=>
             Accounted(t, H, F, FALSE, P, C)'
  BY DEF Accounted
<1> QED
  BY <1>0, <1>1, <1>2 DEF HasAll

\* A page connects: it asks from the place it was at.
LEMMA ConnectPage ==
  ASSUME TypeOK, NEW h \in Seq(Frame), PastInv(h), NEW p \in Pages, PageInv(p, h), Connect(p)
  PROVE  PageInv(p, h)'
<1>0. /\ seq \in Nat /\ epoch \in Nat /\ earned[p] \in Nat /\ cursor[p] \in Nat
      /\ pipe \in [Pages -> Seq(Outbound)] /\ Len(h) = seq /\ DOMAIN h = 1..seq
      /\ link \in [Pages -> {"down", "greeted", "live"}]
      /\ asked \in [Pages -> [last : Nat, epoch : Nat]]
  BY DEF TypeOK, PastInv
<1>1. /\ UNCHANGED <<serverVars, turnVars, epoch>> /\ UNCHANGED <<clients, pageVars>>
      /\ link[p] = "down"
  BY DEF Connect
<1>2. UNCHANGED <<seq, stored, cursor, held, sought, earned, patchy, torn, owing>>
  BY <1>1 DEF serverVars, turnVars, pageVars
<1>3. Down(p, h) /\ p \notin clients
  BY <1>1 DEF PageInv
<1>4. PICK b, c, d : /\ b = [type |-> "connected", lastSeq |-> seq]
                     /\ c = [Event(StatusAt(seq), TRUE) EXCEPT !.epoch = earned[p]]
                     /\ d = IF open THEN <<c>> ELSE <<>>
  OBVIOUS
<1>5. /\ c \in Outbound /\ c.type = "event" /\ c.kind = "status" /\ c.turn = 0
      /\ c.pieces = {} /\ c.epoch = earned[p] /\ c.seq = seq
  BY <1>0, <1>4, GreetingIs
<1>6. b.type = "connected" /\ b.lastSeq = seq
  BY <1>4
<1>7. PICK q : q = <<b>> \o d
  OBVIOUS
<1>8. /\ Len(q) \in {1, 2} /\ q[1] = b /\ (Len(q) = 2 => q[2] = c)
      /\ DOMAIN q = 1..Len(q)
  BY <1>4, <1>7
<1>9. pipe'[p] = q /\ link'[p] = "greeted" /\ asked'[p] = [last |-> cursor[p], epoch |-> earned[p]]
  BY <1>0, <1>4, <1>7 DEF Connect
<1>10. asked'[p].last = cursor[p] /\ asked'[p].epoch = earned[p]
  BY <1>9
<1>11. PICK l : l = Len(q)
  OBVIOUS
<1>12. /\ l \in {1, 2} /\ DOMAIN q = 1..l
       /\ \A i \in 1..l : i = 1 \/ (i = 2 /\ q[i] = c)
  BY <1>8, <1>11
<1>13. ASSUME NEW i \in 1..l
       PROVE  /\ Greeting(p, i)'
              /\ q[i].type = "connected" => q[i].lastSeq = seq
              /\ q[i].type = "event" => q[i].seq = seq /\ q[i].pieces = {} /\ i = 2
  BY <1>5, <1>6, <1>8, <1>9, <1>10, <1>12 DEF Greeting
<1>14. SamePage(p)
  BY <1>2 DEF SamePage
<1>15. Fresh(p, h, cursor[p])' /\ Fresh(p, h, seq)'
  <2>1. PICK d2, s : d2 = cursor[p] /\ s = seq
    OBVIOUS
  <2>2. Fresh(p, h, d2)
    BY <1>3, <2>1 DEF Down
  <2>3. Fresh(p, h, s)
    BY <1>0, <2>1 DEF Fresh
  <2>4. Fresh(p, h, d2)' /\ Fresh(p, h, s)'
    BY <1>1, <1>14, <2>2, <2>3, StillHasAll
  <2> QED
    BY <1>2, <2>1, <2>4
<1>16. Asking(p, h, seq, Len(pipe[p]))'
  <2>1. earned'[p] = epoch => cursor[p] <= seq /\ HasAll(p, Rest(h, asked[p].last))'
    <3>1. PICK C : C = Rest(h, cursor[p])
      OBVIOUS
    <3>2. earned[p] = epoch => cursor[p] <= seq /\ HasAll(p, C)
      BY <1>3, <3>1 DEF Down
    <3>3. HasAll(p, C) => HasAll(p, C)'
      BY <1>1, <1>14, StillHasAll
    <3>4. Rest(h, asked[p].last)' = C
      BY <1>10, <3>1 DEF Rest
    <3> QED
      BY <1>2, <3>2, <3>3, <3>4
  <2>2. \A i \in 1..l : /\ Greeting(p, i)'
                        /\ q[i].type = "connected" => q[i].lastSeq = seq
                        /\ q[i].type = "event" => q[i].seq = seq
    BY <1>13
  <2>3. Fresh(p, h, asked[p].last)'
    BY <1>2, <1>10, <1>15
  <2>4. pipe'[p] = q /\ Len(pipe[p])' = l /\ epoch' = epoch /\ seq' = seq /\ cursor'[p] = cursor[p]
    BY <1>1, <1>2, <1>9, <1>11
  <2>5. \A i \in 1..l : q[i].type = "connected" => Fresh(p, h, q[i].lastSeq)'
    BY <1>2, <1>13, <1>15
  <2> QED
    BY <1>0, <1>2, <1>10, <1>15, <2>1, <2>2, <2>3, <2>4, <2>5 DEF Asking
<1>17. Apart(q)
  BY <1>12, <1>13 DEF Apart
<1>18. \A x \in held'[p] : IsSaid(x)'
  BY <1>1, <1>2, Quiet DEF PageInv
<1> QED
  BY <1>1, <1>2, <1>3, <1>9, <1>16, <1>17, <1>18 DEF PageInv

\* Frames that tell what has been said, each piece once, and each with what its
\* turn says after it.
Orderly(F) ==
  \A i \in 1..Len(F) :
    /\ Told(F[i]) /\ SaidBy(F[i]) /\ F[i].seq <= seq
    /\ \A x \in F[i].pieces : \A y \in Content(x[1]) :
         Later(x, y) => \E j \in 1..Len(F) : j >= i /\ y \in F[j].pieces
    /\ \A j \in 1..Len(F) : j # i => F[i].pieces \cap F[j].pieces = {}

Brought(F) == UNION {F[i].pieces : i \in 1..Len(F)}

\* A complete answer brings exactly what was numbered after the cursor asked from.
LEMMA CompleteFrames ==
  ASSUME TypeOK, NEW h \in Seq(Frame), PastInv(h), NEW last \in Nat, Covers(last)
  PROVE  Orderly(After(last)) /\ last <= seq /\ Brought(After(last)) = Rest(h, last)
<1>0. seq \in Nat /\ ring \in Seq(Frame) /\ Len(h) = seq /\ DOMAIN h = 1..seq
  BY DEF TypeOK, PastInv
<1>1. PICK F, n : F = After(last) /\ n = seq - last
  OBVIOUS
<1>2. /\ last <= seq /\ n \in Nat /\ Len(F) = n /\ n + last = seq
      /\ \A i \in 1..n : F[i] = h[last + i]
  BY <1>0, <1>1, AfterIs
<1>3. \A m \in 1..seq :
        /\ h[m].seq = m /\ Told(h[m]) /\ SaidBy(h[m])
        /\ \A x \in h[m].pieces : \A y \in Content(x[1]) :
             Later(x, y) => \E k \in 1..seq : k >= m /\ y \in h[k].pieces
        /\ \A k \in 1..seq : k # m => h[m].pieces \cap h[k].pieces = {}
  BY <1>0 DEF PastInv
<1>4. \A i \in 1..n : last + i \in 1..seq
  BY <1>2
<1>5. \A k \in 1..seq : k > last => k - last \in 1..n /\ last + (k - last) = k
  BY <1>0, <1>2
<1>6. ASSUME NEW i \in 1..n
      PROVE  /\ Told(F[i]) /\ SaidBy(F[i]) /\ F[i].seq <= seq
             /\ \A j \in 1..n : j # i => F[i].pieces \cap F[j].pieces = {}
  <2>1. last + i \in 1..seq /\ F[i] = h[last + i] /\ h[last + i].seq = last + i
    BY <1>2, <1>3, <1>4
  <2>2. ASSUME NEW j \in 1..n, j # i PROVE F[i].pieces \cap F[j].pieces = {}
    <3>1. last + j # last + i /\ last + j \in 1..seq /\ F[j] = h[last + j]
      BY <1>0, <1>2, <1>4, <2>2
    <3> QED
      BY <1>3, <2>1, <3>1
  <2>3. Told(F[i]) /\ SaidBy(F[i])
    BY <1>3, <2>1
  <2>4. F[i].seq <= seq
    BY <1>0, <2>1
  <2> QED
    BY <2>2, <2>3, <2>4
<1>7. ASSUME NEW i \in 1..n, NEW x \in F[i].pieces, NEW y \in Content(x[1]), Later(x, y)
      PROVE  \E j \in 1..n : j >= i /\ y \in F[j].pieces
  <2>1. last + i \in 1..seq /\ x \in h[last + i].pieces
    BY <1>2, <1>4
  <2>2. PICK k \in 1..seq : k >= last + i /\ y \in h[k].pieces
    BY <1>3, <1>7, <2>1
  <2>3. k > last /\ k - last >= i
    BY <1>0, <2>2
  <2> QED
    BY <1>2, <1>5, <2>2, <2>3
<1>8. Orderly(F)
  BY <1>2, <1>6, <1>7 DEF Orderly
<1>9. Brought(F) = Rest(h, last)
  <2>1. \A x : x \in Rest(h, last) <=> \E m \in 1..seq : m > last /\ x \in h[m].pieces
    BY <1>0, RestIs
  <2>2. \A x : x \in Brought(F) <=> \E i \in 1..n : x \in F[i].pieces
    BY <1>2 DEF Brought
  <2>3. \A i \in 1..n : last + i > last
    BY <1>2
  <2>4. ASSUME NEW x \in Rest(h, last) PROVE x \in Brought(F)
    <3>1. PICK m \in 1..seq : m > last /\ x \in h[m].pieces
      BY <2>1
    <3>2. m - last \in 1..n /\ F[m - last] = h[m]
      BY <1>2, <1>5, <3>1
    <3> QED
      BY <2>2, <3>1, <3>2
  <2>5. ASSUME NEW x \in Brought(F) PROVE x \in Rest(h, last)
    <3>1. PICK i \in 1..n : x \in F[i].pieces
      BY <2>2
    <3>2. last + i \in 1..seq /\ F[i] = h[last + i] /\ last + i > last
      BY <1>2, <1>4, <2>3
    <3> QED
      BY <2>1, <3>1, <3>2
  <2> QED
    BY <2>4, <2>5
<1> QED
  BY <1>1, <1>2, <1>8, <1>9

\* An incomplete answer brings the running turn whole, if its log does, or nothing.
LEMMA LogFrames ==
  ASSUME TypeOK, TurnInv, LogInv, NEW p \in Pages,
         NEW r, r.resuming = IF LogIsWhole THEN turnLog.turn ELSE 0,
         NEW F, F = IF r.resuming # 0 THEN turnLog.entries ELSE <<>>
  PROVE  Orderly(F) /\ KeptHasAll(p, r, Brought(F)) /\ Brought(F) \cap Kept(p, r) = {}
<1>0. /\ turns \in 0..MaxTurns /\ MaxTurns \in Nat /\ held[p] \subseteq Pieces
      /\ turnLog.entries \in Seq(Frame) /\ turnLog.turn \in 0..MaxTurns
      /\ \A t \in 1..turns : t \in Turns
  BY ReplayAssumption DEF TypeOK, Turns
<1>1. \A t \in 1..turns : t \in stored \cup lost \/ (open /\ t = turns)
  BY <1>0 DEF TurnInv
<1>2. PICK K, P : K = Kept(p, r) /\ P = {x[1] : x \in Kept(p, r)}
  OBVIOUS
<1>3. \A x \in K : x[1] \in P /\ x[1] # r.resuming
  BY <1>2 DEF Kept
<1>4. CASE LogIsWhole
  <2>1. turnLog.turn # 0 /\ turnLog.retaining /\ turnLog.turn = turns /\ open /\ r.resuming = turns
    BY <1>4 DEF LogIsWhole, LogInv
  <2>2. PICK E, n : E = turnLog.entries /\ n = Len(E)
    OBVIOUS
  <2>3. F = E /\ n \in Nat /\ DOMAIN E = 1..n /\ Len(F) = n
    BY <1>0, <2>1, <2>2
  <2>4. /\ \A x \in Content(turns) : \E i \in 1..n : x \in E[i].pieces
        /\ \A i \in 1..n :
            /\ Told(E[i]) /\ SaidBy(E[i]) /\ E[i].turn = turns /\ E[i].seq <= seq
            /\ \A x \in E[i].pieces, y \in Content(turns) :
                 Later(x, y) => \E j \in 1..n : j >= i /\ y \in E[j].pieces
            /\ \A j \in 1..n : j # i => E[i].pieces \cap E[j].pieces = {}
    BY <2>1, <2>2, <2>3 DEF LogInv
  <2>5. ASSUME NEW i \in 1..n, NEW x \in E[i].pieces PROVE x[1] = turns
    <3>1. Told(E[i]) /\ E[i].turn = turns
      BY <2>4
    <3> QED
      BY <3>1 DEF Told
  <2>6. Orderly(F)
    BY <2>3, <2>4, <2>5 DEF Orderly
  <2>7. PICK C : C = Brought(F)
    OBVIOUS
  <2>8. \A x : x \in C <=> \E i \in 1..n : x \in E[i].pieces
    BY <2>3, <2>7 DEF Brought
  <2>9. C \cap K = {}
    BY <1>3, <2>1, <2>5, <2>8
  <2>10. ASSUME NEW t \in 1..turns PROVE Accounted(t, K, {}, TRUE, P, C)
    <3>1. CASE t = turns
      <4>1. Content(t) \subseteq C
        BY <2>4, <2>8, <3>1
      <4> QED
        BY <4>1 DEF Accounted
    <3>2. CASE t # turns
      BY <1>1, <3>2 DEF Accounted
    <3> QED
      BY <3>1, <3>2
  <2> QED
    BY <1>2, <2>6, <2>7, <2>9, <2>10 DEF KeptHasAll
<1>5. CASE ~LogIsWhole
  <2>1. F = <<>> /\ Len(F) = 0 /\ 1..Len(F) = {}
    BY <1>5
  <2>2. Orderly(F) /\ Brought(F) = {}
    BY <2>1 DEF Orderly, Brought
  <2>3. ASSUME NEW t \in 1..turns PROVE Accounted(t, K, {}, TRUE, P, {})
    <3>1. CASE t \in stored \cup lost
      BY <3>1 DEF Accounted
    <3>2. CASE open /\ t = turns
      <4>1. t # 0 /\ turnLog.turn = turns
        BY <1>0, <3>2 DEF LogInv
      <4>2. ~turnLog.retaining
        BY <1>5, <3>2, <4>1 DEF LogIsWhole
      <4>3. <<t, 1>> \in K => t \in P
        <5>1. <<t, 1>>[1] = t
          OBVIOUS
        <5> QED
          BY <1>3, <5>1
      <4> QED
        BY <3>2, <4>2, <4>3 DEF Accounted
    <3> QED
      BY <1>1, <3>1, <3>2
  <2> QED
    BY <1>2, <2>2, <2>3 DEF KeptHasAll
<1> QED
  BY <1>4, <1>5

\* A resume's pipe: the greeting, the header, and frames that tell it all.
LEMMA ResumePage ==
  ASSUME TypeOK, TurnInv, LogInv, NEW h \in Seq(Frame), PastInv(h),
         NEW p \in Pages, PageInv(p, h), Resume(p)
  PROVE  PageInv(p, h)'
<1>0. /\ seq \in Nat /\ epoch \in Nat /\ pipe \in [Pages -> Seq(Outbound)]
      /\ link \in [Pages -> {"down", "greeted", "live"}] /\ pipe[p] \in Seq(Outbound)
      /\ Len(h) = seq /\ DOMAIN h = 1..seq /\ asked[p].last \in Nat
  BY DEF TypeOK, PastInv
<1>1. /\ UNCHANGED <<serverVars, turnVars, epoch>> /\ link[p] = "greeted" /\ link'[p] = "live"
      /\ UNCHANGED <<asked, cursor, held, sought, earned, patchy, torn>>
      /\ p \in clients'
  BY <1>0 DEF Resume
<1>2. seq' = seq /\ stored' = stored /\ epoch' = epoch
  BY <1>1 DEF serverVars, turnVars
<1>3. PICK r, F, q0, l0, n : /\ r = ReplayOf(p) /\ F = FramesOf(p) /\ q0 = pipe[p] /\ l0 = Len(q0)
                             /\ n = Len(F)
  OBVIOUS
<1>4. /\ r \in Outbound /\ r.type = "replay" /\ r.seq = seq /\ r.epoch = epoch
      /\ r.complete \in BOOLEAN /\ r.complete = (asked[p].last > 0 /\ Covers(asked[p].last))
      /\ r.resuming = IF r.complete \/ ~LogIsWhole THEN 0 ELSE turnLog.turn
      /\ F \in Seq(Frame)
      /\ pipe' = [pipe EXCEPT ![p] =
           Append(pipe[p], r) \o [i \in 1..Len(F) |-> Event(F[i], FALSE)]]
      /\ owing' = IF r.complete /\ asked[p].epoch # epoch THEN owing \cup {p} ELSE owing
  BY <1>3, ResumeIs
<1>5. PICK u : u = Append(q0, r)
  OBVIOUS
<1>6. /\ u \in Seq(Outbound) /\ Len(u) = l0 + 1 /\ u[l0 + 1] = r /\ l0 \in Nat /\ n \in Nat
      /\ \A i \in 1..l0 : u[i] = q0[i] /\ i \in 1..l0 + 1
      /\ l0 + 1 \in 1..l0 + 1
  BY <1>0, <1>3, <1>4, <1>5
<1>7. PICK q : q = u \o [i \in 1..Len(F) |-> Event(F[i], FALSE)]
  OBVIOUS
<1>8. /\ q \in Seq(Outbound) /\ Len(q) = (l0 + 1) + n
      /\ \A i \in 1..l0 + 1 : q[i] = u[i]
      /\ \A i \in 1..n : q[(l0 + 1) + i] = Event(F[i], FALSE)
  <2>1. F \in Seq(Frame)
    BY <1>4
  <2>2. /\ q \in Seq(Outbound) /\ Len(q) = Len(u) + Len(F)
        /\ \A i \in 1..Len(u) : q[i] = u[i]
        /\ \A i \in 1..Len(F) : q[Len(u) + i] = Event(F[i], FALSE)
    BY <1>0, <1>6, <1>7, <2>1, ReplayFrames
  <2>3. Len(u) = l0 + 1 /\ Len(F) = n
    BY <1>3, <1>6
  <2> QED
    BY <2>2, <2>3
<1>9. pipe'[p] = q
  BY <1>0, <1>3, <1>4, <1>5, <1>7
<1>10. PICK a, L : a = l0 + 1 /\ L = a + n
  OBVIOUS
<1>11. /\ a \in Nat /\ L \in Nat /\ a > 0 /\ a <= L /\ L - L = 0 /\ Len(q) = L /\ DOMAIN q = 1..L
       /\ q[a] = r /\ \A i \in 1..l0 : q[i] = q0[i]
       /\ \A i \in 1..n : q[a + i] = Event(F[i], FALSE) /\ a + i \in a + 1..L
       /\ \A i \in a + 1..L : i - a \in 1..n /\ a + (i - a) = i
       /\ \A i \in 1..L : i \in 1..l0 \/ i = a \/ i \in a + 1..L
       /\ L + 1..L = {} /\ a - 1 = l0
       /\ \A i \in 1..n : a + i \in 1..L /\ a + i > 0
       /\ \A i \in 0..n, j \in 1..n : j > i => a + j > a + i
  <2>1. a \in Nat /\ L \in Nat /\ a > 0 /\ a <= L /\ L - L = 0 /\ L = (l0 + 1) + n
    BY <1>6, <1>10
  <2>2. Len(q) = L /\ DOMAIN q = 1..L
    BY <1>8, <2>1
  <2>3. q[a] = r /\ \A i \in 1..l0 : q[i] = q0[i]
    BY <1>6, <1>8, <1>10
  <2>4. \A i \in 1..n : q[a + i] = Event(F[i], FALSE)
    BY <1>8, <1>10
  <2>5. /\ \A i \in 1..n : a + i \in a + 1..L
        /\ \A i \in a + 1..L : i - a \in 1..n /\ a + (i - a) = i
        /\ \A i \in 1..L : i \in 1..l0 \/ i = a \/ i \in a + 1..L
        /\ L + 1..L = {} /\ a - 1 = l0
    BY <1>6, <1>10
  <2>6. n \in Nat
    BY <1>6
  <2>7. \A i \in 1..n : a + i \in 1..L /\ a + i > 0
    BY <1>10, <2>1, <2>6
  <2>8. \A i \in 0..n, j \in 1..n : j > i => a + j > a + i
    BY <2>1, <2>6
  <2> QED
    BY <2>1, <2>2, <2>3, <2>4, <2>5, <2>7, <2>8
<1>12. \A i \in 1..n :
         /\ q[a + i].type = "event" /\ q[a + i].kind = F[i].kind /\ q[a + i].seq = F[i].seq
         /\ q[a + i].turn = F[i].turn /\ q[a + i].pieces = F[i].pieces
         /\ q[a + i].live = FALSE /\ q[a + i].epoch = epoch
  <2>1. \A i \in 1..n : F[i] \in Frame
    BY <1>3, <1>4, <1>6
  <2> SUFFICES ASSUME NEW i \in 1..n
               PROVE  /\ q[a + i].type = "event" /\ q[a + i].kind = F[i].kind
                      /\ q[a + i].seq = F[i].seq /\ q[a + i].turn = F[i].turn
                      /\ q[a + i].pieces = F[i].pieces /\ q[a + i].live = FALSE
                      /\ q[a + i].epoch = epoch
    OBVIOUS
  <2>2. PICK f : f = F[i]
    OBVIOUS
  <2>3. f \in Frame /\ q[a + i] = Event(f, FALSE)
    BY <1>11, <2>1, <2>2
  <2> QED
    BY <1>0, <2>2, <2>3, EventIs
<1>13. Asking(p, h, seq, l0)
  BY <1>1, <1>3 DEF PageInv
<1>14. \A i \in 1..l0 : Greeting(p, i) /\ (q[i].type = "event" => q[i].pieces = {})
                        /\ (q[i].type = "event" \/ q[i].type = "connected")
  <2>1. \A i \in 1..l0 : Greeting(p, i)
    BY <1>13 DEF Asking
  <2> SUFFICES ASSUME NEW i \in 1..l0
               PROVE  /\ q[i].type = "event" => q[i].pieces = {}
                      /\ q[i].type = "event" \/ q[i].type = "connected"
    BY <2>1
  <2>2. q[i] = pipe[p][i]
    BY <1>3, <1>11
  <2>3. Greeting(p, i)
    BY <2>1
  <2> QED
    BY <2>2, <2>3 DEF Greeting
<1>15. PICK o, B : o = asked[p].last /\ B = Brought(F)
  OBVIOUS
<1>16. /\ Orderly(F)
       /\ r.complete => B = Rest(h, o)
       /\ ~r.complete => KeptHasAll(p, r, B) /\ B \cap Kept(p, r) = {}
  <2>1. CASE r.complete
    <3>1. Covers(o) /\ o \in Nat /\ F = After(o)
      BY <1>0, <1>3, <1>4, <1>15, <2>1 DEF FramesOf
    <3> QED
      BY <1>15, <2>1, <3>1, CompleteFrames
  <2>2. CASE ~r.complete
    <3>1. r.resuming = IF LogIsWhole THEN turnLog.turn ELSE 0
      BY <1>4, <2>2
    <3>2. F = IF r.resuming # 0 THEN turnLog.entries ELSE <<>>
      BY <1>3, <2>2 DEF FramesOf
    <3> QED
      BY <1>15, <2>2, <3>1, <3>2, LogFrames
  <2> QED
    BY <2>1, <2>2
<1>17. \A x : x \in B <=> \E i \in 1..n : x \in F[i].pieces
  BY <1>3, <1>15 DEF Brought
<1>18. ASSUME NEW i \in 0..n
       PROVE  \A x : x \in Piped(q, a + i) <=> \E j \in 1..n : j > i /\ x \in F[j].pieces
  <2>1. \A x : x \in Piped(q, a + i) <=>
          \E j \in 1..L : j > a + i /\ q[j].type = "event" /\ x \in q[j].pieces
    BY <1>8, <1>11, PipedIs
  <2>2. ASSUME NEW x \in Piped(q, a + i) PROVE \E j \in 1..n : j > i /\ x \in F[j].pieces
    <3>1. PICK j \in 1..L : j > a + i /\ q[j].type = "event" /\ x \in q[j].pieces
      BY <2>1
    <3>2. j \in a + 1..L /\ j - a > i
      BY <1>11, <3>1
    <3>3. j - a \in 1..n /\ a + (j - a) = j
      BY <1>11, <3>2
    <3>4. q[j].pieces = F[j - a].pieces
      BY <1>12, <3>3
    <3> QED
      BY <3>1, <3>2, <3>3, <3>4
  <2>3. ASSUME NEW x, NEW j \in 1..n, j > i, x \in F[j].pieces PROVE x \in Piped(q, a + i)
    <3>1. a + j \in 1..L /\ a + j > a + i
      BY <1>11, <2>3
    <3> QED
      BY <1>12, <2>1, <2>3, <3>1
  <2> QED
    BY <2>2, <2>3
<1>19. Piped(q, 0) = B
  <2>1. \A x : x \in Piped(q, 0) <=>
          \E j \in 1..L : j > 0 /\ q[j].type = "event" /\ x \in q[j].pieces
    BY <1>8, <1>11, PipedIs
  <2>2. ASSUME NEW x \in Piped(q, 0) PROVE x \in B
    <3>1. PICK j \in 1..L : q[j].type = "event" /\ x \in q[j].pieces
      BY <2>1
    <3>2. j \in a + 1..L
      BY <1>4, <1>11, <1>14, <3>1
    <3>3. j - a \in 1..n /\ a + (j - a) = j
      BY <1>11, <3>2
    <3>4. q[j].pieces = F[j - a].pieces
      BY <1>12, <3>3
    <3> QED
      BY <1>17, <3>1, <3>3, <3>4
  <2>3. ASSUME NEW x \in B PROVE x \in Piped(q, 0)
    <3>1. PICK j \in 1..n : x \in F[j].pieces
      BY <1>17
    <3>2. a + j \in 1..L /\ a + j > 0
      BY <1>11
    <3> QED
      BY <1>12, <2>1, <3>1, <3>2
  <2> QED
    BY <2>2, <2>3
<1>20. \A i \in 1..n :
         /\ Told(F[i]) /\ SaidBy(F[i]) /\ F[i].seq <= seq
         /\ \A x \in F[i].pieces : \A y \in Content(x[1]) :
              Later(x, y) => \E j \in 1..n : j >= i /\ y \in F[j].pieces
         /\ \A j \in 1..n : j # i => F[i].pieces \cap F[j].pieces = {}
  BY <1>3, <1>16 DEF Orderly
<1>21. Laid(p, q, a, L, L)'
  <2>1. ASSUME NEW i \in a + 1..L
        PROVE  /\ q[i].type = "event" /\ q[i].epoch = epoch /\ Told(q[i]) /\ SaidBy(q[i])' /\ ~q[i].live
    <3>1. PICK j : j = i - a
      OBVIOUS
    <3>2. j \in 1..n /\ i = a + j
      BY <1>11, <3>1
    <3>3. /\ q[i].type = "event" /\ q[i].kind = F[j].kind /\ q[i].turn = F[j].turn
          /\ q[i].pieces = F[j].pieces /\ ~q[i].live /\ q[i].epoch = epoch
      BY <1>12, <3>2
    <3>4. Told(F[j]) /\ SaidBy(F[j])
      BY <1>20, <3>2
    <3>5. Told(q[i])
      BY <3>3, <3>4 DEF Told
    <3>6. SaidBy(q[i])
      BY <3>3, <3>4 DEF SaidBy
    <3> QED
      BY <1>1, <3>3, <3>5, <3>6, Quiet
  <2>2. L \in {L, L + 1} /\ L # L + 1
    BY <1>11
  <2> QED
    BY <1>2, <1>4, <1>11, <2>1, <2>2 DEF Laid
<1>22. PICK s : s = seq
  OBVIOUS
<1>23. Numbered(p, q, h, a, L, L, s)'
  <2>1. ASSUME NEW i \in a + 1..L PROVE q[i].seq <= s
    <3>1. i - a \in 1..n /\ a + (i - a) = i
      BY <1>11
    <3> QED
      BY <1>12, <1>20, <1>22, <3>1
  <2>2. \A m \in DOMAIN h : ~(m > s)
    BY <1>0, <1>22
  <2>3. s + (L - L) = s /\ s <= seq
    BY <1>0, <1>11, <1>22
  <2> QED
    BY <1>2, <1>4, <1>11, <1>22, <2>1, <2>2, <2>3 DEF Numbered
<1>24. PICK m : m = s + (L - L)
  OBVIOUS
<1>25. m = s
  BY <1>0, <1>11, <1>22, <1>24
<1>26. Rest(h, m) = {}
  BY <1>0, <1>22, <1>25, RestEnd
<1>27. Ordered(q, h, a, L, m)'
  <2>1. ASSUME NEW i \in a + 1..L, NEW x \in q[i].pieces, NEW y \in Content(x[1]), Later(x, y)
        PROVE  y \in Piped(q, i - 1)
    <3>1. PICK j : j = i - a
      OBVIOUS
    <3>2. j \in 1..n /\ i = a + j /\ j - 1 \in 0..n /\ i - 1 = a + (j - 1)
      BY <1>6, <1>11, <3>1
    <3>3. x \in F[j].pieces
      BY <1>12, <2>1, <3>2
    <3>4. PICK g \in 1..n : g >= j /\ y \in F[g].pieces
      BY <1>20, <2>1, <3>2, <3>3
    <3>5. g > j - 1
      BY <3>2, <3>4
    <3> QED
      BY <1>18, <3>2, <3>4, <3>5
  <2>2. Ordered(q, h, a, L, m)
    BY <2>1 DEF Ordered
  <2> QED
    BY <1>1, <2>2, Quiet
<1>28. \A b : Fresh(p, h, b)' <=> Fresh(p, h, b)
  BY <1>1 DEF Fresh
<1>29. Fresh(p, h, s)'
  <2>1. Fresh(p, h, s)
    BY <1>0, <1>22 DEF Fresh
  <2> QED
    BY <1>28, <2>1
<1>30. asked[p].epoch = epoch => SamePage(p)
  BY <1>1, <1>4 DEF SamePage
<1>31. /\ earned[p] = asked[p].epoch
       /\ Fresh(p, h, cursor[p]) /\ Fresh(p, h, o)
       /\ \A i \in 1..l0 :
            /\ Greeting(p, i)
            /\ q0[i].type = "connected" => Fresh(p, h, q0[i].lastSeq)
       /\ asked[p].epoch = epoch =>
            /\ o <= cursor[p] /\ cursor[p] <= s
            /\ \A i \in 1..l0 :
                 /\ q0[i].type = "connected" => cursor[p] <= q0[i].lastSeq /\ q0[i].lastSeq <= s
                 /\ q0[i].type = "event" => q0[i].seq <= s
            /\ HasAll(p, Rest(h, o))
  BY <1>3, <1>13, <1>15, <1>22 DEF Asking
<1>32. Asking(p, h, s, a - 1)'
  <2>1. PICK d, R : d = cursor[p] /\ R = Rest(h, o)
    OBVIOUS
  <2>2. Fresh(p, h, d)' /\ Fresh(p, h, o)'
    BY <1>28, <1>31, <2>1
  <2>3. asked[p].epoch = epoch => HasAll(p, R)'
    BY <1>1, <1>30, <1>31, <2>1, StillHasAll
  <2>4. ASSUME NEW i \in 1..l0
        PROVE  /\ Greeting(p, i)'
               /\ q[i].type = "connected" => Fresh(p, h, q[i].lastSeq)'
    <3>1. q[i] = q0[i]
      BY <1>11
    <3>2. Greeting(p, i)'
      BY <1>1, <1>3, <1>9, <1>31, <3>1 DEF Greeting
    <3>3. PICK e : e = q[i].lastSeq
      OBVIOUS
    <3>4. q[i].type = "connected" => Fresh(p, h, e)'
      BY <1>28, <1>31, <3>1, <3>3
    <3> QED
      BY <3>2, <3>3, <3>4
  <2>5. asked[p].epoch = epoch =>
          \A i \in 1..l0 :
             /\ q[i].type = "connected" => d <= q[i].lastSeq /\ q[i].lastSeq <= s
             /\ q[i].type = "event" => q[i].seq <= s
    BY <1>11, <1>31, <2>1
  <2>6. cursor'[p] = d /\ asked'[p].last = o /\ asked'[p].epoch = asked[p].epoch
        /\ earned'[p] = earned[p] /\ a - 1 = l0
    BY <1>1, <1>11, <1>15, <2>1
  <2>7. asked[p].epoch = epoch => o <= d /\ d <= s
    BY <1>31, <2>1
  <2> QED
    BY <1>2, <1>9, <1>31, <2>1, <2>2, <2>3, <2>4, <2>5, <2>6, <2>7 DEF Asking
<1>33. Answered(p, q, h, a, s, m)'
  <2>1. Piped(q, 0) \cup Rest(h, m) = B /\ q[a] = r
    BY <1>11, <1>19, <1>26
  <2>2. CASE r.complete
    <3>1. B \cap held[p] = {}
      <4>1. \A x : x \in Rest(h, o) <=> \E k \in 1..seq : k > o /\ x \in h[k].pieces
        BY <1>0, RestIs
      <4> QED
        BY <1>0, <1>16, <1>31, <2>2, <4>1 DEF Fresh
    <3>2. HasAll(p, B)'
      <4>1. CASE asked[p].epoch = epoch
        <5>1. HasAll(p, B)
          BY <1>16, <1>31, <2>2, <4>1
        <5> QED
          BY <1>1, <1>30, <4>1, <5>1, StillHasAll
      <4>2. CASE asked[p].epoch # epoch
        <5>1. p \in owing'
          BY <1>4, <2>2, <4>2
        <5> QED
          BY <5>1 DEF HasAll
      <4> QED
        BY <4>1, <4>2
    <3> QED
      BY <1>1, <1>19, <1>32, <2>1, <2>2, <3>1, <3>2 DEF Answered
  <2>3. CASE ~r.complete
    <3>1. SamePage(p)
      BY <1>1, <1>4, <2>3 DEF SamePage
    <3>2. KeptHasAll(p, r, B)' /\ Kept(p, r)' = Kept(p, r)
      BY <1>1, <1>16, <2>3, <3>1, StillHasAll
    <3> QED
      BY <1>16, <1>19, <1>32, <2>1, <2>3, <3>2 DEF Answered
  <2> QED
    BY <2>2, <2>3
<1>34. LiveAt(p, q, h, a, L, L, s)'
  BY <1>11, <1>21, <1>23, <1>24, <1>27, <1>29, <1>33 DEF LiveAt
<1>35. Live(p, h)'
  <2>1. /\ a \in 0..Len(pipe'[p]) /\ L \in 0..Len(pipe'[p]) /\ s \in 0..seq'
    BY <1>0, <1>2, <1>9, <1>11, <1>22
  <2>2. LiveAt(p, pipe[p], h, a, L, L, s)'
    BY <1>9, <1>34
  <2> QED
    BY <2>1, <2>2 DEF Live
<1>36. Apart(q)
  <2> SUFFICES ASSUME NEW i \in 1..L, NEW j \in 1..L, i # j, q[i].type = "event", q[j].type = "event"
               PROVE  q[i].pieces \cap q[j].pieces = {}
    BY <1>11 DEF Apart
  <2>1. i # a /\ j # a
    BY <1>4, <1>11
  <2>2. CASE i \in 1..l0 \/ j \in 1..l0
    BY <1>14, <2>2
  <2>3. CASE i \in a + 1..L /\ j \in a + 1..L
    <3>1. PICK b, c : b = i - a /\ c = j - a
      OBVIOUS
    <3>2. b \in 1..n /\ c \in 1..n /\ i = a + b /\ j = a + c
      BY <1>11, <2>3, <3>1
    <3>3. b # c
      BY <3>2
    <3> QED
      BY <1>12, <1>20, <3>2, <3>3
  <2> QED
    BY <1>11, <2>1, <2>2, <2>3
<1>37. \A x \in held'[p] : IsSaid(x)'
  BY <1>1, Quiet DEF PageInv
<1>38. sought[p] \subseteq stored /\ earned[p] <= epoch
  BY DEF PageInv
<1> QED
  BY <1>1, <1>2, <1>9, <1>35, <1>36, <1>37, <1>38 DEF PageInv

-----------------------------------------------------------------------------
(* A page reads the first frame of its pipe                                *)

\* Where the parts of a pipe are once its first frame is read, and the number
\* the frames numbered so far have brought the page to.
Shifted(a, k, e, s, a2, k2, e2, s2) ==
  /\ a2 = IF a > 0 THEN a - 1 ELSE 0
  /\ k2 = IF k > 0 THEN k - 1 ELSE 0
  /\ e2 = e - 1
  /\ s2 = IF k > 0 THEN s ELSE s + 1

\* What that is good for, place by place.
Shifting(a, k, e, s, a2, k2, e2, s2) ==
  /\ a2 \in Nat /\ k2 \in Nat /\ e2 \in Nat /\ s2 \in Nat
  /\ a2 <= k2 /\ k2 <= e2 /\ e2 + 1 = e /\ s2 + (e2 - k2) = s + (e - k)
  /\ \A i \in a2 + 1..e2 : i + 1 \in a + 1..e /\ i - 1 \in Nat /\ (i - 1) + 1 = i
                           /\ (i + 1) - 1 = i /\ i \in 1..e2
  /\ \A i \in a2 + 1..k2 : i + 1 \in a + 1..k /\ k > 0 /\ i \in 1..e2
  /\ \A i \in k2 + 1..e2 : i + 1 \in k + 1..e /\ s2 + (i - k2) = s + ((i + 1) - k)
                           /\ i \in 1..e2
  /\ a > 0 => a2 + 1 = a /\ k > 0 /\ s2 = s /\ k2 + 1 = k
  /\ a2 > 0 => a > 0 /\ a2 \in 1..e2
  /\ k > 0 => s2 = s

\* The places, one frame further, are in order still.
LEMMA ShiftedIs ==
  ASSUME NEW a \in Nat, NEW k \in Nat, NEW e \in Nat, NEW s \in Nat, a <= k, k <= e, e > 0,
         NEW a2, NEW k2, NEW e2, NEW s2, Shifted(a, k, e, s, a2, k2, e2, s2)
  PROVE  Shifting(a, k, e, s, a2, k2, e2, s2)
BY DEF Shifted, Shifting

\* A pipe's frames, all that is numbered up to m.
Piping(p, q, h, a, k, e, s, m) ==
  /\ Laid(p, q, a, k, e) /\ Numbered(p, q, h, a, k, e, s) /\ Ordered(q, h, a, e, m)
  /\ s + (e - k) = m
  /\ a \in 0..Len(q) /\ k \in 0..Len(q) /\ e \in 0..Len(q)

\* A pipe is laid, numbered and ordered as it was with its first frame read.
LEMMA ReadOn ==
  ASSUME NEW q \in Seq(Outbound), q # <<>>, NEW h \in Seq(Frame), NEW p,
         NEW a \in Nat, NEW k \in Nat, NEW e \in Nat, NEW s \in Nat, e > 0, NEW n,
         Piping(p, q, h, a, k, e, s, n),
         NEW a2, NEW k2, NEW e2, NEW s2, Shifted(a, k, e, s, a2, k2, e2, s2)
  PROVE  Piping(p, Tail(q), h, a2, k2, e2, s2, n)
<1> USE DEF Piping
<1>1. PICK r, l : r = Tail(q) /\ l = Len(q) - 1
  OBVIOUS
<1>2. /\ r \in Seq(Outbound) /\ l \in Nat /\ Len(q) = l + 1 /\ Len(r) = l
      /\ \A i \in 1..l : r[i] = q[i + 1]
  BY <1>1, TailIs
<1>3. a <= k /\ k <= e /\ l + 1 \in {e, e + 1}
  BY <1>2 DEF Laid
<1>4. /\ a2 \in Nat /\ k2 \in Nat /\ e2 \in Nat /\ s2 \in Nat
      /\ a2 <= k2 /\ k2 <= e2 /\ e2 + 1 = e /\ s2 + (e2 - k2) = s + (e - k)
      /\ \A i \in a2 + 1..e2 : i + 1 \in a + 1..e /\ i - 1 \in Nat /\ (i - 1) + 1 = i
                               /\ (i + 1) - 1 = i /\ i \in 1..e2
      /\ \A i \in a2 + 1..k2 : i + 1 \in a + 1..k /\ k > 0 /\ i \in 1..e2
      /\ \A i \in k2 + 1..e2 : i + 1 \in k + 1..e /\ s2 + (i - k2) = s + ((i + 1) - k)
                               /\ i \in 1..e2
      /\ a > 0 => a2 + 1 = a /\ k > 0 /\ s2 = s /\ k2 + 1 = k
      /\ a2 > 0 => a > 0 /\ a2 \in 1..e2
      /\ k > 0 => s2 = s
  <2>1. Shifting(a, k, e, s, a2, k2, e2, s2)
    BY <1>3, ShiftedIs
  <2> QED
    BY <2>1 DEF Shifting
<1>5. \A i \in 1..e2 : i \in 1..l /\ r[i] = q[i + 1]
  <2>1. e2 <= l
    BY <1>2, <1>3, <1>4
  <2> QED
    BY <1>2, <1>4, <2>1
<1>6. l \in {e2, e2 + 1} /\ (l = e2 + 1 => Len(q) = e + 1 /\ r[e2 + 1] = q[e + 1])
  <2>1. l \in {e2, e2 + 1} /\ (l = e2 + 1 => Len(q) = e + 1 /\ e2 + 1 \in 1..l /\ (e2 + 1) + 1 = e + 1)
    BY <1>2, <1>3, <1>4
  <2> QED
    BY <1>2, <2>1
<1>7. Laid(p, r, a2, k2, e2)
  <2>1. l = e2 + 1 => r[e2 + 1].type = "close" /\ p \notin clients
    BY <1>6 DEF Laid
  <2>2. a2 > 0 => r[a2].type = "replay" /\ r[a2].epoch = epoch
    <3>1. a2 > 0 => r[a2] = q[a] /\ a > 0
      BY <1>4, <1>5
    <3> QED
      BY <3>1 DEF Laid
  <2>3. ASSUME NEW i \in a2 + 1..e2
        PROVE  r[i].type = "event" /\ r[i].epoch = epoch /\ Told(r[i]) /\ SaidBy(r[i])
    <3>1. r[i] = q[i + 1] /\ i + 1 \in a + 1..e
      BY <1>4, <1>5
    <3> QED
      BY <3>1 DEF Laid
  <2>4. ASSUME NEW i \in a2 + 1..k2 PROVE ~r[i].live
    <3>1. r[i] = q[i + 1] /\ i + 1 \in a + 1..k
      BY <1>4, <1>5
    <3> QED
      BY <3>1 DEF Laid
  <2>5. ASSUME NEW i \in k2 + 1..e2 PROVE r[i].live
    <3>1. r[i] = q[i + 1] /\ i + 1 \in k + 1..e
      BY <1>4, <1>5
    <3> QED
      BY <3>1 DEF Laid
  <2> QED
    BY <1>2, <1>4, <1>6, <2>1, <2>2, <2>3, <2>4, <2>5 DEF Laid
<1>8. Numbered(p, r, h, a2, k2, e2, s2)
  <2>1. /\ s + (e - k) <= seq /\ (p \in clients => s + (e - k) = seq)
        /\ a > 0 => q[a].seq = s
        /\ \A i \in a + 1..k :
             /\ q[i].seq <= s
             /\ \A d \in DOMAIN h : d > s => h[d].pieces \cap q[i].pieces = {}
        /\ \A i \in k + 1..e : q[i].seq = s + (i - k) /\ q[i].pieces = h[s + (i - k)].pieces
    BY DEF Numbered
  <2>2. a2 > 0 => r[a2].seq = s2
    <3>1. a2 > 0 => r[a2] = q[a] /\ a > 0
      BY <1>4, <1>5
    <3> QED
      BY <1>4, <2>1, <3>1
  <2>3. ASSUME NEW i \in a2 + 1..k2
        PROVE  /\ r[i].seq <= s2
               /\ \A d \in DOMAIN h : d > s2 => h[d].pieces \cap r[i].pieces = {}
    <3>1. r[i] = q[i + 1] /\ i + 1 \in a + 1..k /\ s2 = s
      BY <1>4, <1>5
    <3> QED
      BY <2>1, <3>1
  <2>4. ASSUME NEW i \in k2 + 1..e2
        PROVE  r[i].seq = s2 + (i - k2) /\ r[i].pieces = h[s2 + (i - k2)].pieces
    <3>1. r[i] = q[i + 1] /\ i + 1 \in k + 1..e /\ s2 + (i - k2) = s + ((i + 1) - k)
      BY <1>4, <1>5
    <3> QED
      BY <2>1, <3>1
  <2>5. PICK m : m = s + (e - k)
    OBVIOUS
  <2>6. s2 + (e2 - k2) = m /\ m <= seq /\ (p \in clients => m = seq)
    BY <1>4, <2>1, <2>5
  <2> QED
    BY <2>2, <2>3, <2>4, <2>6 DEF Numbered
<1>9. PICK m : m = s + (e - k)
  OBVIOUS
<1>10. Ordered(r, h, a2, e2, m)
  <2>1. Ordered(q, h, a, e, m)
    BY <1>9
  <2> SUFFICES ASSUME NEW i \in a2 + 1..e2, NEW x \in r[i].pieces, NEW y \in Content(x[1]), Later(x, y)
               PROVE  y \in Piped(r, i - 1) \cup Rest(h, m)
    BY DEF Ordered
  <2>2. PICK j : j = i - 1
    OBVIOUS
  <2>3. r[i] = q[i + 1] /\ i + 1 \in a + 1..e /\ j \in Nat /\ j + 1 = i /\ (i + 1) - 1 = i
    BY <1>4, <1>5, <2>2
  <2>4. y \in Piped(q, i) \cup Rest(h, m)
    BY <2>1, <2>3 DEF Ordered
  <2>5. Piped(r, j) = Piped(q, i)
    BY <1>1, <2>3, PipedTail
  <2> QED
    BY <2>2, <2>4, <2>5
<1>11. a2 \in 0..l /\ k2 \in 0..l /\ e2 \in 0..l
  BY <1>2, <1>4, <1>6
<1>12. s2 + (e2 - k2) = m
  BY <1>4, <1>9
<1> QED
  BY <1>1, <1>2, <1>4, <1>7, <1>8, <1>9, <1>10, <1>11, <1>12

\* A frame of the greeting tells the page nothing.
LEMMA GreetingTells ==
  ASSUME TypeOK, NEW p \in Pages, NEW q, q = pipe[p], q # <<>>, Greeting(p, 1)
  PROVE  /\ Piped(Tail(q), 0) = Piped(q, 0)
         /\ q[1].type = "connected" \/ (q[1].type = "event" /\ q[1].kind = "status"
              /\ q[1].turn = 0 /\ q[1].pieces = {} /\ q[1].epoch = asked[p].epoch)
         /\ q[1].type # "replay"
<1>1. q \in Seq(Outbound)
  BY DEF TypeOK
<1>2. q[1].type = "connected" \/ (q[1].type = "event" /\ q[1].kind = "status"
        /\ q[1].turn = 0 /\ q[1].pieces = {} /\ q[1].epoch = asked[p].epoch)
  BY DEF Greeting
<1>3. Piped(Tail(q), 0) = Piped(q, 1) /\ Piped(q, 0) = Piped(q, 1)
  <2>1. 0 + 1 = 1 /\ 0 \in Nat
    OBVIOUS
  <2> QED
    BY <1>1, <1>2, <2>1, PipedTail
<1> QED
  BY <1>2, <1>3

\* The greeting's next frame is read: the page still asks from where it did.
LEMMA GreetingAsks ==
  ASSUME TypeOK, UNCHANGED <<serverVars, turnVars, epoch>>, NEW h \in Seq(Frame), NEW p \in Pages,
         NEW q, q = pipe[p], q # <<>>, pipe'[p] = Tail(q), SamePage(p),
         asked'[p] = asked[p], earned'[p] = earned[p],
         NEW d \in Nat, d = cursor'[p],
         \/ d = cursor[p]
         \/ q[1].type = "connected" /\ d = q[1].lastSeq
         \/ q[1].type = "event" /\ d = q[1].seq /\ d > cursor[p],
         NEW s \in Nat, NEW c \in Nat, c < Len(q), Asking(p, h, s, c + 1)
  PROVE  Asking(p, h, s, c)'
<1>1. PICK r, l, b, o, C, y : /\ r = Tail(q) /\ l = Len(q) - 1 /\ b = cursor[p] /\ o = asked[p].last
                              /\ C = Rest(h, asked[p].last) /\ y = asked[p].epoch
  OBVIOUS
<1>2. /\ q \in Seq(Outbound) /\ b \in Nat /\ epoch' = epoch
      /\ cursor'[p] = d /\ asked'[p].last = o /\ asked'[p].epoch = y /\ pipe'[p] = r
      /\ pipe[p] = q /\ cursor[p] = b
  BY <1>1 DEF TypeOK
<1>3. /\ l \in Nat /\ Len(q) = l + 1 /\ \A n \in 1..l : r[n] = q[n + 1]
  BY <1>1, <1>2, TailIs
<1>4. /\ 1 \in 1..c + 1
      /\ \A i \in 1..c : i + 1 \in 1..c + 1 /\ i + 1 # 1 /\ r[i] = q[i + 1] /\ i \in 1..l
  <2>1. c <= l
    BY <1>3
  <2>2. \A i \in 1..c : i + 1 \in 1..c + 1 /\ i + 1 # 1 /\ i \in 1..l
    BY <1>3, <2>1
  <2>3. 1 \in 1..c + 1
    OBVIOUS
  <2> QED
    BY <1>3, <2>2, <2>3
<1>5. /\ earned[p] = y /\ Fresh(p, h, b) /\ Fresh(p, h, o)
      /\ \A i \in 1..c + 1 :
           /\ Greeting(p, i)
           /\ q[i].type = "connected" => Fresh(p, h, q[i].lastSeq)
      /\ y = epoch =>
           /\ o <= b /\ b <= s
           /\ \A i \in 1..c + 1 :
                /\ q[i].type = "connected" => b <= q[i].lastSeq /\ q[i].lastSeq <= s
                /\ q[i].type = "event" => q[i].seq <= s
           /\ HasAll(p, C)
  BY <1>1, <1>2 DEF Asking
<1>6. ASSUME NEW i \in 1..c
      PROVE  r[i].type = "event" /\ Greeting(p, i)' /\ (y = epoch => r[i].seq <= s)
  <2>1. Greeting(p, i + 1) /\ r[i] = q[i + 1] /\ i + 1 # 1 /\ i + 1 \in 1..c + 1
    BY <1>4, <1>5
  <2>2. /\ q[i + 1].type = "event" /\ q[i + 1].kind = "status" /\ q[i + 1].turn = 0
        /\ q[i + 1].pieces = {} /\ q[i + 1].epoch = y
    BY <1>1, <1>2, <2>1 DEF Greeting
  <2>3. Greeting(p, i)'
    BY <1>2, <2>1, <2>2 DEF Greeting
  <2> QED
    BY <1>5, <2>1, <2>2, <2>3
<1>7. Fresh(p, h, d)
  <2>1. \A n \in DOMAIN h : n > b => h[n].pieces \cap held[p] = {}
    BY <1>5 DEF Fresh
  <2>2. CASE d = b
    BY <1>5, <2>2
  <2>3. CASE q[1].type = "connected" /\ d = q[1].lastSeq
    BY <1>4, <1>5, <2>3
  <2>4. CASE d > b
    <3>1. ASSUME NEW n \in DOMAIN h, n > d PROVE h[n].pieces \cap held[p] = {}
      <4>1. n > b
        <5>1. n \in Nat
          OBVIOUS
        <5> QED
          BY <1>2, <2>4, <3>1, <5>1
      <4> QED
        BY <2>1, <4>1
    <3> QED
      BY <3>1 DEF Fresh
  <2> QED
    BY <1>1, <2>2, <2>3, <2>4
<1>8. Fresh(p, h, d)' /\ Fresh(p, h, o)' /\ (HasAll(p, C) => HasAll(p, C)')
  BY <1>5, <1>7, StillHasAll
<1>9. y = epoch => o <= d /\ d <= s
  <2>1. ASSUME y = epoch PROVE b <= d /\ d <= s
    <3>1. b <= s /\ 1 \in 1..c + 1
      BY <1>4, <1>5, <2>1
    <3>2. CASE d = b
      BY <1>2, <3>1, <3>2
    <3>3. CASE q[1].type = "connected" /\ d = q[1].lastSeq
      BY <1>5, <2>1, <3>1, <3>3
    <3>4. CASE q[1].type = "event" /\ d = q[1].seq /\ d > b
      <4>1. d <= s
        BY <1>5, <2>1, <3>1, <3>4
      <4> QED
        BY <1>2, <3>4, <4>1
    <3> QED
      BY <1>1, <3>2, <3>3, <3>4
  <2>2. o \in Nat
    BY <1>1 DEF TypeOK
  <2> QED
    BY <1>2, <1>5, <2>1, <2>2
<1> QED
  <2>1. y = epoch => HasAll(p, C)'
    BY <1>5, <1>8
  <2>2. Rest(h, asked[p].last)' = C
    BY <1>1, <1>2 DEF Rest
  <2>3. \A i \in 1..c : r[i].type # "connected"
    BY <1>6
  <2> QED
    BY <1>2, <1>5, <1>6, <1>8, <1>9, <2>1, <2>2, <2>3 DEF Asking

\* A page that reads the greeting's next frame.
GreetingRead(p, q, d) ==
  /\ q = pipe[p] /\ q # <<>> /\ pipe'[p] = Tail(q) /\ SamePage(p)
  /\ link'[p] = link[p] /\ asked'[p] = asked[p] /\ earned'[p] = earned[p]
  /\ p \in clients' <=> p \in clients
  /\ d \in Nat /\ d = cursor'[p]
  /\ \/ d = cursor[p]
     \/ q[1].type = "connected" /\ d = q[1].lastSeq
     \/ q[1].type = "event" /\ d = q[1].seq /\ d > cursor[p]

\* An answered page reads a frame of the greeting before its replay.
LEMMA GreetingLive ==
  ASSUME TypeOK, UNCHANGED <<serverVars, turnVars, epoch>>, NEW h \in Seq(Frame), NEW p \in Pages,
         NEW q, NEW d, GreetingRead(p, q, d),
         NEW a \in Nat, NEW k \in Nat, NEW e \in Nat, NEW s \in Nat, s <= seq, a > 1,
         LiveAt(p, q, h, a, k, e, s)
  PROVE  Live(p, h)'
<1>1. /\ q = pipe[p] /\ q # <<>> /\ pipe'[p] = Tail(q) /\ SamePage(p)
      /\ asked'[p] = asked[p] /\ earned'[p] = earned[p]
      /\ p \in clients' <=> p \in clients
      /\ q \in Seq(Outbound) /\ seq' = seq
  BY DEF GreetingRead, TypeOK, serverVars
<1>2. /\ Laid(p, q, a, k, e) /\ Numbered(p, q, h, a, k, e, s)
      /\ Ordered(q, h, a, e, s + (e - k)) /\ Fresh(p, h, s)
      /\ Answered(p, q, h, a, s, s + (e - k))
  BY DEF LiveAt
<1>3. a <= k /\ k <= e /\ Len(q) \in {e, e + 1}
  BY <1>2 DEF Laid
<1>4. PICK c, k2, e2 : c = a - 2 /\ k2 = k - 1 /\ e2 = e - 1
  OBVIOUS
<1>5. PICK a2, r, m : a2 = a - 1 /\ r = Tail(q) /\ m = s + (e - k)
  OBVIOUS
<1>6. /\ c \in Nat /\ c + 1 = a2 /\ a2 - 1 = c /\ a2 > 0 /\ a2 \in Nat /\ e > 0
      /\ Shifted(a, k, e, s, a2, k2, e2, s) /\ a2 + 1 = a /\ a - 1 = c + 1 /\ c < e
  BY <1>3, <1>4, <1>5 DEF Shifted
<1>7. /\ Laid(p, r, a2, k2, e2) /\ Numbered(p, r, h, a2, k2, e2, s)
      /\ Ordered(r, h, a2, e2, m) /\ s + (e2 - k2) = m
      /\ a2 \in 0..Len(r) /\ k2 \in 0..Len(r) /\ e2 \in 0..Len(r)
  <2>1. Piping(p, q, h, a, k, e, s, m)
    <3>1. a \in 0..Len(q) /\ k \in 0..Len(q) /\ e \in 0..Len(q)
      BY <1>1, <1>3
    <3> QED
      BY <1>2, <1>5, <3>1 DEF Piping
  <2>2. Piping(p, Tail(q), h, a2, k2, e2, s, m)
    BY <1>1, <1>6, <2>1, ReadOn
  <2> QED
    BY <1>5, <2>2 DEF Piping
<1>8. Laid(p, r, a2, k2, e2)' /\ Numbered(p, r, h, a2, k2, e2, s)'
  BY <1>1, <1>7, StillLaid
<1>9. Ordered(r, h, a2, e2, m)'
  BY <1>7, Quiet
<1>10. Asking(p, h, s, c + 1)
  BY <1>2, <1>6 DEF Answered
<1>11. c < Len(q)
  BY <1>3, <1>6
<1>12. Asking(p, h, s, c)'
  BY <1>1, <1>6, <1>10, <1>11, GreetingAsks DEF GreetingRead
<1>13. Greeting(p, 1)
  <2>1. 1 \in 1..c + 1
    BY <1>6
  <2> QED
    BY <1>10, <2>1 DEF Asking
<1>14. Piped(r, 0) = Piped(q, 0)
  BY <1>1, <1>5, <1>13, GreetingTells
<1>15. r[a2] = q[a]
  <2>1. a2 \in 1..Len(q) - 1
    BY <1>3, <1>5, <1>6
  <2> QED
    BY <1>1, <1>5, <1>6, <2>1, TailIs
<1>16. Answered(p, r, h, a2, s, m)'
  <2>1. PICK B, C, z : B = Piped(q, 0) /\ C = Piped(q, 0) \cup Rest(h, m) /\ z = q[a]
    OBVIOUS
  <2>2. IF z.complete
          THEN B \cap held[p] = {} /\ HasAll(p, C)
          ELSE B \cap Kept(p, z) = {} /\ KeptHasAll(p, z, C)
    BY <1>2, <1>5, <2>1 DEF Answered
  <2>3. /\ Kept(p, z)' = Kept(p, z) /\ held'[p] = held[p]
        /\ KeptHasAll(p, z, C) => KeptHasAll(p, z, C)'
        /\ HasAll(p, C) => HasAll(p, C)'
    BY <1>1, StillHasAll DEF SamePage
  <2>4. Asking(p, h, s, a2 - 1)'
    BY <1>6, <1>12
  <2>5. Piped(r, 0) = B /\ Piped(r, 0) \cup Rest(h, m) = C /\ r[a2] = z
    BY <1>14, <1>15, <2>1
  <2> QED
    BY <2>2, <2>3, <2>4, <2>5 DEF Answered
<1>17. Fresh(p, h, s)'
  BY <1>1, <1>2, StillHasAll
<1>18. LiveAt(p, r, h, a2, k2, e2, s)'
  BY <1>6, <1>7, <1>8, <1>9, <1>16, <1>17 DEF LiveAt
<1>19. s \in 0..seq'
  BY <1>1
<1> QED
  BY <1>1, <1>5, <1>7, <1>18, <1>19 DEF Live

\* A page reads a frame of its greeting.
LEMMA GreetingPage ==
  ASSUME TypeOK, UNCHANGED <<serverVars, turnVars, epoch>>, NEW h \in Seq(Frame), NEW p \in Pages,
         PageInv(p, h), NEW q, NEW d, GreetingRead(p, q, d),
         link[p] = "greeted" \/ (link[p] = "live" /\ Live(p, h)')
  PROVE  PageInv(p, h)'
<1>1. /\ q = pipe[p] /\ q # <<>> /\ pipe'[p] = Tail(q) /\ SamePage(p)
      /\ link'[p] = link[p] /\ asked'[p] = asked[p] /\ earned'[p] = earned[p]
      /\ p \in clients' <=> p \in clients
      /\ q \in Seq(Outbound)
  BY DEF GreetingRead, TypeOK
<1>2. seq' = seq /\ stored' = stored /\ epoch' = epoch /\ seq \in Nat
      /\ held'[p] = held[p] /\ sought'[p] = sought[p]
  BY <1>1 DEF serverVars, turnVars, TypeOK, SamePage
<1>3. /\ \A x \in held[p] : IsSaid(x)
      /\ sought[p] \subseteq stored /\ earned[p] <= epoch /\ Apart(q)
      /\ p \in clients => link[p] = "live"
      /\ link[p] = "greeted" => Asking(p, h, seq, Len(q))
  BY <1>1 DEF PageInv
<1>4. Apart(Tail(q))
  BY <1>1, <1>3, ApartTail
<1>5. link[p] = "greeted" => Asking(p, h, seq, Len(pipe[p]))'
  <2> SUFFICES ASSUME link[p] = "greeted" PROVE Asking(p, h, seq, Len(pipe[p]))'
    OBVIOUS
  <2>1. PICK c, s : c = Len(Tail(q)) /\ s = seq
    OBVIOUS
  <2>2. c \in Nat /\ c + 1 = Len(q) /\ c < Len(q) /\ s \in Nat
    BY <1>1, <1>2, <2>1, TailIs
  <2>3. Asking(p, h, s, c + 1)
    BY <1>3, <2>1, <2>2
  <2>4. Asking(p, h, s, c)'
    BY <1>1, <2>2, <2>3, GreetingAsks DEF GreetingRead
  <2>5. s = seq' /\ c = Len(pipe'[p])
    BY <1>1, <1>2, <2>1
  <2> QED
    BY <2>4, <2>5
<1>6. \A x \in held'[p] : IsSaid(x)'
  BY <1>2, <1>3, Quiet
<1> QED
  BY <1>1, <1>2, <1>3, <1>4, <1>5, <1>6 DEF PageInv

\* A page left on an old count reads on.
LEMMA StaleOn ==
  ASSUME UNCHANGED <<serverVars, turnVars, epoch>>, NEW h, NEW p,
         NEW q \in Seq(Outbound), q # <<>>, Apart(q), Stale(p, q, h), p \notin clients',
         earned'[p] # epoch, NEW H, held'[p] = H,
         q[1].type \in {"event", "connected", "replay"},
         q[1].type = "event" => H \subseteq held[p] \cup q[1].pieces,
         q[1].type = "connected" \/ (q[1].type = "event" /\ q[1].pieces = {}) => H = held[p],
         q[1].type = "replay" => H = IF q[1].complete THEN held[p] ELSE Kept(p, q[1])
  PROVE  Stale(p, Tail(q), h)'
<1>0. epoch' = epoch
  OBVIOUS
<1>1. PICK r, l : r = Tail(q) /\ l = Len(q) - 1
  OBVIOUS
<1>2. /\ r \in Seq(Outbound) /\ l \in Nat /\ Len(q) = l + 1 /\ Len(r) = l
      /\ \A n \in 1..l : r[n] = q[n + 1] /\ n + 1 \in 1..l + 1
      /\ DOMAIN q = 1..l + 1 /\ DOMAIN r = 1..l
  BY <1>1, TailIs
<1>3. /\ \A n \in DOMAIN h : h[n].pieces \cap (held[p] \cup Piped(q, 0)) = {}
      /\ \A i \in 1..l + 1 :
           /\ q[i].type = "event" => q[i].epoch < epoch /\ Told(q[i]) /\ SaidBy(q[i])
           /\ q[i].type = "replay" => q[i].epoch < epoch
  BY <1>2 DEF Stale
<1>4. PICK a \in 0..l + 1 :
        /\ \A i \in 1..l + 1 : q[i].type = "replay" <=> i = a
        /\ \A i \in 1..a - 1 : q[i].type = "event" => q[i].pieces = {}
        /\ a = 0 \/ q[a].complete => Piped(q, 0) \cap held[p] = {}
        /\ a > 0 => Piped(q, 0) \cap Kept(p, q[a]) = {}
  BY <1>2 DEF Stale
<1>5. /\ Piped(r, 0) = Piped(q, 1)
      /\ Piped(q, 0) = Piped(q, 1) \cup (IF q[1].type = "event" THEN q[1].pieces ELSE {})
      /\ q[1].type = "event" => q[1].pieces \cap Piped(q, 1) = {}
  <2>1. 0 + 1 = 1 /\ 0 \in Nat
    OBVIOUS
  <2> QED
    BY <1>1, <2>1, PipedTail, ApartTail
<1>6. H \subseteq held[p] \cup Piped(q, 0)
  BY <1>5 DEF Kept
<1>7. \A n \in DOMAIN h : h[n].pieces \cap (H \cup Piped(r, 0)) = {}
  BY <1>3, <1>5, <1>6
<1>8. \A i \in 1..l :
        /\ r[i].type = "event" => r[i].epoch < epoch /\ Told(r[i]) /\ SaidBy(r[i])'
        /\ r[i].type = "replay" => r[i].epoch < epoch
  BY <1>2, <1>3, Quiet
<1>9. 1 \in 1..l + 1 /\ (1 = a => q[a].type = "replay")
  BY <1>2, <1>4
<1>10. \E b \in 0..l :
         /\ \A i \in 1..l : r[i].type = "replay" <=> i = b
         /\ \A i \in 1..b - 1 : r[i].type = "event" => r[i].pieces = {}
         /\ b = 0 \/ r[b].complete => Piped(r, 0) \cap H = {}
         /\ b > 0 => Piped(r, 0) \cap {x \in H : <<x[1], 0>> \notin H /\ x[1] # r[b].resuming} = {}
  <2>1. CASE a = 0 \/ a = 1
    <3>1. \A i \in 1..l : r[i].type # "replay" /\ i # 0
      <4>1. \A i \in 1..l : i + 1 # a
        BY <1>2, <2>1
      <4> QED
        BY <1>2, <1>4, <4>1
    <3>2. Piped(r, 0) \cap H = {}
      <4>1. CASE a = 0
        <5>1. q[1].type # "replay" /\ Piped(q, 0) \cap held[p] = {}
          BY <1>4, <1>9, <4>1
        <5> QED
          BY <1>5, <5>1
      <4>2. CASE a = 1
        <5>1. q[1].type = "replay"
          BY <1>9, <4>2
        <5>2. IF q[1].complete THEN Piped(q, 0) \cap held[p] = {}
              ELSE Piped(q, 0) \cap Kept(p, q[1]) = {}
          BY <1>4, <4>2
        <5> QED
          BY <1>5, <5>1, <5>2
      <4> QED
        BY <2>1, <4>1, <4>2
    <3>3. 0 \in 0..l /\ 1..0 - 1 = {}
      BY <1>2
    <3> QED
      BY <3>1, <3>2, <3>3
  <2>2. CASE a > 1
    <3>1. PICK b : b = a - 1
      OBVIOUS
    <3>2. /\ b \in 1..l /\ b + 1 = a /\ b > 0 /\ b # 0 /\ 1 \in 1..a - 1
          /\ \A i \in 1..b - 1 : i + 1 \in 1..a - 1 /\ i \in 1..l
          /\ \A i \in 1..l : i + 1 = a <=> i = b
      BY <1>2, <2>2, <3>1
    <3>3. q[1].type # "replay" /\ (q[1].type = "event" => q[1].pieces = {})
      BY <1>4, <1>9, <2>2, <3>2
    <3>4. H = held[p] /\ Piped(r, 0) \subseteq Piped(q, 0)
      BY <1>5, <3>3
    <3>5. r[b] = q[a]
      BY <1>2, <3>2
    <3>6. \A i \in 1..l : r[i].type = "replay" <=> i = b
      BY <1>2, <1>4, <3>2
    <3>7. \A i \in 1..b - 1 : r[i].type = "event" => r[i].pieces = {}
      BY <1>2, <1>4, <3>2
    <3>8. b = 0 \/ r[b].complete => Piped(r, 0) \cap H = {}
      BY <1>4, <3>2, <3>4, <3>5
    <3>9. Piped(r, 0) \cap {x \in H : <<x[1], 0>> \notin H /\ x[1] # r[b].resuming} = {}
      BY <1>4, <2>2, <3>4, <3>5 DEF Kept
    <3>10. b \in 0..l
      BY <3>2
    <3> QED
      BY <3>2, <3>6, <3>7, <3>8, <3>9, <3>10
  <2> QED
    BY <1>4, <2>1, <2>2
<1>11. Stale(p, r, h)'
  <2>1. \A z : Kept(p, z)' = {x \in H : <<x[1], 0>> \notin H /\ x[1] # z.resuming}
    BY DEF Kept
  <2>2. Len(r) = l /\ DOMAIN r = 1..l
    BY <1>2
  <2>3. PICK b \in 0..l :
          /\ \A i \in 1..l : r[i].type = "replay" <=> i = b
          /\ \A i \in 1..b - 1 : r[i].type = "event" => r[i].pieces = {}
          /\ b = 0 \/ r[b].complete => Piped(r, 0) \cap H = {}
          /\ b > 0 => Piped(r, 0) \cap {x \in H : <<x[1], 0>> \notin H /\ x[1] # r[b].resuming} = {}
    BY <1>10
  <2>4. b > 0 => Piped(r, 0) \cap Kept(p, r[b])' = {}
    BY <2>1, <2>3
  <2>5. b = 0 \/ r[b].complete => Piped(r, 0) \cap held'[p] = {}
    BY <2>3
  <2>6. \E c \in 0..Len(r) :
          /\ \A i \in DOMAIN r : r[i].type = "replay" <=> i = c
          /\ \A i \in 1..c - 1 : r[i].type = "event" => r[i].pieces = {}
          /\ c = 0 \/ r[c].complete => Piped(r, 0) \cap held'[p] = {}
          /\ c > 0 => Piped(r, 0) \cap Kept(p, r[c])' = {}
    BY <2>2, <2>3, <2>4, <2>5
  <2>7. \A n \in DOMAIN h : h[n].pieces \cap (held'[p] \cup Piped(r, 0)) = {}
    BY <1>7
  <2>8. \A i \in DOMAIN r :
          /\ r[i].type = "event" => r[i].epoch < epoch' /\ Told(r[i]) /\ SaidBy(r[i])'
          /\ r[i].type = "replay" => r[i].epoch < epoch'
    BY <1>0, <1>8, <2>2
  <2>9. p \notin clients' /\ earned'[p] # epoch'
    BY <1>0
  <2> QED
    BY <2>6, <2>7, <2>8, <2>9 DEF Stale
<1> QED
  BY <1>1, <1>11

\* What a page reads first tells where its pipe is.
LEMMA HeadIs ==
  ASSUME TypeOK, NEW h, NEW p \in Pages, NEW q, q = pipe[p], q # <<>>,
         NEW a \in Nat, NEW k \in Nat, NEW e \in Nat, NEW s, LiveAt(p, q, h, a, k, e, s)
  PROVE  /\ a <= k /\ k <= e
         /\ q[1].type # "close" => e > 0
         /\ q[1].type = "connected" => a > 1
         /\ q[1].type = "event" => a # 1
         /\ q[1].type = "replay" => a = 1
         /\ a > 1 => Greeting(p, 1)
<1>1. Laid(p, q, a, k, e) /\ (a > 0 => Asking(p, h, s, a - 1))
  BY DEF LiveAt, Answered
<1>2. q \in Seq(Outbound) /\ Len(q) \in Nat \ {0}
  <2>1. q \in Seq(Outbound)
    BY DEF TypeOK
  <2> QED
    BY <2>1, TailIs
<1>3. a <= k /\ k <= e /\ Len(q) \in {e, e + 1}
  BY <1>1 DEF Laid
<1>4. e = 0 => q[1].type = "close"
  <2>1. e = 0 => Len(q) = e + 1 /\ e + 1 = 1
    BY <1>2, <1>3
  <2> QED
    BY <1>1, <2>1 DEF Laid
<1>5. a = 0 /\ e > 0 => q[1].type = "event"
  <2>1. a = 0 /\ e > 0 => 1 \in a + 1..e
    OBVIOUS
  <2> QED
    BY <1>1, <2>1 DEF Laid
<1>6. a = 1 => q[1].type = "replay"
  <2>1. 1 > 0
    OBVIOUS
  <2> QED
    BY <1>1, <2>1 DEF Laid
<1>7. a > 1 => Greeting(p, 1)
  <2>1. a > 1 => a > 0 /\ 1 \in 1..a - 1
    OBVIOUS
  <2> QED
    BY <1>1, <2>1 DEF Asking
<1>8. a > 1 => q[1].type = "connected" \/ q[1].type = "event"
  BY <1>7 DEF Greeting
<1>9. a = 0 \/ a = 1 \/ a > 1
  OBVIOUS
<1>10. e = 0 \/ e > 0
  OBVIOUS
<1>11. q[1].type = "connected" \/ q[1].type = "replay" \/ q[1].type = "event" => q[1].type # "close"
  OBVIOUS
<1>12. a <= k /\ k <= e
  BY <1>3
<1> QED
  BY <1>4, <1>5, <1>6, <1>7, <1>8, <1>9, <1>10, <1>11, <1>12

\* The server says where it has got to: the page's cursor goes back to it.
LEMMA ConnectedPage ==
  ASSUME TypeOK, NEW h \in Seq(Frame), PastInv(h), NEW p \in Pages, PageInv(p, h), ApplyConnected(p)
  PROVE  PageInv(p, h)'
<1>1. /\ pipe[p] # <<>> /\ Head(pipe[p]).type = "connected"
      /\ pipe' = [pipe EXCEPT ![p] = Tail(pipe[p])]
      /\ cursor' = [cursor EXCEPT ![p] = IF Head(pipe[p]).lastSeq < cursor[p]
                                           THEN Head(pipe[p]).lastSeq ELSE cursor[p]]
      /\ UNCHANGED <<serverVars, clients, turnVars, epoch, link, asked, held,
                     sought, earned, patchy, torn, owing>>
  BY DEF ApplyConnected, Next1, Take
<1>2. PICK q : q = pipe[p]
  OBVIOUS
<1>3. /\ q \in Seq(Outbound) /\ q # <<>> /\ q[1] \in Outbound /\ Head(pipe[p]) = q[1]
      /\ q[1].type = "connected" /\ q[1].lastSeq \in Nat
      /\ pipe'[p] = Tail(q) /\ cursor[p] \in Nat /\ epoch \in Nat
      /\ link \in [Pages -> {"down", "greeted", "live"}]
  <2>1. q \in Seq(Outbound) /\ q # <<>> /\ cursor[p] \in Nat /\ epoch \in Nat
        /\ link \in [Pages -> {"down", "greeted", "live"}] /\ pipe'[p] = Tail(q)
    BY <1>1, <1>2 DEF TypeOK
  <2>2. q[1] \in Outbound /\ Head(pipe[p]) = q[1]
    BY <1>2, <2>1, TailIs
  <2>3. q[1].type = "connected"
    BY <1>1, <2>2
  <2> QED
    BY <2>1, <2>2, <2>3, OutboundIs
<1>4. PICK d : d = cursor'[p]
  OBVIOUS
<1>5. SamePage(p)
  BY <1>1 DEF SamePage
<1>6. GreetingRead(p, q, d)
  <2>1. d = IF q[1].lastSeq < cursor[p] THEN q[1].lastSeq ELSE cursor[p]
    BY <1>1, <1>3, <1>4 DEF TypeOK
  <2> QED
    BY <1>1, <1>2, <1>3, <1>4, <1>5, <2>1 DEF GreetingRead
<1>7. CASE link[p] = "down"
  BY <1>1, <1>7 DEF PageInv, Down
<1>8. CASE link[p] = "greeted"
  BY <1>1, <1>6, <1>8, GreetingPage
<1>9. CASE link[p] = "live" /\ Live(p, h)
  <2>1. PICK a, k, e \in 0..Len(q), s \in 0..seq : LiveAt(p, q, h, a, k, e, s)
    BY <1>2, <1>9 DEF Live
  <2>2. a \in Nat /\ k \in Nat /\ e \in Nat /\ s \in Nat /\ s <= seq
    BY DEF TypeOK
  <2>3. a > 1
    BY <1>2, <1>3, <2>1, <2>2, HeadIs
  <2>4. Live(p, h)'
    BY <1>1, <1>6, <2>1, <2>2, <2>3, GreetingLive
  <2> QED
    BY <1>1, <1>6, <1>9, <2>4, GreetingPage
<1>10. CASE link[p] = "live" /\ Stale(p, q, h)
  <2>1. Apart(q) /\ (\A x \in held[p] : IsSaid(x)) /\ sought[p] \subseteq stored /\ earned[p] <= epoch
    BY <1>2 DEF PageInv
  <2>2. p \notin clients /\ earned[p] # epoch
    BY <1>10 DEF Stale
  <2>3. PICK H : H = held'[p]
    OBVIOUS
  <2>4. Stale(p, Tail(q), h)'
    <3>1. H = held[p] /\ p \notin clients' /\ earned'[p] # epoch
      BY <1>1, <2>2, <2>3
    <3>2. q[1].type \in {"event", "connected", "replay"} /\ q[1].type # "event" /\ q[1].type # "replay"
      BY <1>3
    <3> QED
      BY <1>1, <1>3, <1>10, <2>1, <2>3, <3>1, <3>2, StaleOn
  <2>5. Apart(Tail(q))
    BY <1>3, <2>1, ApartTail
  <2>6. stored' = stored /\ \A x \in held'[p] : IsSaid(x)'
    BY <1>1, <2>1, Quiet DEF turnVars
  <2> QED
    BY <1>1, <1>3, <1>10, <2>1, <2>2, <2>4, <2>5, <2>6 DEF PageInv
<1> QED
  <2>1. link[p] \in {"down", "greeted", "live"}
    BY <1>3
  <2>2. link[p] = "live" => Live(p, h) \/ Stale(p, q, h)
    BY <1>2 DEF PageInv
  <2> QED
    BY <1>7, <1>8, <1>9, <1>10, <2>1, <2>2

\* The replay's header: what the page keeps, and what follows, is everything.
LEMMA HeaderLive ==
  ASSUME TypeOK, UNCHANGED <<serverVars, turnVars, epoch>>, NEW h \in Seq(Frame), NEW p \in Pages,
         NEW q, q = pipe[p], q # <<>>, pipe'[p] = Tail(q), p \in clients' <=> p \in clients,
         NEW r, r = q[1], r.type = "replay",
         NEW a \in Nat, NEW k \in Nat, NEW e \in Nat, NEW s \in Nat, s <= seq,
         LiveAt(p, q, h, a, k, e, s),
         cursor'[p] = IF r.seq > cursor[p] THEN r.seq ELSE cursor[p],
         earned'[p] = IF r.seq >= cursor[p] THEN r.epoch ELSE earned[p],
         r.complete => SamePage(p),
         ~r.complete => /\ held'[p] = Kept(p, r) /\ sought'[p] = stored
                        /\ patchy'[p] = {x[1] : x \in Kept(p, r)}
  PROVE  Live(p, h)'
<1>1. a = 1 /\ a <= k /\ k <= e
  <2>1. q[1].type = "replay"
    OBVIOUS
  <2>2. TypeOK /\ q = pipe[p] /\ q # <<>> /\ LiveAt(p, q, h, a, k, e, s)
    OBVIOUS
  <2>3. /\ a <= k /\ k <= e
        /\ q[1].type = "replay" => a = 1
    BY ONLY <2>2, HeadIs, p \in Pages, a \in Nat, k \in Nat, e \in Nat
  <2> QED
    BY <2>1, <2>3
<1>2. /\ Laid(p, q, a, k, e) /\ Numbered(p, q, h, a, k, e, s)
      /\ Ordered(q, h, a, e, s + (e - k)) /\ Fresh(p, h, s)
      /\ Answered(p, q, h, a, s, s + (e - k))
  BY <1>1 DEF LiveAt
<1>3. q \in Seq(Outbound) /\ seq' = seq /\ epoch' = epoch /\ cursor[p] \in Nat
  BY DEF TypeOK, serverVars
<1>4. PICK k2, e2, t, m : k2 = k - 1 /\ e2 = e - 1 /\ t = Tail(q) /\ m = s + (e - k)
  OBVIOUS
<1>5. e > 0 /\ Shifted(a, k, e, s, 0, k2, e2, s)
  BY <1>1, <1>4 DEF Shifted
<1>6. Laid(p, t, 0, k2, e2) /\ Numbered(p, t, h, 0, k2, e2, s) /\ Ordered(t, h, 0, e2, m)
      /\ s + (e2 - k2) = m /\ 0 \in 0..Len(t) /\ k2 \in 0..Len(t) /\ e2 \in 0..Len(t)
  <2>1. Piping(p, q, h, a, k, e, s, m)
    <3>1. Len(q) \in {e, e + 1}
      BY <1>2 DEF Laid
    <3>2. Len(q) \in Nat
      BY <1>3
    <3>3. a \in 0..Len(q) /\ k \in 0..Len(q) /\ e \in 0..Len(q)
      BY <1>1, <3>1, <3>2
    <3> QED
      BY <1>2, <1>4, <3>3 DEF Piping
  <2>2. Piping(p, Tail(q), h, 0, k2, e2, s, m)
    BY <1>3, <1>5, <2>1, ReadOn
  <2> QED
    BY <1>4, <2>2 DEF Piping
<1>7. Laid(p, t, 0, k2, e2)' /\ Numbered(p, t, h, 0, k2, e2, s)' /\ Ordered(t, h, 0, e2, m)'
  BY <1>6, StillLaid, Quiet
<1>8. r.seq = s /\ r.epoch = epoch
  BY <1>1, <1>2 DEF Laid, Numbered
<1>9. held'[p] \subseteq held[p]
  BY DEF SamePage, Kept
<1>10. Fresh(p, h, s)'
  BY <1>2, <1>9 DEF Fresh
<1>11. IF earned'[p] = epoch' THEN cursor'[p] = s ELSE cursor'[p] > s
  <2>1. Asking(p, h, s, a - 1)
    BY <1>2 DEF Answered
  <2>2. earned[p] = epoch => cursor[p] <= s
    BY <2>1 DEF Asking
  <2> QED
    BY <1>3, <1>8, <2>2
<1>12. PICK B, C : B = Piped(q, 0) /\ C = Piped(q, 0) \cup Rest(h, m)
  OBVIOUS
<1>13. Piped(t, 0) = B
  <2>1. 0 + 1 = 1 /\ 0 \in Nat
    OBVIOUS
  <2>2. q[1].type # "event"
    OBVIOUS
  <2> QED
    BY <1>3, <1>4, <1>12, <2>1, <2>2, PipedTail
<1>14. IF r.complete THEN B \cap held[p] = {} /\ HasAll(p, C)
       ELSE B \cap Kept(p, r) = {} /\ KeptHasAll(p, r, C)
  BY <1>1, <1>2, <1>4, <1>12 DEF Answered
<1>15. B \cap held'[p] = {}
  BY <1>14 DEF SamePage
<1>16. HasAll(p, C)'
  <2>1. CASE r.complete
    BY <1>14, <2>1, StillHasAll
  <2>2. CASE ~r.complete
    <3>1. PICK K, P : K = Kept(p, r) /\ P = {x[1] : x \in Kept(p, r)}
      OBVIOUS
    <3>2. \A y \in 1..turns : Accounted(y, K, {}, TRUE, P, C)
      BY <1>14, <2>2, <3>1 DEF KeptHasAll
    <3>3. PICK F : F = stored
      OBVIOUS
    <3>4. \A y \in 1..turns : Accounted(y, K, F, FALSE, P, C)
      BY <3>2, <3>3 DEF Accounted
    <3>5. K = held'[p] /\ F = sought'[p] /\ P = patchy'[p]
      BY <2>2, <3>1, <3>3
    <3> QED
      BY <3>4, <3>5, HasAllIs
  <2> QED
    BY <2>1, <2>2
<1>17. Reading(p, t, h, s, m)'
  <2>1. Piped(t, 0) \cup Rest(h, m) = C
    BY <1>12, <1>13
  <2> QED
    BY <1>11, <1>13, <1>15, <1>16, <2>1 DEF Reading
<1>18. LiveAt(p, t, h, 0, k2, e2, s)'
  BY <1>6, <1>7, <1>10, <1>17 DEF LiveAt
<1>19. s \in 0..seq'
  BY <1>3
<1>20. 0 \in 0..Len(pipe'[p]) /\ k2 \in 0..Len(pipe'[p]) /\ e2 \in 0..Len(pipe'[p])
  BY <1>4, <1>6
<1>21. LiveAt(p, pipe[p], h, 0, k2, e2, s)'
  BY <1>4, <1>18
<1> QED
  BY <1>19, <1>20, <1>21 DEF Live

\* A page applies its replay's header.
LEMMA ReplayPage ==
  ASSUME TypeOK, NEW h \in Seq(Frame), PastInv(h), NEW p \in Pages, PageInv(p, h), ApplyReplay(p)
  PROVE  PageInv(p, h)'
<1>1. /\ pipe[p] # <<>> /\ Head(pipe[p]).type = "replay"
      /\ pipe' = [pipe EXCEPT ![p] = Tail(pipe[p])]
      /\ UNCHANGED <<serverVars, clients, turnVars, epoch, link, asked>>
  BY DEF ApplyReplay, Next1, Take
<1>2. PICK q, r : q = pipe[p] /\ r = q[1]
  OBVIOUS
<1>3. /\ q \in Seq(Outbound) /\ q # <<>> /\ r \in Outbound /\ Head(pipe[p]) = r
      /\ pipe'[p] = Tail(q) /\ cursor[p] \in Nat /\ earned[p] \in Nat /\ epoch \in Nat
      /\ link \in [Pages -> {"down", "greeted", "live"}]
  <2>1. q \in Seq(Outbound) /\ q # <<>> /\ cursor[p] \in Nat /\ epoch \in Nat /\ earned[p] \in Nat
        /\ link \in [Pages -> {"down", "greeted", "live"}] /\ pipe'[p] = Tail(q)
    BY <1>1, <1>2 DEF TypeOK
  <2>2. r \in Outbound /\ Head(pipe[p]) = r
    BY <1>2, <2>1, TailIs
  <2> QED
    BY <2>1, <2>2
<1>4. r.type = "replay" /\ r.seq \in Nat /\ r.epoch \in Nat
  BY <1>1, <1>3, OutboundIs
<1>5. /\ cursor'[p] = IF r.seq > cursor[p] THEN r.seq ELSE cursor[p]
      /\ earned'[p] = IF r.seq >= cursor[p] THEN r.epoch ELSE earned[p]
  BY <1>3 DEF ApplyReplay, Advance, TypeOK
<1>6. r.complete => SamePage(p)
  BY <1>3 DEF ApplyReplay, SamePage
<1>7. ~r.complete => /\ held'[p] = Kept(p, r) /\ sought'[p] = stored
                     /\ patchy'[p] = {x[1] : x \in Kept(p, r)}
  <2>1. PICK K, P : K = Kept(p, r) /\ P = {x[1] : x \in Kept(p, r)}
    OBVIOUS
  <2>2. ~r.complete => /\ held' = [held EXCEPT ![p] = K] /\ sought' = [sought EXCEPT ![p] = stored]
                       /\ patchy' = [patchy EXCEPT ![p] = P]
    BY <1>3, <2>1 DEF ApplyReplay, Kept
  <2> QED
    BY <2>1, <2>2 DEF TypeOK
<1>8. Apart(q) /\ (\A x \in held[p] : IsSaid(x)) /\ sought[p] \subseteq stored /\ earned[p] <= epoch
      /\ (p \in clients => link[p] = "live" /\ Live(p, h))
  BY <1>2 DEF PageInv
<1>9. Apart(Tail(q))
  BY <1>3, <1>8, ApartTail
<1>10. stored' = stored /\ epoch' = epoch /\ seq' = seq /\ seq \in Nat
  BY <1>1 DEF serverVars, turnVars, TypeOK
<1>11. held'[p] \subseteq held[p] /\ sought'[p] \subseteq stored
  BY <1>6, <1>7, <1>8 DEF SamePage, Kept
<1>12. \A x \in held'[p] : IsSaid(x)'
  BY <1>1, <1>8, <1>11, Quiet
<1>13. Live(p, h) => Live(p, h)' /\ r.epoch = epoch
  <2> SUFFICES ASSUME Live(p, h) PROVE Live(p, h)' /\ r.epoch = epoch
    OBVIOUS
  <2>1. PICK a, k, e \in 0..Len(q), s \in 0..seq : LiveAt(p, q, h, a, k, e, s)
    BY <1>2 DEF Live
  <2>2. a \in Nat /\ k \in Nat /\ e \in Nat /\ s \in Nat /\ s <= seq
    BY DEF TypeOK
  <2>3. a = 1
    <3>1. q[1].type = "replay"
      BY <1>2, <1>4
    <3> QED
      BY <1>2, <1>3, <2>1, <2>2, <3>1, HeadIs
  <2>4. Live(p, h)'
    BY <1>1, <1>2, <1>3, <1>4, <1>5, <1>6, <1>7, <2>1, <2>2, HeaderLive
  <2>5. r.epoch = epoch
    BY <1>2, <2>1, <2>3 DEF LiveAt, Laid
  <2> QED
    BY <2>4, <2>5
<1>14. CASE link[p] = "down"
  BY <1>1, <1>14 DEF PageInv, Down
<1>15. CASE link[p] = "greeted"
  <2>1. Asking(p, h, seq, Len(q))
    BY <1>2, <1>15 DEF PageInv
  <2>2. 1 \in 1..Len(q)
    BY <1>3, TailIs
  <2>3. Greeting(p, 1)
    BY <2>1, <2>2 DEF Asking
  <2> QED
    BY <1>2, <1>4, <2>3 DEF Greeting
<1>16. CASE link[p] = "live" /\ Live(p, h)
  <2>1. earned'[p] <= epoch
    BY <1>3, <1>5, <1>8, <1>13, <1>16
  <2> QED
    BY <1>1, <1>3, <1>9, <1>10, <1>11, <1>12, <1>13, <1>16, <2>1 DEF PageInv
<1>17. CASE link[p] = "live" /\ Stale(p, q, h)
  <2>1. p \notin clients' /\ earned[p] # epoch
    BY <1>1, <1>17 DEF Stale
  <2>2. r.epoch < epoch
    <3>1. 1 \in DOMAIN q
      BY <1>3, TailIs
    <3> QED
      BY <1>2, <1>4, <1>17, <3>1 DEF Stale
  <2>3. earned'[p] # epoch /\ earned'[p] <= epoch
    BY <1>3, <1>4, <1>5, <1>8, <2>1, <2>2
  <2>4. PICK H : H = held'[p]
    OBVIOUS
  <2>5. H = IF q[1].complete THEN held[p] ELSE Kept(p, q[1])
    BY <1>2, <1>6, <1>7, <2>4 DEF SamePage
  <2>6. Stale(p, Tail(q), h)'
    <3>1. q[1].type \in {"event", "connected", "replay"} /\ q[1].type # "event" /\ q[1].type # "connected"
      BY <1>2, <1>4
    <3> QED
      BY <1>1, <1>3, <1>8, <1>17, <2>1, <2>3, <2>4, <2>5, <3>1, StaleOn
  <2> QED
    BY <1>1, <1>3, <1>9, <1>10, <1>11, <1>12, <1>17, <2>1, <2>3, <2>6 DEF PageInv
<1> QED
  <2>1. link[p] \in {"down", "greeted", "live"}
    BY <1>3
  <2>2. link[p] = "live" => Live(p, h) \/ Stale(p, q, h)
    BY <1>2 DEF PageInv
  <2> QED
    BY <1>14, <1>15, <1>16, <1>17, <2>1, <2>2

\* Live frames alone on their way are what is numbered after the page's cursor.
LEMMA PipedIsRest ==
  ASSUME NEW q \in Seq(Outbound), NEW h \in Seq(Frame), NEW p, NEW e \in Nat, NEW s \in Nat,
         Len(h) = seq, Laid(p, q, 0, 0, e), Numbered(p, q, h, 0, 0, e, s)
  PROVE  Piped(q, 0) \cup Rest(h, s + (e - 0)) = Rest(h, s)
<1>1. PICK l, m : l = Len(q) /\ m = s + (e - 0)
  OBVIOUS
<1>2. l \in Nat /\ l \in {e, e + 1} /\ m = s + e /\ m \in Nat /\ m <= seq /\ seq \in Nat
  BY <1>1 DEF Laid, Numbered
<1>3. /\ l = e + 1 => q[e + 1].type = "close"
      /\ \A i \in 1..e : q[i].type = "event"
  <2>1. 0 + 1..e = 1..e
    OBVIOUS
  <2> QED
    BY <1>1, <2>1 DEF Laid
<1>4. \A i \in 1..e : q[i].pieces = h[s + i].pieces
  <2>1. \A i \in 0 + 1..e : q[i].pieces = h[s + (i - 0)].pieces
    BY DEF Numbered
  <2>2. ASSUME NEW i \in 1..e PROVE i \in 0 + 1..e /\ s + (i - 0) = s + i
    OBVIOUS
  <2> QED
    BY <2>1, <2>2
<1>5. \A x : x \in Piped(q, 0) <=> \E i \in 1..l : i > 0 /\ q[i].type = "event" /\ x \in q[i].pieces
  BY <1>1, PipedIs
<1>6. \A b : \A x : x \in Rest(h, b) <=> \E n \in 1..seq : n > b /\ x \in h[n].pieces
  BY RestIs
<1>7. /\ \A i \in 1..e : i \in 1..l /\ i > 0 /\ s + i \in 1..seq /\ s + i > s
      /\ \A i \in 1..l : i \in 1..e \/ (i = e + 1 /\ l = e + 1)
      /\ \A n \in 1..seq : n > s => n > m \/ (n - s \in 1..e /\ s + (n - s) = n)
      /\ \A n \in 1..seq : n > m => n > s
  BY <1>2
<1>8. ASSUME NEW x \in Piped(q, 0) PROVE x \in Rest(h, s)
  <2>1. PICK i \in 1..l : q[i].type = "event" /\ x \in q[i].pieces
    BY <1>5
  <2>2. i \in 1..e
    BY <1>3, <1>7, <2>1
  <2> QED
    BY <1>4, <1>6, <1>7, <2>1, <2>2
<1>9. ASSUME NEW x \in Rest(h, m) PROVE x \in Rest(h, s)
  BY <1>6, <1>7
<1>10. ASSUME NEW x \in Rest(h, s), x \notin Rest(h, m) PROVE x \in Piped(q, 0)
  <2>1. PICK n \in 1..seq : n > s /\ x \in h[n].pieces
    BY <1>6
  <2>2. ~(n > m)
    BY <1>6, <1>10, <2>1
  <2>3. n - s \in 1..e /\ s + (n - s) = n
    BY <1>7, <2>1, <2>2
  <2>4. x \in q[n - s].pieces
    BY <1>4, <2>1, <2>3
  <2> QED
    BY <1>3, <1>5, <1>7, <2>3, <2>4
<1> QED
  BY <1>1, <1>8, <1>9, <1>10

\* A page whose socket drops has what its cursor says, or is torn.
LEMMA DropPage ==
  ASSUME TypeOK, NEW h \in Seq(Frame), PastInv(h), NEW p \in Pages, PageInv(p, h), Drop(p)
  PROVE  PageInv(p, h)'
<1>1. /\ link[p] # "down" /\ link'[p] = "down" /\ pipe'[p] = <<>> /\ p \notin clients'
      /\ p \in torn' <=> p \in torn \/ InReplay(p)
      /\ UNCHANGED <<serverVars, turnVars, epoch, asked, cursor, held, sought,
                     earned, patchy, owing>>
  BY DEF Drop, Unlink
<1>2. PICK q, b : q = pipe[p] /\ b = cursor[p]
  OBVIOUS
<1>3. /\ q \in Seq(Outbound) /\ b \in Nat /\ seq' = seq /\ stored' = stored /\ epoch' = epoch
      /\ seq \in Nat /\ Len(h) = seq /\ DOMAIN h = 1..seq /\ asked[p].last \in Nat
      /\ link \in [Pages -> {"down", "greeted", "live"}]
  BY <1>1, <1>2 DEF TypeOK, PastInv, serverVars, turnVars
<1>4. ASSUME Fresh(p, h, b), earned[p] = epoch => b <= seq /\ HasAll(p, Rest(h, b))'
      PROVE  PageInv(p, h)'
  <2>1. Fresh(p, h, b)'
    BY <1>1, <1>4, StillKept
  <2>2. cursor'[p] = b /\ earned'[p] = earned[p]
    BY <1>1, <1>2
  <2>3. Down(p, h)'
    <3>1. PICK C : C = Rest(h, b)
      OBVIOUS
    <3>2. Rest(h, cursor[p])' = C
      BY <2>2, <3>1 DEF Rest
    <3>3. Fresh(p, h, cursor[p])'
      BY <2>1, <2>2
    <3>4. earned'[p] = epoch' => b <= seq' /\ HasAll(p, C)'
      BY <1>3, <1>4, <2>2, <3>1
    <3> QED
      BY <1>1, <2>2, <3>2, <3>3, <3>4 DEF Down
  <2>4. \A x \in held'[p] : IsSaid(x)'
    BY <1>1, Quiet DEF PageInv
  <2>5. sought[p] \subseteq stored /\ earned[p] <= epoch
    BY DEF PageInv
  <2>6. Apart(<<>>)
    BY DEF Apart
  <2> QED
    BY <1>1, <1>3, <2>2, <2>3, <2>4, <2>5, <2>6 DEF PageInv
<1>5. ASSUME NEW C, p \notin torn' => HasAll(p, C) PROVE HasAll(p, C)'
  <2>1. PICK H, F, P : H = held[p] /\ F = sought[p] /\ P = patchy[p]
    OBVIOUS
  <2>2. /\ H = held'[p] /\ F = sought'[p] /\ P = patchy'[p]
        /\ p \in owing' <=> p \in owing
    BY <1>1, <2>1
  <2>3. UNCHANGED <<serverVars, turnVars, epoch>>
    BY <1>1
  <2>4. p \notin torn' \cup owing' => \A t \in 1..turns : Accounted(t, H, F, FALSE, P, C)
    BY <1>1, <1>5, <2>1, <2>2 DEF HasAll
  <2> QED
    BY <2>2, <2>3, <2>4, HasAllIs
<1>6. ASSUME NEW s \in Nat, s <= seq, NEW c, Asking(p, h, s, c),
             InReplay(p) <=> cursor[p] > asked[p].last
      PROVE  PageInv(p, h)'
  <2>1. Fresh(p, h, b)
    BY <1>2, <1>6 DEF Asking
  <2>2. ASSUME earned[p] = epoch PROVE b <= seq /\ HasAll(p, Rest(h, b))'
    <3>1. PICK o : o = asked[p].last
      OBVIOUS
    <3>2. o <= b /\ b <= s /\ HasAll(p, Rest(h, o))
      BY <1>2, <1>6, <2>2, <3>1 DEF Asking
    <3>3. p \notin torn' => b = o
      BY <1>1, <1>2, <1>3, <1>6, <3>1, <3>2
    <3>4. p \notin torn' => HasAll(p, Rest(h, b))
      BY <3>2, <3>3
    <3>5. b <= seq
      BY <1>3, <1>6, <3>2
    <3>6. PICK C : C = Rest(h, b)
      OBVIOUS
    <3>7. HasAll(p, C)'
      BY <1>5, <3>4, <3>6
    <3> QED
      BY <3>5, <3>6, <3>7
  <2> QED
    BY <1>4, <2>1, <2>2
<1>7. CASE link[p] = "greeted"
  <2>1. Asking(p, h, seq, Len(pipe[p]))
    BY <1>7 DEF PageInv
  <2>2. InReplay(p) <=> cursor[p] > asked[p].last
    BY <1>7 DEF InReplay
  <2> QED
    BY <1>3, <1>6, <2>1, <2>2
<1>8. CASE link[p] = "live" /\ Live(p, h)
  <2>1. PICK a, k, e \in 0..Len(q), s \in 0..seq : LiveAt(p, q, h, a, k, e, s)
    BY <1>2, <1>8 DEF Live
  <2>2. a \in Nat /\ k \in Nat /\ e \in Nat /\ s \in Nat /\ s <= seq
    BY <1>3
  <2>3. Laid(p, q, a, k, e) /\ Numbered(p, q, h, a, k, e, s) /\ Fresh(p, h, s)
    BY <2>1 DEF LiveAt
  <2>4. DOMAIN q = 1..Len(q) /\ Len(q) \in Nat
    BY <1>3
  <2>5. CASE a > 0
    <3>1. Asking(p, h, s, a - 1)
      BY <2>1, <2>5 DEF LiveAt, Answered
    <3>2. a \in 1..Len(q) /\ q[a].type = "replay"
      BY <2>2, <2>3, <2>5 DEF Laid
    <3>3. "replay" \in {pipe[p][i].type : i \in 1..Len(pipe[p])}
      BY <1>2, <3>2
    <3>4. InReplay(p) <=> cursor[p] > asked[p].last
      BY <3>3 DEF InReplay
    <3> QED
      BY <1>6, <2>2, <3>1, <3>4
  <2>6. CASE a = 0
    <3>1. Reading(p, q, h, s, s + (e - k))
      BY <2>1, <2>6 DEF LiveAt
    <3>2. IF earned[p] = epoch THEN b = s ELSE b > s
      BY <1>2, <3>1 DEF Reading
    <3>3. Fresh(p, h, b)
      <4>1. \A n \in 1..seq : n > b => n > s
        BY <1>3, <2>2, <3>2
      <4> QED
        BY <1>3, <2>3, <4>1 DEF Fresh
    <3>4. /\ k <= e /\ \A i \in 1..e : q[i].type = "event"
          /\ \A i \in 1..k : ~q[i].live
          /\ \A i \in 1..Len(q) : i \in 1..e \/ (i = e + 1 /\ Len(q) = e + 1)
          /\ Len(q) = e + 1 => q[e + 1].type = "close"
      <4>1. 0 + 1..e = 1..e /\ 0 + 1..k = 1..k
        OBVIOUS
      <4>2. Len(q) \in {e, e + 1}
        BY <2>3 DEF Laid
      <4>3. \A i \in 1..Len(q) : i \in 1..e \/ (i = e + 1 /\ Len(q) = e + 1)
        <5>1. PICK l : l = Len(q)
          OBVIOUS
        <5>2. l \in Nat /\ l \in {e, e + 1}
          BY <2>4, <4>2, <5>1
        <5>3. \A i \in 1..l : i \in 1..e \/ (i = e + 1 /\ l = e + 1)
          BY <2>2, <5>2
        <5> QED
          BY <5>1, <5>3
      <4> QED
        BY <2>3, <2>6, <4>1, <4>3 DEF Laid
    <3>5. "replay" \notin {pipe[p][i].type : i \in 1..Len(pipe[p])}
      BY <1>2, <3>4
    <3>6. ASSUME earned[p] = epoch PROVE b <= seq /\ HasAll(p, Rest(h, b))'
      <4>1. b = s
        BY <3>2, <3>6
      <4>2. CASE k > 0
        <5>1. 1 \in 1..k /\ 1 \in 1..e /\ 1 \in 1..Len(q)
          <6>1. PICK l : l = Len(q)
            OBVIOUS
          <6>2. l \in Nat /\ l \in {e, e + 1}
            BY <2>3, <2>4, <6>1 DEF Laid
          <6>3. k \in Nat /\ e \in Nat /\ k <= e /\ k > 0
            BY <2>2, <3>4, <4>2
          <6>4. 1 \in 1..k /\ 1 \in 1..e /\ 1 \in 1..l
            BY ONLY <6>2, <6>3
          <6> QED
            BY <6>1, <6>4
        <5>2. q[1].type = "event" /\ ~q[1].live
          BY <3>4, <5>1
        <5>3. InReplay(p)
          BY <1>2, <1>8, <3>5, <5>1, <5>2 DEF InReplay
        <5>4. p \in torn'
          BY <1>1, <5>3
        <5> QED
          BY <1>3, <2>2, <4>1, <5>4 DEF HasAll
      <4>3. CASE k = 0
        <5>1. PICK C : C = Rest(h, b)
          OBVIOUS
        <5>2. Piped(q, 0) \cup Rest(h, s + (e - k)) = C
          BY <1>3, <2>2, <2>3, <2>6, <4>1, <4>3, <5>1, PipedIsRest
        <5>3. HasAll(p, C)
          BY <3>1, <5>2 DEF Reading
        <5>4. HasAll(p, C)'
          BY <1>5, <5>3
        <5> QED
          BY <1>3, <2>2, <4>1, <5>1, <5>4
      <4> QED
        BY <2>2, <4>2, <4>3
    <3> QED
      BY <1>4, <3>3, <3>6
  <2> QED
    BY <2>2, <2>5, <2>6
<1>9. CASE link[p] = "live" /\ Stale(p, q, h)
  <2>1. earned[p] # epoch /\ \A n \in DOMAIN h : h[n].pieces \cap held[p] = {}
    BY <1>9 DEF Stale
  <2>2. Fresh(p, h, b)
    BY <2>1 DEF Fresh
  <2> QED
    BY <1>4, <2>1, <2>2
<1> QED
  <2>1. link[p] \in {"down", "greeted", "live"}
    BY <1>3
  <2>2. link[p] = "live" => Live(p, h) \/ Stale(p, q, h)
    BY <1>2 DEF PageInv
  <2> QED
    BY <1>1, <1>7, <1>8, <1>9, <2>1, <2>2

\* What an event does to a page's transcript.
EventRead(p, f) ==
  /\ held'[p] = IF f.kind = "start" /\ ~Watched(p, f.turn)
                  THEN (held[p] \ Of(p, f.turn)) \cup f.pieces
                  ELSE IF Finished(p, f.turn) THEN held[p]
                  ELSE held[p] \cup f.pieces
  /\ sought'[p] = IF f.kind = "start" /\ ~Watched(p, f.turn) THEN sought[p] \ {f.turn}
                  ELSE IF f.kind = "end" /\ ~Watched(p, f.turn) THEN stored
                  ELSE sought[p]
  /\ patchy'[p] = patchy[p]
  /\ p \in torn' <=> p \in torn
  /\ p \in owing' <=> p \in owing

\* A page that applies an event still has, or will have, it all: a start brings
\* its turn anew, a finished turn has nothing to come, and at the end of a turn it
\* did not watch it asks for the rows.
LEMMA EventHasAll ==
  ASSUME TypeOK, UNCHANGED <<serverVars, turnVars, epoch>>, NEW p \in Pages,
         NEW f, Told(f), EventRead(p, f), NEW C,
         f.pieces \cap held[p] = {}, C \cap held[p] = {},
         \A x \in f.pieces : \A y \in Content(x[1]) : Later(x, y) => y \in f.pieces \cup C,
         \A x \in held[p] : IsSaid(x), sought[p] \subseteq stored,
         HasAll(p, f.pieces \cup C)
  PROVE  HasAll(p, C)'
<1>1. PICK H, G, P, H2, G2, A : /\ H = held[p] /\ G = sought[p] /\ P = patchy[p]
                                /\ H2 = held'[p] /\ G2 = sought'[p] /\ A = f.pieces \cup C
  OBVIOUS
<1>2. /\ H2 = IF f.kind = "start" /\ ~Watched(p, f.turn) THEN (H \ Of(p, f.turn)) \cup f.pieces
              ELSE IF Finished(p, f.turn) THEN H ELSE H \cup f.pieces
      /\ G2 = IF f.kind = "start" /\ ~Watched(p, f.turn) THEN G \ {f.turn}
              ELSE IF f.kind = "end" /\ ~Watched(p, f.turn) THEN stored
              ELSE G
      /\ P = patchy'[p] /\ p \in torn' \cup owing' <=> p \in torn \cup owing
      /\ \A t : Watched(p, t) <=> <<t, 1>> \in H
      /\ \A t : Finished(p, t) <=> <<t, 0>> \in H
      /\ Of(p, f.turn) = {x \in H : x[1] = f.turn}
  BY <1>1 DEF EventRead, Watched, Finished, Of
<1>3. /\ \A x \in f.pieces : x \in Pieces /\ x[1] = f.turn
      /\ f.kind = "start" => f.pieces = {<<f.turn, 1>>}
      /\ f.kind = "end" => f.pieces = {<<f.turn, 0>>}
      /\ <<f.turn, 1>> \in f.pieces => f.kind = "start"
      /\ <<f.turn, 0>> \in f.pieces => f.kind = "end"
  BY DEF Told
<1>4. /\ turns \in Nat /\ f.pieces \cap H = {} /\ C \cap H = {} /\ G \subseteq stored
      /\ \A t \in Turns : said[t] \in Nat
  BY <1>1 DEF TypeOK
<1>5. \A t : \A y \in Content(t) : y = <<t, y[2]>> /\ y[1] = t /\ (y[2] = 0 \/ 1 <= y[2])
  BY DEF Content
<1>6. ASSUME p \notin torn' \cup owing', NEW t \in 1..turns
      PROVE  \/ t \in lost \cup P
             \/ Content(t) \subseteq H2 \cup C
             \/ t \in stored /\ (t \in G2 \/ (<<t, 0>> \in C /\ <<t, 1>> \notin H2 \cup C))
             \/ t = turns /\ open /\ <<t, 1>> \notin H2 \cup C /\ ~turnLog.retaining
  <2>1. \/ t \in lost \cup P
        \/ Content(t) \subseteq H \cup A
        \/ t \in stored /\ (t \in G \/ (<<t, 0>> \in A /\ <<t, 1>> \notin H \cup A))
        \/ t = turns /\ open /\ <<t, 1>> \notin H \cup A /\ ~turnLog.retaining
    BY <1>1, <1>2, <1>6 DEF HasAll, Accounted
  <2>2. <<t, 0>>[1] = t /\ <<t, 1>>[1] = t /\ t # 0
    OBVIOUS
  <2>3. CASE t # f.turn
    <3>1. \A y : y[1] = t => (y \in H2 <=> y \in H) /\ (y \in A <=> y \in C)
      BY <1>1, <1>2, <1>3, <2>3
    <3>2. t \in G => t \in G2
      BY <1>2, <1>4, <2>3
    <3>3. Content(t) \subseteq H \cup A => Content(t) \subseteq H2 \cup C
      BY <1>5, <3>1
    <3>4. /\ <<t, 0>> \in A <=> <<t, 0>> \in C
          /\ <<t, 1>> \in H \cup A <=> <<t, 1>> \in H2 \cup C
      BY <2>2, <3>1
    <3> QED
      BY <2>1, <3>2, <3>3, <3>4
  <2>4. CASE t = f.turn /\ f.kind = "start"
    <3>1. <<t, 1>> \in f.pieces /\ ~Watched(p, t)
      BY <1>2, <1>3, <1>4, <2>4
    <3>2. H2 = (H \ Of(p, t)) \cup f.pieces
      BY <1>2, <2>4, <3>1
    <3>3. ASSUME NEW y \in Content(t) PROVE y \in f.pieces \cup C
      <4>1. <<t, 1>>[1] = t /\ <<t, 1>>[2] = 1
        OBVIOUS
      <4>2. Later(<<t, 1>>, y)
        BY <1>5, <4>1 DEF Later
      <4> QED
        BY <3>1, <4>1, <4>2
    <3> QED
      BY <3>2, <3>3
  <2>5. CASE t = f.turn /\ f.kind # "start" /\ Finished(p, t)
    <3>1. H2 = H /\ (t \in G => t \in G2) /\ <<t, 0>> \in H
      BY <1>2, <1>4, <2>2, <2>5
    <3>2. CASE f.pieces = {}
      BY <1>1, <1>2, <2>1, <3>1, <3>2
    <3>3. CASE f.pieces # {}
      <4>1. PICK x \in f.pieces : TRUE
        BY <3>3
      <4>2. x[1] = t /\ <<t, 0>>[1] = t /\ <<t, 0>>[2] = 0
        BY <1>3, <2>5
      <4>3. <<t, 0>> \in Content(t)
        BY <1>1, <3>1, <4>2 DEF IsSaid
      <4>4. <<t, 0>> \in f.pieces \cup C
        BY <4>2, <4>3 DEF Later
      <4> QED
        BY <1>4, <3>1, <4>4
    <3> QED
      BY <3>2, <3>3
  <2>6. CASE t = f.turn /\ f.kind # "start" /\ ~Finished(p, t)
    <3>1. H2 = H \cup f.pieces /\ (t \in G => t \in G2)
      BY <1>2, <1>4, <2>6
    <3>2. H2 \cup C = H \cup A
      BY <1>1, <3>1
    <3>3. t \in stored /\ <<t, 0>> \in A /\ <<t, 1>> \notin H \cup A => <<t, 0>> \in C \/ t \in G2
      <4>1. t \in stored /\ <<t, 0>> \in f.pieces /\ <<t, 1>> \notin H => t \in G2
        BY <1>2, <1>3, <2>6
      <4> QED
        BY <1>1, <4>1
    <3> QED
      BY <2>1, <3>1, <3>2, <3>3
  <2> QED
    BY <2>3, <2>4, <2>5, <2>6
<1>7. p \notin torn' \cup owing' => \A t \in 1..turns : Accounted(t, H2, G2, FALSE, P, C)
  BY <1>6 DEF Accounted
<1>8. H2 = held'[p] /\ G2 = sought'[p] /\ P = patchy'[p]
  <2>1. patchy'[p] = patchy[p]
    BY DEF EventRead
  <2> QED
    BY <1>1, <2>1
<1>9. UNCHANGED <<serverVars, turnVars, epoch>>
  OBVIOUS
<1> QED
  BY ONLY <1>7, <1>8, <1>9, HasAllIs

\* The number a page has come to once it has read a frame with number n.
LEMMA CursorOn ==
  ASSUME NEW b \in Nat, NEW n \in Nat, NEW s \in Nat, NEW s2 \in Nat, NEW z, NEW y,
         IF z = y THEN b = s ELSE b > s,
         (n <= s /\ s2 = s) \/ (n = s + 1 /\ s2 = s + 1),
         NEW b2, b2 = IF n > b THEN n ELSE b, NEW z2, z2 = IF n >= b THEN y ELSE z
  PROVE  IF z2 = y THEN b2 = s2 ELSE b2 > s2
OBVIOUS

\* An attached page reads a frame of its replay, or a live one.
LEMMA EventLive ==
  ASSUME TypeOK, UNCHANGED <<serverVars, turnVars, epoch>>, NEW h \in Seq(Frame), PastInv(h),
         NEW p \in Pages, NEW q, q = pipe[p], q # <<>>, pipe'[p] = Tail(q),
         p \in clients' <=> p \in clients, Apart(q),
         \A x \in held[p] : IsSaid(x), sought[p] \subseteq stored,
         NEW f, f = q[1], f.type = "event", EventRead(p, f),
         cursor'[p] = IF f.seq > cursor[p] THEN f.seq ELSE cursor[p],
         earned'[p] = IF f.seq >= cursor[p] THEN f.epoch ELSE earned[p],
         NEW k \in Nat, NEW e \in Nat, NEW s \in Nat, s <= seq, e > 0,
         LiveAt(p, q, h, 0, k, e, s)
  PROVE  Live(p, h)' /\ f.epoch = epoch /\ Told(f) /\ SaidBy(f)
<1>1. /\ Laid(p, q, 0, k, e) /\ Numbered(p, q, h, 0, k, e, s)
      /\ Ordered(q, h, 0, e, s + (e - k)) /\ Fresh(p, h, s)
      /\ Reading(p, q, h, s, s + (e - k))
  BY DEF LiveAt
<1>2. /\ q \in Seq(Outbound) /\ f \in Outbound /\ seq' = seq /\ epoch' = epoch /\ cursor[p] \in Nat
      /\ Len(h) = seq /\ DOMAIN h = 1..seq /\ seq \in Nat /\ f.seq \in Nat
  <2>1. q \in Seq(Outbound) /\ seq' = seq /\ epoch' = epoch /\ cursor[p] \in Nat
        /\ Len(h) = seq /\ DOMAIN h = 1..seq /\ seq \in Nat
    BY DEF TypeOK, serverVars, PastInv
  <2>2. f \in Outbound
    BY <2>1, TailIs
  <2> QED
    BY <2>1, <2>2, OutboundIs
<1>3. PICK k2, e2, s2, t, m : /\ k2 = IF k > 0 THEN k - 1 ELSE 0
                              /\ e2 = e - 1 /\ s2 = IF k > 0 THEN s ELSE s + 1
                              /\ t = Tail(q) /\ m = s + (e - k)
  OBVIOUS
<1>4. Shifted(0, k, e, s, 0, k2, e2, s2) /\ k <= e /\ 1 \in 0 + 1..e /\ (k > 0 => 1 \in 0 + 1..k)
      /\ (k = 0 => 1 \in k + 1..e /\ s + (1 - k) = s + 1)
  <2>1. k <= e
    BY <1>1 DEF Laid
  <2> QED
    BY <1>3, <2>1 DEF Shifted
<1>5. f.epoch = epoch /\ Told(f) /\ SaidBy(f)
  BY <1>1, <1>4 DEF Laid
<1>6. Laid(p, t, 0, k2, e2) /\ Numbered(p, t, h, 0, k2, e2, s2) /\ Ordered(t, h, 0, e2, m)
      /\ s2 + (e2 - k2) = m /\ 0 \in 0..Len(t) /\ k2 \in 0..Len(t) /\ e2 \in 0..Len(t)
  <2>1. Piping(p, q, h, 0, k, e, s, m)
    <3>1. Len(q) \in {e, e + 1}
      BY <1>1 DEF Laid
    <3>2. Len(q) \in Nat
      BY <1>2
    <3>3. 0 \in 0..Len(q) /\ k \in 0..Len(q) /\ e \in 0..Len(q)
      BY <1>4, <3>1, <3>2
    <3> QED
      BY <1>1, <1>3, <3>3 DEF Piping
  <2>2. Piping(p, Tail(q), h, 0, k2, e2, s2, m)
    BY <1>2, <1>4, <2>1, ReadOn
  <2> QED
    BY <1>3, <2>2 DEF Piping
<1>7. Laid(p, t, 0, k2, e2)' /\ Numbered(p, t, h, 0, k2, e2, s2)' /\ Ordered(t, h, 0, e2, m)'
  BY <1>6, StillLaid, Quiet
<1>8. m \in Nat /\ m <= seq /\ s2 \in Nat /\ s2 <= m /\ s <= s2
  <2>1. s + (e - k) <= seq
    BY <1>1 DEF Numbered
  <2> QED
    BY <1>2, <1>3, <1>4, <2>1
<1>9. \A n \in 1..seq : n > s2 => h[n].pieces \cap f.pieces = {} /\ n > s
  <2>1. CASE k > 0
    <3>1. \A n \in 1..seq : n > s => h[n].pieces \cap q[1].pieces = {}
      BY <1>1, <1>2, <1>4, <2>1 DEF Numbered
    <3> QED
      BY <1>3, <2>1, <3>1
  <2>2. CASE k = 0
    <3>1. q[1].pieces = h[s + (1 - k)].pieces
      BY <1>1, <1>4, <2>2 DEF Numbered
    <3>2. f.pieces = h[s + 1].pieces /\ s2 = s + 1 /\ s + 1 \in 1..seq
      BY <1>2, <1>3, <1>4, <1>8, <2>2, <3>1
    <3>3. \A n \in 1..seq : n > s + 1 => n # s + 1 /\ n > s
      OBVIOUS
    <3>4. \A n \in 1..seq : n # s + 1 => h[n].pieces \cap h[s + 1].pieces = {}
      BY <1>2, <3>2 DEF PastInv
    <3> QED
      BY <3>2, <3>3, <3>4
  <2> QED
    BY <2>1, <2>2
<1>10. \A n \in 1..seq : n > s => h[n].pieces \cap held[p] = {}
  BY <1>1, <1>2 DEF Fresh
<1>11. held'[p] \subseteq held[p] \cup f.pieces
  BY DEF EventRead
<1>12. Fresh(p, h, s2)'
  BY <1>2, <1>9, <1>10, <1>11 DEF Fresh
<1>13. PICK C : C = Piped(q, 1) \cup Rest(h, m)
  OBVIOUS
<1>14. /\ Piped(t, 0) = Piped(q, 1) /\ Piped(q, 0) = Piped(q, 1) \cup f.pieces
       /\ f.pieces \cap Piped(q, 1) = {}
  <2>1. 0 + 1 = 1 /\ 0 \in Nat
    OBVIOUS
  <2>2. q \in Seq(Outbound) /\ q # <<>> /\ Apart(q) /\ q[1].type = "event" /\ f = q[1]
    BY <1>2
  <2>3. Piped(t, 0) = Piped(q, 1)
    BY <1>3, <2>1, <2>2, PipedTail
  <2>4. Piped(q, 0) = Piped(q, 1) \cup f.pieces
    BY <2>2, PipedTail
  <2>5. f.pieces \cap Piped(q, 1) = {}
    BY <2>2, ApartTail
  <2> QED
    BY <2>3, <2>4, <2>5
<1>15. Piped(q, 0) \cap held[p] = {} /\ HasAll(p, Piped(q, 0) \cup Rest(h, m))
       /\ IF earned[p] = epoch THEN cursor[p] = s ELSE cursor[p] > s
  BY <1>1, <1>3 DEF Reading
<1>16. /\ f.pieces \cap held[p] = {} /\ C \cap held[p] = {}
       /\ HasAll(p, f.pieces \cup C)
  <2>1. Piped(q, 0) \cup Rest(h, m) = f.pieces \cup C
    BY <1>13, <1>14
  <2>2. Rest(h, m) \cap held[p] = {}
    <3>1. \A x : x \in Rest(h, m) => \E n \in 1..seq : n > m /\ x \in h[n].pieces
      BY <1>2, RestIs
    <3>2. \A n \in 1..seq : n > m => n > s
      BY <1>8
    <3> QED
      BY <1>10, <3>1, <3>2
  <2> QED
    BY <1>13, <1>14, <1>15, <2>1, <2>2
<1>17. \A x \in f.pieces : \A y \in Content(x[1]) : Later(x, y) => y \in f.pieces \cup C
  <2>1. 1 - 1 = 0
    OBVIOUS
  <2>2. \A x \in q[1].pieces : \A y \in Content(x[1]) :
          Later(x, y) => y \in Piped(q, 1 - 1) \cup Rest(h, m)
    BY <1>1, <1>3, <1>4 DEF Ordered
  <2> QED
    BY <1>13, <1>14, <2>1, <2>2
<1>18. HasAll(p, C)'
  BY <1>5, <1>16, <1>17, EventHasAll
<1>19. IF earned'[p] = epoch' THEN cursor'[p] = s2 ELSE cursor'[p] > s2
  <2>1. (f.seq <= s /\ s2 = s) \/ (f.seq = s + 1 /\ s2 = s + 1)
    <3>1. CASE k > 0
      <4>1. q[1].seq <= s
        BY <1>1, <1>4, <3>1 DEF Numbered
      <4> QED
        BY <1>3, <3>1, <4>1
    <3>2. CASE k = 0
      <4>1. q[1].seq = s + (1 - k)
        BY <1>1, <1>4, <3>2 DEF Numbered
      <4> QED
        BY <1>3, <1>4, <3>2, <4>1
    <3> QED
      BY <3>1, <3>2
  <2>2. PICK b, b2, n, z, z2, y : /\ b = cursor[p] /\ b2 = cursor'[p] /\ n = f.seq /\ z = earned[p]
                                  /\ z2 = earned'[p] /\ y = epoch
    OBVIOUS
  <2>3. /\ b \in Nat /\ n \in Nat /\ s2 \in Nat
        /\ IF z = y THEN b = s ELSE b > s
        /\ (n <= s /\ s2 = s) \/ (n = s + 1 /\ s2 = s + 1)
        /\ b2 = (IF n > b THEN n ELSE b) /\ z2 = (IF n >= b THEN y ELSE z)
    BY <1>2, <1>5, <1>8, <1>15, <2>1, <2>2
  <2>4. IF z2 = y THEN b2 = s2 ELSE b2 > s2
    BY ONLY <2>3, CursorOn, s \in Nat
  <2> QED
    BY <1>2, <2>2, <2>4
<1>20. Reading(p, t, h, s2, m)'
  <2>1. Piped(t, 0) \cup Rest(h, m) = C
    BY <1>13, <1>14
  <2>2. Piped(t, 0) \cap held'[p] = {}
    BY <1>11, <1>14, <1>15
  <2> QED
    BY <1>18, <1>19, <2>1, <2>2 DEF Reading
<1>21. LiveAt(p, t, h, 0, k2, e2, s2)'
  BY <1>6, <1>7, <1>12, <1>20 DEF LiveAt
<1>22. s2 \in 0..seq'
  BY <1>2, <1>8
<1> QED
  BY <1>3, <1>5, <1>6, <1>21, <1>22 DEF Live

\* A page applies an event: a status of its greeting, a frame of its replay, a
\* live frame, or what an old count left.
LEMMA EventPage ==
  ASSUME TypeOK, NEW h \in Seq(Frame), PastInv(h), NEW p \in Pages, PageInv(p, h), ApplyEvent(p)
  PROVE  PageInv(p, h)'
<1>1. /\ pipe[p] # <<>> /\ Head(pipe[p]).type = "event"
      /\ pipe' = [pipe EXCEPT ![p] = Tail(pipe[p])]
      /\ UNCHANGED <<serverVars, clients, turnVars, epoch, link, asked, patchy, torn, owing>>
  BY DEF ApplyEvent, Next1, Take
<1>2. PICK q, f : q = pipe[p] /\ f = q[1]
  OBVIOUS
<1>3. /\ q \in Seq(Outbound) /\ q # <<>> /\ f \in Outbound /\ Head(pipe[p]) = f
      /\ pipe'[p] = Tail(q) /\ cursor[p] \in Nat /\ earned[p] \in Nat /\ epoch \in Nat
      /\ link \in [Pages -> {"down", "greeted", "live"}]
  <2>1. q \in Seq(Outbound) /\ q # <<>> /\ cursor[p] \in Nat /\ epoch \in Nat /\ earned[p] \in Nat
        /\ link \in [Pages -> {"down", "greeted", "live"}] /\ pipe'[p] = Tail(q)
    BY <1>1, <1>2 DEF TypeOK
  <2>2. f \in Outbound /\ Head(pipe[p]) = f
    BY <1>2, <2>1, TailIs
  <2> QED
    BY <2>1, <2>2
<1>4. f.type = "event" /\ f.seq \in Nat /\ f.epoch \in Nat
  BY <1>1, <1>3, OutboundIs
<1>5. /\ cursor'[p] = IF f.seq > cursor[p] THEN f.seq ELSE cursor[p]
      /\ earned'[p] = IF f.seq >= cursor[p] THEN f.epoch ELSE earned[p]
  BY <1>3 DEF ApplyEvent, Advance, TypeOK
<1>6. EventRead(p, f)
  <2>1. held \in [Pages -> SUBSET Pieces] /\ sought \in [Pages -> SUBSET Turns]
    BY DEF TypeOK
  <2>2. /\ held' = [held EXCEPT ![p] =
             IF f.kind = "start" /\ ~Watched(p, f.turn) THEN (held[p] \ Of(p, f.turn)) \cup f.pieces
             ELSE IF Finished(p, f.turn) THEN held[p]
             ELSE held[p] \cup f.pieces]
        /\ sought' = [sought EXCEPT ![p] =
             IF f.kind = "start" /\ ~Watched(p, f.turn) THEN sought[p] \ {f.turn}
             ELSE IF f.kind = "end" /\ ~Watched(p, f.turn) THEN stored
             ELSE sought[p]]
    BY <1>3 DEF ApplyEvent
  <2>4. patchy'[p] = patchy[p] /\ (p \in torn' <=> p \in torn) /\ (p \in owing' <=> p \in owing)
    BY <1>1
  <2> QED
    BY <2>1, <2>2, <2>4 DEF EventRead
<1>7. Apart(q) /\ (\A x \in held[p] : IsSaid(x)) /\ sought[p] \subseteq stored /\ earned[p] <= epoch
      /\ (p \in clients => link[p] = "live" /\ Live(p, h))
  BY <1>2 DEF PageInv
<1>8. Apart(Tail(q))
  BY <1>3, <1>7, ApartTail
<1>9. stored' = stored /\ epoch' = epoch /\ seq' = seq /\ seq \in Nat
  BY <1>1 DEF serverVars, turnVars, TypeOK
<1>10. held'[p] \subseteq held[p] \cup f.pieces /\ sought'[p] \subseteq stored
  BY <1>6, <1>7 DEF EventRead
<1>11. SaidBy(f) => \A x \in held'[p] : IsSaid(x)'
  BY <1>1, <1>7, <1>10, Quiet DEF SaidBy
<1>12. ASSUME Greeting(p, 1), asked[p].epoch = earned[p],
              link[p] = "greeted" \/ (link[p] = "live" /\
                \E a, k, e \in Nat, s \in 0..seq : a > 1 /\ LiveAt(p, q, h, a, k, e, s))
       PROVE  PageInv(p, h)'
  <2>1. f.kind = "status" /\ f.turn = 0 /\ f.pieces = {} /\ f.epoch = earned[p]
    BY <1>2, <1>4, <1>12 DEF Greeting
  <2>2. SamePage(p)
    BY <1>6, <2>1 DEF EventRead, SamePage
  <2>3. PICK d : d = cursor'[p]
    OBVIOUS
  <2>4. GreetingRead(p, q, d)
    <3>1. d \in Nat /\ (d = cursor[p] \/ (d = q[1].seq /\ d > cursor[p]))
      BY <1>2, <1>3, <1>4, <1>5, <2>3
    <3>2. earned'[p] = earned[p]
      BY <1>5, <2>1
    <3>3. link'[p] = link[p] /\ asked'[p] = asked[p] /\ (p \in clients' <=> p \in clients)
      BY <1>1
    <3> QED
      BY <1>2, <1>3, <1>4, <2>2, <2>3, <3>1, <3>2, <3>3 DEF GreetingRead
  <2>5. UNCHANGED <<serverVars, turnVars, epoch>>
    BY <1>1
  <2>6. link[p] = "live" => Live(p, h)'
    <3> SUFFICES ASSUME link[p] = "live" PROVE Live(p, h)'
      OBVIOUS
    <3>1. PICK a, k, e \in Nat, s \in 0..seq : a > 1 /\ LiveAt(p, q, h, a, k, e, s)
      BY <1>12
    <3>2. s \in Nat /\ s <= seq
      BY <1>9
    <3> QED
      BY <2>4, <2>5, <3>1, <3>2, GreetingLive
  <2> QED
    BY <1>12, <2>4, <2>5, <2>6, GreetingPage
<1>13. CASE link[p] = "down"
  BY <1>1, <1>13 DEF PageInv, Down
<1>14. CASE link[p] = "greeted"
  <2>1. Asking(p, h, seq, Len(q))
    BY <1>2, <1>14 DEF PageInv
  <2>2. 1 \in 1..Len(q)
    BY <1>3, TailIs
  <2>3. Greeting(p, 1) /\ asked[p].epoch = earned[p]
    BY <2>1, <2>2 DEF Asking
  <2> QED
    BY <1>12, <1>14, <2>3
<1>15. CASE link[p] = "live" /\ Live(p, h)
  <2>1. PICK a, k, e \in 0..Len(q), s \in 0..seq : LiveAt(p, q, h, a, k, e, s)
    BY <1>2, <1>15 DEF Live
  <2>2. a \in Nat /\ k \in Nat /\ e \in Nat /\ s \in Nat /\ s <= seq
    BY <1>9
  <2>3. q[1].type = "event" /\ q[1].type # "close"
    BY <1>2, <1>4
  <2>4. e > 0 /\ a # 1 /\ (a > 1 => Greeting(p, 1))
    BY <1>2, <1>3, <2>1, <2>2, <2>3, HeadIs
  <2>5. CASE a > 1
    <3>1. asked[p].epoch = earned[p]
      BY <2>1, <2>5 DEF LiveAt, Answered, Asking
    <3> QED
      BY <1>12, <1>15, <2>1, <2>2, <2>4, <2>5, <3>1
  <2>6. CASE a = 0
    <3>1. LiveAt(p, q, h, 0, k, e, s)
      BY <2>1, <2>6
    <3>2. UNCHANGED <<serverVars, turnVars, epoch>> /\ (p \in clients' <=> p \in clients)
      BY <1>1
    <3>3. Live(p, h)' /\ f.epoch = epoch /\ Told(f) /\ SaidBy(f)
      BY <1>2, <1>3, <1>4, <1>5, <1>6, <1>7, <2>2, <2>4, <3>1, <3>2, EventLive
    <3>4. earned'[p] <= epoch
      BY <1>3, <1>5, <1>7, <3>3
    <3> QED
      BY <1>1, <1>3, <1>8, <1>9, <1>10, <1>11, <1>15, <3>3, <3>4 DEF PageInv
  <2> QED
    BY <2>2, <2>4, <2>5, <2>6
<1>16. CASE link[p] = "live" /\ Stale(p, q, h)
  <2>1. p \notin clients' /\ earned[p] # epoch
    BY <1>1, <1>16 DEF Stale
  <2>2. f.epoch < epoch /\ Told(f) /\ SaidBy(f)
    <3>1. 1 \in DOMAIN q
      BY <1>3, TailIs
    <3> QED
      BY <1>2, <1>4, <1>16, <3>1 DEF Stale
  <2>3. earned'[p] # epoch /\ earned'[p] <= epoch
    BY <1>3, <1>4, <1>5, <1>7, <2>1, <2>2
  <2>4. PICK H : H = held'[p]
    OBVIOUS
  <2>5. H \subseteq held[p] \cup q[1].pieces /\ (q[1].pieces = {} => H = held[p])
    <3>1. f.kind = "start" => f.pieces # {}
      BY <2>2 DEF Told
    <3> QED
      BY <1>2, <1>6, <2>4, <3>1 DEF EventRead
  <2>6. Stale(p, Tail(q), h)'
    <3>1. q[1].type \in {"event", "connected", "replay"} /\ q[1].type # "replay" /\ q[1].type # "connected"
      BY <1>2, <1>4
    <3>2. UNCHANGED <<serverVars, turnVars, epoch>>
      BY <1>1
    <3> QED
      BY <1>3, <1>7, <1>16, <2>1, <2>3, <2>4, <2>5, <3>1, <3>2, StaleOn
  <2> QED
    BY <1>1, <1>3, <1>8, <1>9, <1>10, <1>11, <1>16, <2>1, <2>2, <2>3, <2>6 DEF PageInv
<1> QED
  <2>1. link[p] \in {"down", "greeted", "live"}
    BY <1>3
  <2>2. link[p] = "live" => Live(p, h) \/ Stale(p, q, h)
    BY <1>2 DEF PageInv
  <2> QED
    BY <1>13, <1>14, <1>15, <1>16, <2>1, <2>2

-----------------------------------------------------------------------------
(* The server forgets                                                      *)

\* A count that starts over has numbered nothing.
LEMMA ForgottenPast ==
  ASSUME Forgotten, ~open'
  PROVE  LogInv' /\ PastInv(<<>>)'
<1>1. seq' = 0 /\ ring' = <<>> /\ lastAppended' = 0 /\ turnLog' = NoLog
  BY DEF Forgotten
<1>2. Len(<<>>) = 0 /\ DOMAIN <<>> = {}
  OBVIOUS
<1> QED
  BY <1>1, <1>2 DEF LogInv, PastInv, NoLog

\* What was said stays said.
LEMMA StillSaid ==
  ASSUME UNCHANGED <<said, stored>>
  PROVE  /\ \A x : IsSaid(x)' <=> IsSaid(x)
         /\ \A g : SaidBy(g)' <=> SaidBy(g)
<1>1. \A t : Content(t)' = Content(t)
  BY DEF Content
<1>2. \A x : IsSaid(x)' <=> IsSaid(x)
  <2>1. Turns' = Turns
    BY DEF Turns
  <2> QED
    BY <1>1, <2>1 DEF IsSaid
<1> QED
  BY <1>2 DEF SaidBy

\* What the next count finds in a pipe: frames of counts before it, at most one
\* header, and nothing that its page has.
Aged(p, q) ==
  /\ \A i \in DOMAIN q :
       /\ q[i].type = "event" => q[i].epoch <= epoch /\ Told(q[i]) /\ SaidBy(q[i])
       /\ q[i].type = "replay" => q[i].epoch <= epoch
  /\ \E a \in 0..Len(q) :
       /\ \A i \in DOMAIN q : q[i].type = "replay" <=> i = a
       /\ \A i \in 1..a - 1 : q[i].type = "event" => q[i].pieces = {}
       /\ a = 0 \/ q[a].complete => Piped(q, 0) \cap held[p] = {}
       /\ a > 0 => Piped(q, 0) \cap Kept(p, q[a]) = {}

\* A page that was attached on a count is behind it once the next begins.
LEMMA LiveGoesStale ==
  ASSUME TypeOK, NEW h, NEW p \in Pages, NEW q, q = pipe[p], Live(p, h),
         earned[p] <= epoch
  PROVE  Aged(p, q)
<1> SUFFICES /\ \A i \in DOMAIN q :
                 /\ q[i].type = "event" => q[i].epoch <= epoch /\ Told(q[i]) /\ SaidBy(q[i])
                 /\ q[i].type = "replay" => q[i].epoch <= epoch
             /\ \E a \in 0..Len(q) :
                 /\ \A i \in DOMAIN q : q[i].type = "replay" <=> i = a
                 /\ \A i \in 1..a - 1 : q[i].type = "event" => q[i].pieces = {}
                 /\ a = 0 \/ q[a].complete => Piped(q, 0) \cap held[p] = {}
                 /\ a > 0 => Piped(q, 0) \cap Kept(p, q[a]) = {}
  BY DEF Aged
<1>1. PICK l : l = Len(q)
  OBVIOUS
<1>2. l \in Nat /\ DOMAIN q = 1..l /\ epoch \in Nat
  BY <1>1 DEF TypeOK
<1>3. PICK a, k, e \in 0..l, s \in 0..seq : LiveAt(p, q, h, a, k, e, s)
  BY <1>1 DEF Live
<1>4. a \in Nat /\ k \in Nat /\ e \in Nat
  BY <1>2
<1>5. /\ a <= k /\ k <= e /\ l \in {e, e + 1} /\ (l = e + 1 => q[e + 1].type = "close")
      /\ a > 0 => q[a].type = "replay" /\ q[a].epoch = epoch /\ Asking(p, h, s, a - 1)
      /\ \A i \in a + 1..e : q[i].type = "event" /\ q[i].epoch = epoch /\ Told(q[i]) /\ SaidBy(q[i])
  <2>1. Laid(p, q, a, k, e) /\ (a > 0 => Asking(p, h, s, a - 1))
    BY <1>3 DEF LiveAt, Answered
  <2> QED
    BY <1>1, <2>1 DEF Laid
<1>6. ASSUME NEW i \in 1..a - 1
      PROVE  /\ q[i].type = "event" \/ q[i].type = "connected"
             /\ q[i].type = "event" => /\ q[i].epoch <= epoch /\ Told(q[i]) /\ SaidBy(q[i])
                                       /\ q[i].pieces = {}
  <2>1. a > 0
    BY <1>4
  <2>2. Greeting(p, i) /\ earned[p] = asked[p].epoch
    BY <1>5, <2>1 DEF Asking
  <2>3. \/ q[i].type = "connected"
        \/ /\ q[i].type = "event" /\ q[i].kind = "status" /\ q[i].turn = 0 /\ q[i].pieces = {}
           /\ q[i].epoch = asked[p].epoch
    BY <2>2 DEF Greeting
  <2> QED
    BY <2>2, <2>3 DEF Told, SaidBy
<1>7. \A i \in 1..l : i \in 1..a - 1 \/ i = a \/ i \in a + 1..e \/ (i = e + 1 /\ l = e + 1)
  BY <1>2, <1>4, <1>5
<1>8. ASSUME NEW i \in 1..l
      PROVE  /\ q[i].type = "event" => q[i].epoch <= epoch /\ Told(q[i]) /\ SaidBy(q[i])
             /\ q[i].type = "replay" => q[i].epoch <= epoch
             /\ q[i].type = "replay" <=> i = a
  <2>1. CASE i \in 1..a - 1
    <3>1. i # a
      BY <1>4, <2>1
    <3> QED
      BY <1>6, <2>1, <3>1
  <2>2. CASE i = a
    <3>1. a > 0
      BY <2>2
    <3> QED
      BY <1>2, <1>5, <2>2, <3>1
  <2>3. CASE i \in a + 1..e
    <3>1. i # a
      BY <1>4, <2>3
    <3> QED
      BY <1>2, <1>5, <2>3, <3>1
  <2>4. CASE i = e + 1 /\ l = e + 1
    <3>1. i # a
      BY <1>4, <1>5, <2>4
    <3> QED
      BY <1>5, <2>4, <3>1
  <2> QED
    BY <1>7, <2>1, <2>2, <2>3, <2>4
<1>9. a = 0 \/ q[a].complete => Piped(q, 0) \cap held[p] = {}
  BY <1>3, <1>4 DEF LiveAt, Reading, Answered
<1>10. a > 0 => Piped(q, 0) \cap Kept(p, q[a]) = {}
  <2>1. Kept(p, q[a]) \subseteq held[p]
    BY DEF Kept
  <2> QED
    BY <1>3, <1>9, <2>1 DEF LiveAt, Answered
<1> QED
  BY <1>1, <1>2, <1>6, <1>8, <1>9, <1>10

\* The session is evicted: every page is behind the next count, or down.
LEMMA EvictPage ==
  ASSUME TypeOK, NEW h, NEW p \in Pages, PageInv(p, h), Evict
  PROVE  PageInv(p, <<>>)'
<1>1. /\ epoch' = epoch + 1 /\ seq' = 0 /\ epoch \in Nat /\ earned[p] \in Nat
      /\ UNCHANGED <<clients, turnVars, link, asked, pipe, pageVars>> /\ p \notin clients
  BY DEF Evict, Forgotten, TypeOK
<1>2. UNCHANGED <<said, stored, cursor, held, sought, earned>>
  BY <1>1 DEF turnVars, pageVars
<1>3. PICK q : q = pipe[p]
  OBVIOUS
<1>4. /\ \A x \in held[p] : IsSaid(x)
      /\ sought[p] \subseteq stored /\ Apart(q) /\ earned[p] <= epoch
      /\ link[p] = "down" => Down(p, h)
      /\ link[p] = "greeted" => Asking(p, h, seq, Len(q))
      /\ link[p] = "live" => Live(p, h) \/ Stale(p, q, h)
  BY <1>3 DEF PageInv
<1>5. earned[p] < epoch + 1 /\ earned[p] # epoch + 1
  BY <1>1, <1>4
<1>6. DOMAIN <<>> = {} /\ \A b : Fresh(p, <<>>, b)'
  BY DEF Fresh
<1>7. link[p] = "down" => Down(p, <<>>)'
  BY <1>1, <1>2, <1>4, <1>5, <1>6 DEF Down
<1>8. link[p] = "greeted" => Asking(p, <<>>, seq, Len(pipe[p]))'
  <2> SUFFICES ASSUME link[p] = "greeted" PROVE Asking(p, <<>>, seq, Len(pipe[p]))'
    OBVIOUS
  <2>1. PICK l : l = Len(q)
    OBVIOUS
  <2>2. earned[p] = asked[p].epoch /\ \A i \in 1..l : Greeting(p, i)
    BY <1>4, <2>1 DEF Asking
  <2>3. \A i \in 1..l : Greeting(p, i)'
    BY <1>1, <2>2 DEF Greeting
  <2>4. asked'[p].epoch # epoch' /\ earned'[p] = asked'[p].epoch /\ Len(pipe'[p]) = l
    BY <1>1, <1>2, <1>3, <1>5, <2>1, <2>2
  <2> QED
    BY <1>6, <2>3, <2>4 DEF Asking
<1>9. link[p] = "live" => Stale(p, q, <<>>)'
  <2> SUFFICES ASSUME link[p] = "live" PROVE Stale(p, q, <<>>)'
    OBVIOUS
  <2>1. /\ \A i \in DOMAIN q :
             /\ q[i].type = "event" => q[i].epoch <= epoch /\ Told(q[i]) /\ SaidBy(q[i])
             /\ q[i].type = "replay" => q[i].epoch <= epoch
        /\ \E a \in 0..Len(q) :
             /\ \A i \in DOMAIN q : q[i].type = "replay" <=> i = a
             /\ \A i \in 1..a - 1 : q[i].type = "event" => q[i].pieces = {}
             /\ a = 0 \/ q[a].complete => Piped(q, 0) \cap held[p] = {}
             /\ a > 0 => Piped(q, 0) \cap Kept(p, q[a]) = {}
    <3>1. CASE Live(p, h)
      <4>1. TypeOK /\ q = pipe[p] /\ earned[p] <= epoch /\ Live(p, h)
        BY <1>3, <1>4, <3>1
      <4>2. Aged(p, q)
        BY ONLY <4>1, p \in Pages, LiveGoesStale
      <4> QED
        BY <4>2 DEF Aged
    <3>2. CASE Stale(p, q, h)
      <4>1. \A i \in DOMAIN q : q[i].type = "event" \/ q[i].type = "replay" => q[i].epoch \in Nat
        <5>1. q \in Seq(Outbound)
          BY <1>3 DEF TypeOK
        <5>2. \A i \in DOMAIN q : q[i] \in Outbound
          BY <5>1
        <5> QED
          BY <5>2, OutboundIs
      <4>2. \A i \in DOMAIN q :
             /\ q[i].type = "event" => q[i].epoch < epoch /\ Told(q[i]) /\ SaidBy(q[i])
             /\ q[i].type = "replay" => q[i].epoch < epoch
        BY <3>2 DEF Stale
      <4>3. \A i \in DOMAIN q :
             /\ q[i].type = "event" => q[i].epoch <= epoch /\ Told(q[i]) /\ SaidBy(q[i])
             /\ q[i].type = "replay" => q[i].epoch <= epoch
        BY <1>1, <4>1, <4>2
      <4> QED
        BY <3>2, <4>3 DEF Stale
    <3> QED
      BY <1>4, <3>1, <3>2
  <2>2. \A i \in DOMAIN q :
          /\ q[i].type = "event" => q[i].epoch < epoch' /\ Told(q[i]) /\ SaidBy(q[i])'
          /\ q[i].type = "replay" => q[i].epoch < epoch'
    <3>1. q \in Seq(Outbound)
      BY <1>3 DEF TypeOK
    <3>2. \A i \in DOMAIN q : q[i] \in Outbound
      BY <3>1
    <3>3. \A i \in DOMAIN q : q[i].type = "event" \/ q[i].type = "replay" => q[i].epoch \in Nat
      BY <3>2, OutboundIs
    <3>4. \A n \in Nat : n <= epoch => n < epoch'
      BY <1>1
    <3>5. \A g : SaidBy(g)' <=> SaidBy(g)
      BY <1>2, StillSaid
    <3> QED
      BY <2>1, <3>3, <3>4, <3>5
  <2>3. \A r : Kept(p, r)' = Kept(p, r)
    BY <1>2 DEF Kept
  <2>4. \E a \in 0..Len(q) :
             /\ \A i \in DOMAIN q : q[i].type = "replay" <=> i = a
             /\ \A i \in 1..a - 1 : q[i].type = "event" => q[i].pieces = {}
             /\ a = 0 \/ q[a].complete => Piped(q, 0) \cap held'[p] = {}
             /\ a > 0 => Piped(q, 0) \cap Kept(p, q[a])' = {}
    BY <1>2, <2>1, <2>3
  <2>5. p \notin clients' /\ earned'[p] # epoch'
    BY <1>1, <1>2, <1>5
  <2> QED
    BY <1>6, <2>2, <2>4, <2>5 DEF Stale
<1>10. \A x \in held'[p] : IsSaid(x)'
  BY <1>2, <1>4, StillSaid
<1>11. earned'[p] <= epoch'
  BY <1>1, <1>2, <1>5
<1> QED
  BY <1>1, <1>2, <1>3, <1>4, <1>7, <1>8, <1>9, <1>10, <1>11 DEF PageInv

\* The server restarts: every page is down.
LEMMA RestartPage ==
  ASSUME TypeOK, NEW h, NEW p \in Pages, PageInv(p, h), Restart
  PROVE  PageInv(p, <<>>)'
<1>1. /\ epoch' = epoch + 1 /\ seq' = 0 /\ epoch \in Nat /\ earned[p] \in Nat
      /\ link'[p] = "down" /\ pipe'[p] = <<>> /\ p \notin clients'
      /\ UNCHANGED <<said, stored, cursor, held, sought, earned>>
  BY DEF Restart, Forgotten, Unlink, TypeOK
<1>2. (\A x \in held[p] : IsSaid(x)) /\ sought[p] \subseteq stored /\ earned[p] <= epoch
  BY DEF PageInv
<1>3. earned[p] < epoch + 1 /\ earned[p] # epoch + 1
  BY <1>1, <1>2
<1>4. DOMAIN <<>> = {}
  OBVIOUS
<1>5. Down(p, <<>>)'
  BY <1>1, <1>3, <1>4 DEF Down, Fresh
<1>6. \A x \in held'[p] : IsSaid(x)'
  BY <1>1, <1>2, StillSaid
<1>7. earned'[p] <= epoch'
  BY <1>1, <1>3
<1>8. Apart(<<>>)
  BY DEF Apart
<1> QED
  BY <1>1, <1>2, <1>5, <1>6, <1>7, <1>8 DEF PageInv

\* Forgetting keeps the shapes, and leaves no turn running.
LEMMA ForgetTypes ==
  ASSUME TypeOK, TurnInv, Evict \/ Restart
  PROVE  TypeOK' /\ TurnInv' /\ ~open'
<1>0. /\ epoch \in Nat /\ turns \in 0..MaxTurns /\ MaxTurns \in Nat /\ open \in BOOLEAN
      /\ LogBytes \in Nat /\ lost \subseteq Turns
  BY ReplayAssumption DEF TypeOK
<1>1. /\ seq' \in Nat /\ lastAppended' \in Nat /\ ring' \in Seq(Frame) /\ epoch' \in Nat
      /\ turnLog' \in [turn : 0..MaxTurns, retaining : BOOLEAN,
                       entries : Seq(Frame), bytes : 0..LogBytes]
  <2>1. Forgotten
    BY DEF Evict, Restart
  <2>2. <<>> \in Seq(Frame) /\ 0 \in 0..MaxTurns /\ 0 \in 0..LogBytes /\ 0 \in Nat
    BY <1>0
  <2>3. NoLog \in [turn : 0..MaxTurns, retaining : BOOLEAN,
                   entries : Seq(Frame), bytes : 0..LogBytes]
    BY <2>2 DEF NoLog
  <2> QED
    BY <1>0, <2>1, <2>2, <2>3 DEF Forgotten
<1>2. CASE Evict
  <2>1. UNCHANGED <<clients, turnVars, link, asked, pipe, pageVars>> /\ ~open
    BY <1>2 DEF Evict
  <2>2. UNCHANGED <<clients, turns, open, said, stored, lost, link, asked, pipe, cursor, held,
                    sought, earned, patchy, torn, owing>>
    BY <2>1 DEF turnVars, pageVars
  <2>3. TypeOK'
    BY <1>1, <2>2 DEF TypeOK
  <2>4. TurnInv'
    BY <2>2 DEF TurnInv, Turns
  <2> QED
    BY <2>1, <2>2, <2>3, <2>4
<1>3. CASE Restart
  <2>1. /\ link' = [z \in Pages |-> "down"] /\ pipe' = [z \in Pages |-> <<>>]
        /\ clients' \subseteq Pages /\ torn' \subseteq Pages
    <3>1. /\ link' = [z \in Pages |-> IF z \in Pages THEN "down" ELSE link[z]]
          /\ pipe' = [z \in Pages |-> IF z \in Pages THEN <<>> ELSE pipe[z]]
          /\ clients' = clients \ Pages /\ torn' = torn \cup {z \in Pages : InReplay(z)}
      BY <1>3 DEF Restart, Unlink
    <3> QED
      BY <3>1 DEF TypeOK
  <2>2. <<>> \in Seq(Outbound)
    OBVIOUS
  <2>3. /\ link' \in [Pages -> {"down", "greeted", "live"}] /\ pipe' \in [Pages -> Seq(Outbound)]
    BY <2>1, <2>2
  <2>4. /\ open' = FALSE /\ lost' = IF open THEN lost \cup {turns} ELSE lost
        /\ UNCHANGED <<turns, said, stored, asked, cursor, held, sought, earned,
                       patchy, owing>>
    BY <1>3 DEF Restart
  <2>5. open => turns \in Turns
    BY DEF TurnInv
  <2>6. lost' \subseteq Turns
    BY <1>0, <2>4, <2>5
  <2>7. TypeOK'
    BY <1>1, <2>1, <2>3, <2>4, <2>6 DEF TypeOK
  <2>8. TurnInv'
    BY <2>4 DEF TurnInv, Turns
  <2> QED
    BY <2>4, <2>7, <2>8
<1> QED
  BY <1>2, <1>3

-----------------------------------------------------------------------------
(* The invariant                                                           *)

\* At first nothing is numbered, and nothing is missing.
LEMMA ReplayInit == Init => ReplayInv
<1> SUFFICES ASSUME Init PROVE ReplayInv
  OBVIOUS
<1> USE DEF Init
<1>1. MaxTurns \in Nat /\ LogBytes \in Nat /\ Turns = 1..MaxTurns
  BY ReplayAssumption DEF Turns
<1>2. /\ <<>> \in Seq(Frame) /\ <<>> \in Seq(Outbound) /\ DOMAIN <<>> = {} /\ Len(<<>>) = 0
      /\ 0 \in 0..MaxTurns /\ 0 \in 0..LogBytes /\ 0 \in Nat
  BY <1>1
<1>3. TypeOK
  <2>1. turnLog \in [turn : 0..MaxTurns, retaining : BOOLEAN,
                     entries : Seq(Frame), bytes : 0..LogBytes]
    BY <1>2 DEF NoLog
  <2> QED
    BY <1>2, <2>1 DEF TypeOK
<1>4. TurnInv
  BY <1>1 DEF TurnInv
<1>5. LogInv
  BY DEF LogInv, NoLog
<1>6. PastInv(<<>>)
  BY <1>2 DEF PastInv
<1>7. ASSUME NEW p \in Pages PROVE PageInv(p, <<>>)
  <2>1. /\ pipe[p] = <<>> /\ held[p] = {} /\ sought[p] = {} /\ earned[p] = 0 /\ cursor[p] = 0
        /\ link[p] = "down" /\ p \notin clients
    OBVIOUS
  <2>2. \A C : HasAll(p, C)
    BY DEF HasAll
  <2>3. Down(p, <<>>)
    BY <1>2, <2>1, <2>2 DEF Down, Fresh
  <2>4. Apart(<<>>)
    BY <1>2 DEF Apart
  <2> QED
    BY <2>1, <2>3, <2>4 DEF PageInv
<1>8. Story(<<>>)
  BY <1>3, <1>4, <1>5, <1>6, <1>7 DEF Story
<1> QED
  BY ONLY <1>2, <1>8 DEF ReplayInv

\* An emission: the frame is the next of what the count has numbered.
LEMMA EmissionStep ==
  ASSUME NEW h \in Seq(Frame), Story(h), TurnStart \/ Say \/ TurnEnd \/ Announce
  PROVE  ReplayInv'
<1>1. /\ TypeOK /\ TurnInv /\ LogInv /\ PastInv(h)
      /\ \A p \in Pages : PageInv(p, h)
  BY DEF Story
<1>2. TurnInv' /\ \E f : Emits(f) /\ Tells(f)
  BY <1>1, Emission
<1>3. PICK f : Emits(f) /\ Tells(f)
  BY <1>2
<1>4. TypeOK'
  BY <1>1, <1>3, EmissionTypes
<1>5. PICK g : g = Append(h, f)
  OBVIOUS
<1>6. PastInv(g)'
  BY <1>1, <1>3, <1>5, EmissionPast
<1>7. LogInv'
  BY <1>1, <1>3, EmissionLog
<1>8. ASSUME NEW p \in Pages PROVE PageInv(p, g)'
  <2>1. PageInv(p, h)
    BY <1>1
  <2> QED
    BY <1>1, <1>3, <1>5, <2>1, EmissionPage
<1>9. g \in Seq(Frame)
  BY <1>3, <1>5 DEF Emits
<1>10. Story(g)'
  BY <1>2, <1>4, <1>6, <1>7, <1>8 DEF Story
<1> QED
  BY <1>9, <1>10 DEF ReplayInv

\* A step of a page: nothing is numbered, and no other page moves.
LEMMA PageOnly ==
  ASSUME NEW h \in Seq(Frame), Story(h), NEW p \in Pages, PageStep(p) \/ Connect(p) \/ Drop(p)
  PROVE  ReplayInv'
<1>1. /\ TypeOK /\ TurnInv /\ LogInv /\ PastInv(h)
      /\ \A z \in Pages : PageInv(z, h)
  BY DEF Story
<1>2. UNCHANGED <<serverVars, turnVars, epoch>> /\ Others(p) /\ TypeOK'
  BY <1>1, PageMovesItself
<1>3. TurnInv' /\ LogInv' /\ PastInv(h)'
  BY <1>1, <1>2, Quiet
<1>4. PageInv(p, h)'
  <2>1. PageInv(p, h)
    BY <1>1
  <2>2. CASE Connect(p)
    BY <1>1, <2>1, <2>2, ConnectPage
  <2>3. CASE Drop(p)
    BY <1>1, <2>1, <2>3, DropPage
  <2>4. CASE Resume(p)
    BY <1>1, <2>1, <2>4, ResumePage
  <2>5. CASE ApplyEvent(p)
    BY <1>1, <2>1, <2>5, EventPage
  <2>6. CASE ApplyConnected(p)
    BY <1>1, <2>1, <2>6, ConnectedPage
  <2>7. CASE ApplyReplay(p)
    BY <1>1, <2>1, <2>7, ReplayPage
  <2> QED
    BY <2>2, <2>3, <2>4, <2>5, <2>6, <2>7 DEF PageStep
<1>5. ASSUME NEW z \in Pages, z # p PROVE PageInv(z, h)'
  <2>1. PageInv(z, h)
    BY <1>1
  <2>2. /\ SamePage(z) /\ (z \in clients' <=> z \in clients)
        /\ link'[z] = link[z] /\ asked'[z] = asked[z] /\ pipe'[z] = pipe[z]
        /\ cursor'[z] = cursor[z] /\ earned'[z] = earned[z]
    BY <1>2, <1>5 DEF Others
  <2> QED
    BY <1>2, <2>1, <2>2, OtherPage
<1>6. Story(h)'
  BY <1>2, <1>3, <1>4, <1>5 DEF Story
<1> QED
  BY <1>6 DEF ReplayInv

\* The server forgets: the next count has numbered nothing.
LEMMA ForgetStep ==
  ASSUME NEW h \in Seq(Frame), Story(h), Evict \/ Restart
  PROVE  ReplayInv'
<1>1. /\ TypeOK /\ TurnInv /\ \A p \in Pages : PageInv(p, h)
  BY DEF Story
<1>2. TypeOK' /\ TurnInv' /\ ~open'
  BY <1>1, ForgetTypes
<1>3. Forgotten
  BY DEF Evict, Restart
<1>4. LogInv' /\ PastInv(<<>>)'
  BY <1>2, <1>3, ForgottenPast
<1>5. ASSUME NEW p \in Pages PROVE PageInv(p, <<>>)'
  BY <1>1, EvictPage, RestartPage
<1>6. <<>> \in Seq(Frame)
  OBVIOUS
<1>7. Story(<<>>)'
  BY <1>2, <1>4, <1>5 DEF Story
<1> QED
  BY <1>6, <1>7 DEF ReplayInv

\* Every step keeps the invariant.
LEMMA ReplayStep == ReplayInv /\ [Next]_vars => ReplayInv'
<1> SUFFICES ASSUME ReplayInv, [Next]_vars PROVE ReplayInv'
  OBVIOUS
<1>1. PICK h \in Seq(Frame) : Story(h)
  BY DEF ReplayInv
<1>2. CASE TurnStart \/ Say \/ TurnEnd \/ Announce
  BY <1>1, <1>2, EmissionStep
<1>3. ASSUME NEW p \in Pages, PageStep(p) \/ Connect(p) \/ Drop(p) PROVE ReplayInv'
  BY <1>1, <1>3, PageOnly
<1>4. CASE Evict \/ Restart
  BY <1>1, <1>4, ForgetStep
<1>5. CASE UNCHANGED vars
  <2>1. UNCHANGED <<seq, ring, lastAppended, turnLog, clients, turns, open, said, stored, lost,
                    epoch, link, asked, pipe, cursor, held, sought, earned, patchy,
                    torn, owing>>
    BY <1>5 DEF vars, serverVars, turnVars, pageVars
  <2>2. /\ TypeOK /\ TurnInv /\ LogInv /\ PastInv(h)
        /\ \A z \in Pages : PageInv(z, h)
    BY <1>1 DEF Story
  <2>3. TypeOK'
    BY <2>1, <2>2 DEF TypeOK
  <2>4. UNCHANGED <<serverVars, turnVars, epoch>>
    BY <2>1 DEF serverVars, turnVars
  <2>5. TurnInv' /\ LogInv' /\ PastInv(h)'
    BY <2>2, <2>4, Quiet
  <2>6. ASSUME NEW z \in Pages PROVE PageInv(z, h)'
    <3>1. SamePage(z) /\ PageInv(z, h)
      BY <2>1, <2>2 DEF SamePage
    <3> QED
      BY <2>1, <2>4, <3>1, OtherPage
  <2>7. Story(h)'
    BY <2>3, <2>5, <2>6 DEF Story
  <2> QED
    BY <2>7 DEF ReplayInv
<1> QED
  BY <1>2, <1>3, <1>4, <1>5 DEF Next

\* There is always a story: frames numbered one after another, of which the
\* ring is the tail, the log the running turn's, and each page's cursor, pipe
\* and transcript a place, whatever drops, is closed, overruns or is forgotten
\* (hub.rs, replay.rs, turn_log.rs, connection.ts, live.ts).
THEOREM ReplayInvariant == Spec => []ReplayInv
BY ReplayInit, ReplayStep, PTL DEF Spec

\* Every variable of the server and of the pages keeps its shape.
THEOREM ReplayTypes == Spec => []TypeOK
<1>1. ReplayInv => TypeOK
  BY DEF ReplayInv, Story
<1> QED
  BY <1>1, ReplayInvariant, PTL

\* A page with nothing on its way was told everything, or has asked for it.
LEMMA SettledHasAll ==
  ASSUME NEW h \in Seq(Frame), Story(h), NEW p \in Pages, Settled(p)
  PROVE  HasAll(p, {})
<1>1. TypeOK /\ PastInv(h) /\ PageInv(p, h)
  BY DEF Story
<1>2. pipe[p] = <<>> /\ p \in clients
  BY DEF Settled
<1>3. Live(p, h)
  BY <1>1, <1>2 DEF PageInv
<1>4. Len(<<>>) = 0 /\ 0..0 = {0} /\ <<>> \in Seq(Outbound)
  OBVIOUS
<1>5. PICK s \in 0..seq : LiveAt(p, <<>>, h, 0, 0, 0, s)
  BY <1>2, <1>3, <1>4 DEF Live
<1>6. PICK m : m = s + (0 - 0)
  OBVIOUS
<1>7. Numbered(p, <<>>, h, 0, 0, 0, s) /\ Reading(p, <<>>, h, s, m)
  BY <1>5, <1>6 DEF LiveAt
<1>8. m = seq
  BY <1>2, <1>6, <1>7 DEF Numbered
<1>9. Rest(h, m) = {}
  <2>1. Len(h) = seq /\ seq \in Nat
    BY <1>1 DEF PastInv, TypeOK
  <2> QED
    BY <1>8, <2>1, RestEnd
<1>10. Piped(<<>>, 0) = {}
  <2>1. DOMAIN <<>> = {}
    OBVIOUS
  <2> QED
    BY <2>1 DEF Piped
<1>11. HasAll(p, Piped(<<>>, 0) \cup Rest(h, m))
  BY <1>7 DEF Reading
<1> QED
  BY <1>2, <1>9, <1>10, <1>11

\* Whatever drops, is re-sent, overruns a limit or is forgotten, a page that has
\* read all it was sent was told every turn whole or has asked for its rows since
\* the last was written, but for the turns ToldOrAsked names and for a page whose
\* socket dropped inside a replay or that was told "complete" for a number of
\* another count (resume, covers, push, emit; connection.ts, live.ts).
THEOREM NoGapIsUnnoticed == Spec => []NoGapUnnoticed
<1>1. ReplayInv => NoGapUnnoticed
  <2> SUFFICES ASSUME ReplayInv, NEW p \in Pages, Settled(p), p \notin torn \cup owing,
                      NEW t \in 1..turns
               PROVE  ToldOrAsked(p, t)
    BY DEF NoGapUnnoticed
  <2>1. PICK h \in Seq(Frame) : Story(h)
    BY DEF ReplayInv
  <2>2. HasAll(p, {})
    BY <2>1, SettledHasAll
  <2>3. Accounted(t, held[p], sought[p], FALSE, patchy[p], {})
    BY <2>2 DEF HasAll
  <2> QED
    BY <2>3 DEF Accounted, ToldOrAsked, Watched
<1> QED
  BY <1>1, ReplayInvariant, PTL

\* The next frame of a pipe, of whatever count, brings nothing its page has.
LEMMA NextIsNew ==
  ASSUME NEW h, Story(h), NEW p \in Pages, Next1(p, "event")
  PROVE  Head(pipe[p]).pieces \cap held[p] = {}
<1>1. TypeOK /\ PageInv(p, h)
  BY DEF Story
<1>2. PICK q : q = pipe[p]
  OBVIOUS
<1>3. /\ q \in Seq(Outbound) /\ q # <<>> /\ Head(pipe[p]) = q[1] /\ q[1].type = "event"
      /\ Len(q) \in Nat \ {0} /\ 1 \in 1..Len(q) /\ link[p] \in {"down", "greeted", "live"}
  <2>1. q \in Seq(Outbound) /\ q # <<>> /\ link[p] \in {"down", "greeted", "live"}
    BY <1>1, <1>2 DEF TypeOK, Next1
  <2>2. Len(q) \in Nat \ {0} /\ Head(pipe[p]) = q[1]
    BY <1>2, <2>1, TailIs
  <2> QED
    BY <2>1, <2>2 DEF Next1
<1>4. q[1].pieces \subseteq Piped(q, 0)
  <2>1. 1 > 0
    OBVIOUS
  <2> QED
    BY <1>3, <2>1, PipedIs
<1>5. Greeting(p, 1) => q[1].pieces = {}
  BY <1>2, <1>3 DEF Greeting
<1>6. CASE link[p] = "down"
  BY <1>1, <1>2, <1>3, <1>6 DEF PageInv, Down
<1>7. CASE link[p] = "greeted"
  <2>1. Greeting(p, 1)
    BY <1>1, <1>2, <1>3, <1>7 DEF PageInv, Asking
  <2> QED
    BY <1>3, <1>5, <2>1
<1>8. CASE Live(p, h)
  <2>1. PICK a, k, e \in 0..Len(q), s \in 0..seq : LiveAt(p, q, h, a, k, e, s)
    BY <1>2, <1>8 DEF Live
  <2>2. a \in Nat /\ k \in Nat /\ e \in Nat
    BY <1>3
  <2>3. a # 1 /\ (a > 1 => Greeting(p, 1))
    BY <1>1, <1>2, <1>3, <2>1, <2>2, HeadIs
  <2>4. a = 0 => Piped(q, 0) \cap held[p] = {}
    BY <2>1 DEF LiveAt, Reading
  <2> QED
    BY <1>3, <1>4, <1>5, <2>2, <2>3, <2>4
<1>9. CASE Stale(p, q, h)
  <2>1. PICK a \in 0..Len(q) :
             /\ \A i \in DOMAIN q : q[i].type = "replay" <=> i = a
             /\ \A i \in 1..a - 1 : q[i].type = "event" => q[i].pieces = {}
             /\ a = 0 \/ q[a].complete => Piped(q, 0) \cap held[p] = {}
    BY <1>9 DEF Stale
  <2>2. a = 0 \/ a = 1 \/ 1 \in 1..a - 1
    BY <1>3
  <2>3. a # 1
    BY <1>3, <2>1
  <2> QED
    BY <1>3, <1>4, <2>1, <2>2, <2>3
<1> QED
  BY <1>1, <1>2, <1>3, <1>6, <1>7, <1>8, <1>9 DEF PageInv

\* No frame brings a page a piece that frames have brought it already: the log,
\* the ring and the live stream never tell one page the same thing twice, on one
\* count or across two (after, TurnLog.append, resume; live.ts appends deltas).
THEOREM NothingIsToldTwice == Spec => []NothingTwice
<1>1. ReplayInv => NothingTwice
  BY NextIsNew DEF ReplayInv, NothingTwice
<1> QED
  BY <1>1, ReplayInvariant, PTL

=============================================================================
