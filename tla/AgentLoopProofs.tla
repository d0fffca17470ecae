--------------------------- MODULE AgentLoopProofs ---------------------------
(***************************************************************************)
(* Proofs about AgentLoop for any sets of messages and batches, any caps   *)
(* and any number of faults: the rows a session keeps are always a history *)
(* a provider accepts, every message is in exactly one place, and a turn   *)
(* that ends has shown the model every steer it wrote.                     *)
(***************************************************************************)
EXTENDS AgentLoop, SequenceTheorems, FunctionTheorems, FiniteSetTheorems, TLAPS

-----------------------------------------------------------------------------
(* Numbers, sequences and counting                                         *)

\* A set that holds 0 and the successor of each of its numbers holds them all.
LEMMA NatSetInduction ==
  ASSUME NEW S, 0 \in S, \A n \in Nat : n \in S => n + 1 \in S
  PROVE  Nat \subseteq S
<1> SUFFICES ASSUME Nat \ S # {} PROVE FALSE
  OBVIOUS
<1> DEFINE T == {0 .. n - 1 : n \in Nat \ S}
<1>1. IsWellFoundedOn(StrictSubsetOrdering(Nat), FiniteSubsetsOf(Nat))
  BY FS_StrictSubsetOrderingWellFounded
<1>2. T \subseteq FiniteSubsetsOf(Nat) /\ T # {}
  <2>1. ASSUME NEW n \in Nat \ S
        PROVE  0 .. n - 1 \in FiniteSubsetsOf(Nat)
    <3>1. 0 \in Int /\ n - 1 \in Int
      OBVIOUS
    <3>2. IsFiniteSet(0 .. n - 1)
      BY <3>1, FS_Interval
    <3> QED
      BY <3>2 DEF FiniteSubsetsOf
  <2> QED
    BY <2>1
<1>3. PICK X \in T : \A Y \in T : ~ (<<Y, X>> \in StrictSubsetOrdering(Nat))
  <2> HIDE DEF T
  <2> QED
    BY <1>1, <1>2, WFMin
<1>4. PICK x \in Nat \ S : X = 0 .. x - 1
  OBVIOUS
<1>5. x # 0 /\ x - 1 \in Nat
  BY <1>4
<1>6. x - 1 \in S
  <2> SUFFICES ASSUME x - 1 \notin S PROVE FALSE
    OBVIOUS
  <2> DEFINE Y == 0 .. (x - 1) - 1
  <2>1. Y \in T
    BY <1>5
  <2>2. Y \in SUBSET Nat /\ X \in SUBSET Nat
    BY <1>4, <1>5
  <2>3. Y \subseteq X /\ x - 1 \in X /\ x - 1 \notin Y
    BY <1>4, <1>5
  <2>4. <<Y, X>> \in StrictSubsetOrdering(Nat)
    <3> HIDE DEF Y
    <3> QED
      BY <2>2, <2>3 DEF StrictSubsetOrdering
  <2> QED
    BY <2>1, <2>4, <1>3
<1> QED
  BY <1>4, <1>5, <1>6

\* Sorting an interval lists it.
LEMMA AscendingInterval ==
  ASSUME NEW a \in Nat, NEW b \in Nat, a <= b
  PROVE  /\ Ascending(a .. b) \in Seq(Nat)
         /\ Len(Ascending(a .. b)) = b - a + 1
         /\ \A k \in 1 .. b - a + 1 : Ascending(a .. b)[k] = a + k - 1
<1> DEFINE n == b - a + 1
           F == [1 .. n -> a .. b]
           Sorted(f) == \A i, j \in 1 .. n : i < j => f[i] < f[j]
           g == Ascending(a .. b)
<1>1. n \in Nat /\ n > 0 /\ Cardinality(a .. b) = n
  BY FS_Interval
<1>2. \A f \in F : DOMAIN f = 1 .. n
  OBVIOUS
<1>3. g = CHOOSE f \in F : \A i, j \in DOMAIN f : i < j => f[i] < f[j]
  BY <1>1 DEF Ascending
<1>4. \E f \in F : \A i, j \in DOMAIN f : i < j => f[i] < f[j]
  <2> DEFINE h == [k \in 1 .. n |-> a + k - 1]
  <2>1. h \in F
    BY <1>1
  <2>2. \A i, j \in DOMAIN h : i < j => h[i] < h[j]
    BY <1>1
  <2> QED
    BY <2>1, <2>2
<1> HIDE DEF g
<1>5. g \in F /\ Sorted(g)
  BY <1>2, <1>3, <1>4
<1> DEFINE Up == {k \in Nat : k + 1 <= n => g[k + 1] >= a + k}
           Down == {k \in Nat : k < n => g[n - k] <= b - k}
<1>6. Nat \subseteq Up
  <2>1. 0 \in Up
    BY <1>1, <1>5
  <2>2. ASSUME NEW k \in Nat, k \in Up
        PROVE  k + 1 \in Up
    BY <1>1, <1>5, <2>2
  <2> HIDE DEF Up
  <2> QED
    BY <2>1, <2>2, NatSetInduction
<1>7. Nat \subseteq Down
  <2>1. 0 \in Down
    BY <1>1, <1>5
  <2>2. ASSUME NEW k \in Nat, k \in Down
        PROVE  k + 1 \in Down
    BY <1>1, <1>5, <2>2
  <2> HIDE DEF Down
  <2> QED
    BY <2>1, <2>2, NatSetInduction
<1>8. ASSUME NEW k \in 1 .. n
      PROVE  g[k] = a + k - 1
  <2>1. k - 1 \in Up /\ n - k \in Down
    <3>1. k - 1 \in Nat /\ n - k \in Nat
      BY <1>1
    <3> HIDE DEF Up, Down
    <3> QED
      BY <3>1, <1>6, <1>7
  <2>2. g[k] >= a + (k - 1)
    BY <2>1, <1>1
  <2>3. g[k] <= b - (n - k)
    BY <2>1, <1>1
  <2> QED
    BY <2>2, <2>3, <1>1, <1>5
<1>9. g \in Seq(Nat) /\ Len(g) = n
  BY <1>1, <1>5
<1> QED
  BY <1>8, <1>9 DEF g

\* Row: a stored message.  Its cost is what the turn's figures come to.
Row == [role : {"user"}, of : Nat, message : Messages, steer : BOOLEAN]
         \cup [role : {"assistant"}, of : Nat, calls : Nat, cost : Nat]
         \cup [role : {"tool"}, of : Nat, call : Nat \ {0}]

\* A set of numbers has a least one.
LEMMA MinOf ==
  ASSUME NEW S \in SUBSET Nat, S # {}
  PROVE  Min(S) \in S /\ \A x \in S : Min(S) <= x
<1> DEFINE Below == {n \in Nat : \A k \in 0 .. n : k \notin S}
<1>1. \E m \in S : \A x \in S : m <= x
  <2> SUFFICES ASSUME \A m \in S : \E x \in S : x < m PROVE FALSE
    OBVIOUS
  <2>1. 0 \in Below
    OBVIOUS
  <2>2. ASSUME NEW n \in Nat, n \in Below
        PROVE  n + 1 \in Below
    <3>1. n + 1 \notin S
      BY <2>2
    <3>2. \A k \in 0 .. n + 1 : k \in 0 .. n \/ k = n + 1
      OBVIOUS
    <3> QED
      BY <2>2, <3>1, <3>2
  <2>3. Nat \subseteq Below
    <3> HIDE DEF Below
    <3> QED
      BY <2>1, <2>2, NatSetInduction
  <2>4. PICK n \in Nat : n \in S
    OBVIOUS
  <2>5. n \in Below
    <3> HIDE DEF Below
    <3> QED
      BY <2>3, <2>4
  <2> QED
    BY <2>4, <2>5
<1> QED
  BY <1>1 DEF Min

\* A bounded set of numbers has a greatest one.
LEMMA MaxOf ==
  ASSUME NEW b \in Nat, NEW S \in SUBSET (0 .. b), S # {}
  PROVE  Max(S) \in S /\ \A x \in S : x <= Max(S)
<1> DEFINE T == {b - x : x \in S}
           m == Min(T)
<1>1. T \in SUBSET Nat /\ T # {}
  <2>1. ASSUME NEW x \in S PROVE b - x \in Nat
    <3>1. x \in 0 .. b
      OBVIOUS
    <3> QED
      BY <3>1
  <2> QED
    BY <2>1
<1>2. m \in T /\ \A y \in T : m <= y
  <2> HIDE DEF T
  <2> QED
    BY <1>1, MinOf
<1>3. PICK x \in S : m = b - x
  BY <1>2
<1>4. \A y \in S : y <= x
  BY <1>2, <1>3
<1> QED
  BY <1>4 DEF Max

\* A place between an assistant row and one of its results is within its calls.
LEMMA Between ==
  \A o, x, i, c \in Nat : o < x /\ x <= i /\ i - o \in 1 .. c => x - o \in 1 .. c
OBVIOUS

\* A history that begins with d results of calls cut away and goes on legally
\* is cut by exactly those.
LEMMA LegalStartOfTail ==
  ASSUME NEW q \in Seq(Row), NEW d \in 0 .. Len(q),
         \A i \in 1 .. d : q[i].role = "tool",
         \A i \in d + 1 .. Len(q) : q[i].role = "tool" =>
           /\ i - q[i].call \in d + 1 .. Len(q)
           /\ q[i - q[i].call].role = "assistant"
           /\ q[i].call <= q[i - q[i].call].calls
  PROVE  LegalStart(q) = d
<1> DEFINE N == Len(q)
           declared(n) == {c \in Nat : \E j \in 1 .. n :
                             q[j].role = "assistant" /\ c \in 1 .. q[j].calls}
           g == [n \in 0 .. N |-> declared(n)]
           Is(f) == f = [n \in 0 .. N |-> IF n = 0 THEN {} ELSE LegalPass(f[n - 1], q[n])]
           known == CHOOSE f : Is(f)
           orphans == {n \in DOMAIN q : q[n].role = "tool" /\ q[n].call \notin known[n - 1]}
<1>1. N \in Nat /\ \A i \in 1 .. N : q[i] \in Row
  OBVIOUS
<1>2. ASSUME NEW n \in 1 .. N
      PROVE  /\ LegalPass(declared(n - 1), q[n]) = declared(n)
             /\ q[n].role = "tool" => (q[n].call \notin declared(n - 1) <=> n <= d)
  <2>1. q[n] \in Row /\ n \in Nat /\ n > 0
    BY <1>1
  <2>2. \A j : j \in 1 .. n <=> j \in 1 .. n - 1 \/ j = n
    BY <2>1
  <2>3. q[n].role = "assistant" =>
          declared(n) = declared(n - 1) \cup (1 .. q[n].calls)
    <3>1. q[n].role = "assistant" => q[n].calls \in Nat
      BY <2>1 DEF Row
    <3> QED
      BY <3>1, <2>2
  <2>4. q[n].role # "assistant" => declared(n) = declared(n - 1)
    BY <2>2
  <2>5. n <= d => q[n].role = "tool" /\ declared(n) = {} /\ declared(n - 1) = {}
    BY <2>1
  <2>6. n > d /\ q[n].role = "tool" => q[n].call \in declared(n - 1)
    <3> HAVE n > d /\ q[n].role = "tool"
    <3> DEFINE a == n - q[n].call
    <3>1. q[n].call \in Nat \ {0}
      BY <2>1 DEF Row
    <3>2. /\ a \in 1 .. n - 1 /\ q[a].role = "assistant"
          /\ q[n].call \in 1 .. q[a].calls
      BY <3>1, <2>1, <1>1 DEF Row
    <3> QED
      BY <3>1, <3>2
  <2>7. q[n].role \in {"user", "assistant", "tool"}
    BY <2>1 DEF Row
  <2>8. n <= d \/ n > d
    BY <2>1
  <2> HIDE DEF declared
  <2> QED
    BY <2>3, <2>4, <2>5, <2>6, <2>7, <2>8 DEF LegalPass
<1>3. g[0] = {} /\ 0 \in 0 .. N
  BY <1>1
<1>4. Is(g)
  <2> DEFINE rhs == [n \in 0 .. N |-> IF n = 0 THEN {} ELSE LegalPass(g[n - 1], q[n])]
  <2>1. ASSUME NEW n \in 0 .. N PROVE g[n] = rhs[n]
    <3>1. CASE n = 0
      BY <1>3, <3>1
    <3>2. CASE n # 0
      <4>1. n \in 1 .. N /\ n - 1 \in 0 .. N
        BY <1>1, <3>2
      <4> HIDE DEF declared
      <4>2. g[n - 1] = declared(n - 1) /\ g[n] = declared(n)
        BY <4>1
      <4> QED
        BY <1>2, <3>2, <4>1, <4>2
    <3> QED
      BY <3>1, <3>2
  <2>2. DOMAIN g = 0 .. N /\ DOMAIN rhs = 0 .. N
    OBVIOUS
  <2>3. g = [n \in 0 .. N |-> g[n]] /\ rhs = [n \in 0 .. N |-> rhs[n]]
    OBVIOUS
  <2> HIDE DEF g, rhs
  <2>4. g = rhs
    BY <2>1, <2>3
  <2> QED
    BY <2>4 DEF rhs
<1>5. Is(known)
  <2> HIDE DEF g
  <2> QED
    BY <1>4
<1>6. LegalStart(q) = Max({0} \cup orphans)
  BY DEF LegalStart
<1> HIDE DEF known
<1>7. \A n \in 0 .. N : known[n] = IF n = 0 THEN {} ELSE LegalPass(known[n - 1], q[n])
  BY <1>5
<1> HIDE DEF declared
<1> DEFINE Agree == {n \in Nat : n <= N => known[n] = declared(n)}
<1>8. Nat \subseteq Agree
  <2>1. 0 \in Agree
    BY <1>7, <1>3
  <2>2. ASSUME NEW n \in Nat, n \in Agree
        PROVE  n + 1 \in Agree
    <3> SUFFICES ASSUME n + 1 <= N PROVE known[n + 1] = declared(n + 1)
      OBVIOUS
    <3>1. known[n + 1] = LegalPass(known[n], q[n + 1])
      BY <1>7, <1>1
    <3>2. declared(n + 1) = LegalPass(declared(n), q[n + 1])
      BY <1>2, <1>1
    <3> QED
      BY <3>1, <3>2, <2>2, <1>1
  <2> HIDE DEF Agree
  <2> QED
    BY <2>1, <2>2, NatSetInduction
<1>9. orphans = 1 .. d
  <2>1. \A n \in 1 .. N : known[n - 1] = declared(n - 1)
    BY <1>8, <1>1
  <2>2. DOMAIN q = 1 .. N /\ 1 .. d \subseteq 1 .. N
    BY <1>1
  <2>3. \A n \in 1 .. N : q[n].role = "tool" /\ q[n].call \notin known[n - 1] <=> n <= d
    BY <1>2, <1>1, <2>1
  <2> QED
    BY <1>1, <2>2, <2>3
<1>10. {0} \cup orphans = 0 .. d
  BY <1>9
<1>11. Max(0 .. d) \in 0 .. d /\ \A x \in 0 .. d : x <= Max(0 .. d)
  <2>1. d \in Nat /\ 0 \in 0 .. d
    BY <1>1
  <2> QED
    BY <2>1, MaxOf
<1>12. Max(0 .. d) = d
  BY <1>11, <1>1
<1> QED
  BY <1>6, <1>10, <1>12

\* Any end of a legal history drops the results of the one batch it cuts
\* through and no more.
LEMMA SegmentStart ==
  ASSUME rows \in Seq(Row), HistoryIsLegal, NEW a \in 1 .. Len(rows)
  PROVE  \E d \in 0 .. Len(rows) - a + 1 :
           /\ LegalStart(SubSeq(rows, a, Len(rows))) = d
           /\ d > 0 => \E b \in 1 .. a - 1 : /\ rows[b].role = "assistant"
                                             /\ b + rows[b].calls = a + d - 1
           /\ rows[a].role # "tool" => d = 0
           /\ a + d <= Len(rows) => rows[a + d].role # "tool"
<1> DEFINE q == SubSeq(rows, a, Len(rows))
           L == Len(rows)
<1>1. L \in Nat /\ a \in 1 .. L /\ \A i \in 1 .. L : rows[i] \in Row
  OBVIOUS
<1>2. /\ q \in Seq(Row) /\ Len(q) = L - a + 1
      /\ \A i \in 1 .. L - a + 1 : q[i] = rows[a + i - 1]
  BY <1>1, SubSeqProperties
<1>3. ASSUME NEW i \in 1 .. L, rows[i].role = "assistant", NEW c \in 1 .. rows[i].calls
      PROVE  i + c \in 1 .. L /\ rows[i + c].role = "tool" /\ rows[i + c].call = c
  BY <1>1, <1>3 DEF HistoryIsLegal
<1>4. ASSUME NEW i \in 1 .. L, rows[i].role = "tool"
      PROVE  \E o \in 1 .. i - 1 : /\ rows[o].role = "assistant" /\ rows[o].calls \in Nat
                                   /\ o = i - rows[i].call /\ rows[i].call \in 1 .. rows[o].calls
  <2> DEFINE o == i - rows[i].call
  <2>1. rows[i].call \in Nat \ {0}
    BY <1>1, <1>4 DEF Row
  <2>2. o \in 1 .. L
    BY <1>1, <1>4, <2>1 DEF HistoryIsLegal
  <2>3. rows[o].role = "assistant" /\ rows[i].call <= rows[o].calls
    BY <1>1, <1>4, <2>1 DEF HistoryIsLegal
  <2>4. rows[o].calls \in Nat
    BY <1>1, <2>2, <2>3 DEF Row
  <2>5. o \in 1 .. i - 1
    BY <2>1, <2>2, <1>1
  <2> QED
    BY <2>1, <2>3, <2>4, <2>5
<1> HIDE DEF q, L
\* No batch reaches over a row that is no result.
<1>5. ASSUME NEW e \in 0 .. L, e < L => rows[e + 1].role # "tool",
             NEW i \in e + 1 .. L, rows[i].role = "tool"
      PROVE  i - rows[i].call \in e + 1 .. L
  <2>1. PICK o \in 1 .. i - 1 : /\ rows[o].role = "assistant" /\ rows[o].calls \in Nat
                                /\ o = i - rows[i].call /\ rows[i].call \in 1 .. rows[o].calls
    <3>1. i \in 1 .. L
      BY <1>1, <1>5
    <3> QED
      BY <3>1, <1>4, <1>5
  <2>2. SUFFICES ASSUME o <= e PROVE FALSE
    BY <2>1, <1>1
  <2>3. e + 1 - o \in 1 .. rows[o].calls /\ o \in 1 .. L
    <3>1. i - o \in 1 .. rows[o].calls /\ i > e /\ i \in Nat /\ i <= L
      BY <2>1, <1>1, <1>5
    <3>2. o < e + 1 /\ e + 1 <= i /\ o \in Nat /\ e + 1 \in Nat /\ rows[o].calls \in Nat
      BY <3>1, <2>1, <2>2, <1>1
    <3>3. o \in 1 .. L
      BY <2>1, <3>1, <1>1
    <3> QED
      BY <3>1, <3>2, <3>3, Between
  <2>4. rows[o + (e + 1 - o)].role = "tool"
    BY <2>1, <2>3, <1>3
  <2>5. o + (e + 1 - o) = e + 1 /\ e < L
    BY <2>1, <1>1
  <2> QED
    BY <2>4, <2>5, <1>5
<1>6. ASSUME NEW d \in 0 .. L - a + 1,
             \A i \in a .. a + d - 1 : rows[i].role = "tool",
             a + d <= L => rows[a + d].role # "tool"
      PROVE  LegalStart(q) = d
  <2>1. d \in 0 .. Len(q)
    BY <1>2 DEF L
  <2>2. ASSUME NEW i \in 1 .. d
        PROVE  q[i].role = "tool"
    <3>1. i \in 1 .. L - a + 1 /\ a + i - 1 \in a .. a + d - 1
      BY <1>1
    <3> QED
      BY <3>1, <1>2, <1>6 DEF L
  <2>3. ASSUME NEW i \in d + 1 .. Len(q), q[i].role = "tool"
        PROVE  /\ i - q[i].call \in d + 1 .. Len(q)
               /\ q[i - q[i].call].role = "assistant"
               /\ q[i].call <= q[i - q[i].call].calls
    <3> DEFINE j == a + i - 1
               e == a + d - 1
    <3>1. q[i] = rows[j] /\ j \in e + 1 .. L /\ e \in 0 .. L /\ j \in 1 .. L
      BY <1>1, <1>2, <2>1 DEF L
    <3>2. rows[j].role = "tool" /\ rows[j].call \in Nat
      BY <3>1, <2>3, <1>1 DEF Row
    <3>3. e < L => rows[e + 1].role # "tool"
      BY <1>1, <1>6
    <3>4. j - rows[j].call \in e + 1 .. L
      BY <3>1, <3>2, <3>3, <1>5
    <3>5. i - q[i].call \in d + 1 .. Len(q)
      BY <3>1, <3>2, <3>4, <1>1, <1>2 DEF L
    <3>6. q[i - q[i].call] = rows[j - rows[j].call]
      <4>1. i - q[i].call \in 1 .. L - a + 1
        BY <3>5, <2>1, <1>2, <1>1 DEF L
      <4>2. q[i - q[i].call] = rows[a + (i - q[i].call) - 1]
        BY <4>1, <1>2 DEF L
      <4>3. a + (i - q[i].call) - 1 = j - rows[j].call
        BY <3>1, <3>2
      <4> QED
        BY <4>2, <4>3
    <3>7. /\ rows[j - rows[j].call].role = "assistant"
          /\ rows[j].call <= rows[j - rows[j].call].calls
      <4>1. \E o \in 1 .. j - 1 : /\ rows[o].role = "assistant" /\ rows[o].calls \in Nat
                                  /\ o = j - rows[j].call /\ rows[j].call \in 1 .. rows[o].calls
        BY <3>1, <3>2, <1>4
      <4> QED
        BY <4>1, <3>2
    <3> QED
      BY <3>1, <3>5, <3>6, <3>7
  <2> HIDE DEF Row
  <2> QED
    BY <2>1, <2>2, <2>3, <1>2, LegalStartOfTail
<1>7. CASE rows[a].role # "tool"
  <2>1. LegalStart(q) = 0
    BY <1>1, <1>6, <1>7 DEF L
  <2> QED
    BY <2>1, <1>1, <1>7 DEF L, q
<1>8. CASE rows[a].role = "tool"
  <2>1. PICK b \in 1 .. a - 1 : /\ rows[b].role = "assistant" /\ b = a - rows[a].call
                                /\ rows[a].call \in 1 .. rows[b].calls /\ rows[b].calls \in Nat
    BY <1>1, <1>4, <1>8
  <2> DEFINE n == rows[b].calls
             e == b + n
             d == e - a + 1
  <2>2. b \in 1 .. L /\ b < a /\ n \in Nat /\ e >= a /\ e \in Nat
    BY <2>1, <1>1
  <2>3. ASSUME NEW i \in b + 1 .. e
        PROVE  i \in 1 .. L /\ rows[i].role = "tool" /\ rows[i].call = i - b
    <3> DEFINE c == i - b
    <3>1. c \in 1 .. n /\ b + c = i
      BY <2>2
    <3> HIDE DEF c
    <3>2. b + c \in 1 .. L /\ rows[b + c].role = "tool" /\ rows[b + c].call = c
      BY <3>1, <2>1, <2>2, <1>3
    <3> QED
      BY <3>1, <3>2 DEF c
  <2> HIDE DEF n, e
  <2>4. e \in 1 .. L
    BY <2>2, <2>3
  <2>5. e < L => rows[e + 1].role # "tool"
    <3> SUFFICES ASSUME e < L, rows[e + 1].role = "tool" PROVE FALSE
      OBVIOUS
    <3>0. (e + 1) - 1 = e
      BY <2>4
    <3>1. PICK o \in 1 .. e : /\ rows[o].role = "assistant" /\ rows[o].calls \in Nat
                              /\ o = (e + 1) - rows[e + 1].call
                              /\ rows[e + 1].call \in 1 .. rows[o].calls
      <4> DEFINE j == e + 1
      <4>1. j \in 1 .. L /\ 1 .. j - 1 = 1 .. e /\ rows[j].role = "tool"
        BY <2>4, <1>1, <3>0
      <4> HIDE DEF j
      <4>2. \E o \in 1 .. j - 1 : /\ rows[o].role = "assistant" /\ rows[o].calls \in Nat
                                  /\ o = j - rows[j].call /\ rows[j].call \in 1 .. rows[o].calls
        BY <4>1, <1>4
      <4>3. \E o \in 1 .. e : /\ rows[o].role = "assistant" /\ rows[o].calls \in Nat
                              /\ o = j - rows[j].call /\ rows[j].call \in 1 .. rows[o].calls
        BY <4>1, <4>2
      <4> QED
        BY <4>3 DEF j
    <3>2. rows[e + 1].call = (e + 1) - o
      BY <3>1, <2>4
    <3>9. (e + 1) - o \in 1 .. rows[o].calls
      BY <3>1, <3>2
    <3>3. o \notin b + 1 .. e
      BY <3>1, <2>3
    <3>4. o # b
      BY <3>9, <2>2, <2>4 DEF e, n
    <3>5. o < b
      BY <3>1, <3>3, <3>4, <2>2, <2>4
    <3>6. b - o \in 1 .. rows[o].calls /\ o \in 1 .. L
      <4>1. b <= e
        BY <2>2 DEF e
      <4>2. b <= e + 1 /\ o \in Nat /\ b \in Nat /\ e + 1 \in Nat /\ rows[o].calls \in Nat
        BY <3>1, <4>1, <2>2, <2>4
      <4>3. o \in 1 .. L
        BY <3>1, <2>4, <1>1
      <4> QED
        BY <3>5, <3>9, <4>2, <4>3, Between
    <3>7. rows[o + (b - o)].role = "tool"
      BY <3>1, <3>6, <1>3
    <3>8. o + (b - o) = b
      BY <3>1, <2>2
    <3> QED
      BY <3>7, <3>8, <2>1
  <2>6. d \in 0 .. L - a + 1 /\ a + d - 1 = e /\ a + d = e + 1 /\ d > 0
    BY <2>2, <2>4, <1>1
  <2> HIDE DEF d
  <2>7. LegalStart(q) = d
    <3>1. \A i \in a .. a + d - 1 : rows[i].role = "tool"
      BY <2>2, <2>3, <2>6, <1>1
    <3>2. a + d <= L => rows[a + d].role # "tool"
      BY <2>4, <2>5, <2>6, <1>1
    <3> QED
      BY <3>1, <3>2, <2>6, <1>6
  <2> QED
    <3>1. b + rows[b].calls = a + d - 1
      BY <2>6 DEF e, n
    <3>2. a + d <= L => rows[a + d].role # "tool"
      BY <2>4, <2>5, <2>6, <1>1
    <3> QED
      BY <3>1, <3>2, <2>1, <2>6, <2>7, <1>8 DEF L, q
<1> QED
  BY <1>7, <1>8

\* The greater of 1 and a number.
LEMMA MaxOfTwo ==
  ASSUME NEW x \in Int
  PROVE  Max({1, x}) = IF x > 1 THEN x ELSE 1
<1>1. \E m \in {1, x} : \A y \in {1, x} : m >= y
  OBVIOUS
<1>2. Max({1, x}) \in {1, x} /\ \A y \in {1, x} : Max({1, x}) >= y
  BY <1>1 DEF Max
<1> QED
  BY <1>2

\* The newest rows that may be sent.
Newest == Max({1, Len(rows) - Cap + 1}) .. Len(rows)

\* The history a request starts from begins at a row that is no result, and
\* not after a question that is among the newest rows.  There is nothing to
\* begin at when those are all results.
LEMMA HistoryStartIsLegal ==
  ASSUME rows \in Seq(Row), rows # <<>>, HistoryIsLegal
  PROVE  /\ HistoryStart \in 1 .. Len(rows) + 1
         /\ HistoryStart <= Len(rows) => rows[HistoryStart].role # "tool"
         /\ HistoryStart > Len(rows) => \A i \in Newest : rows[i].role = "tool"
         /\ \A f \in DOMAIN rows : IsUser(rows[f]) /\ f > Len(rows) - Cap => HistoryStart <= f
<1> DEFINE L == Len(rows)
           low == Max({1, L - Cap + 1})
           users == {i \in low .. L : IsUser(rows[i])}
           start == IF users = {} THEN low ELSE Min(users)
<1>1. L \in Nat \ {0} /\ Cap \in Nat \ {0} /\ DOMAIN rows = 1 .. L
  BY LoopAssumption
<1>2. low = IF L - Cap + 1 > 1 THEN L - Cap + 1 ELSE 1
  <2>1. L - Cap + 1 \in Int
    BY <1>1
  <2> QED
    BY <2>1, MaxOfTwo
<1>3. low \in 1 .. L
  BY <1>1, <1>2
<1>4. HistoryStart = start + LegalStart(SubSeq(rows, start, L))
  BY DEF HistoryStart
<1> HIDE DEF low
<1>5. users # {} => /\ start \in users /\ start \in low .. L /\ IsUser(rows[start])
                    /\ \A u \in users : start <= u
  <2>1. users \in SUBSET Nat
    BY <1>3
  <2> QED
    BY <2>1, MinOf
<1>6. start \in 1 .. L
  BY <1>3, <1>5, <1>1
<1> HIDE DEF start
<1>7. PICK d \in 0 .. L - start + 1 :
         /\ LegalStart(SubSeq(rows, start, L)) = d
         /\ d > 0 => \E b \in 1 .. start - 1 : /\ rows[b].role = "assistant"
                                               /\ b + rows[b].calls = start + d - 1
         /\ rows[start].role # "tool" => d = 0
         /\ start + d <= L => rows[start + d].role # "tool"
  BY <1>6, SegmentStart
<1>8. HistoryStart = start + d
  BY <1>4, <1>7
<1>9. users # {} => d = 0
  BY <1>5, <1>7 DEF IsUser
<1>10. ASSUME start + d > L, NEW i \in low .. L
       PROVE  rows[i].role = "tool"
  <2>1. d > 0
    BY <1>6, <1>7, <1>10, <1>1
  <2>2. users = {} /\ start = low
    BY <2>1, <1>9 DEF start
  <2>3. PICK b \in 1 .. start - 1 : rows[b].role = "assistant" /\ b + rows[b].calls = start + d - 1
    BY <2>1, <1>7
  <2>4. b \in 1 .. L /\ rows[b] \in Row
    BY <2>3, <1>6, <1>1
  <2>5. rows[b].calls \in Nat
    BY <2>3, <2>4 DEF Row
  <2>6. i - b \in 1 .. rows[b].calls /\ b + (i - b) = i
    BY <2>2, <2>3, <2>4, <2>5, <1>1, <1>3, <1>6, <1>7, <1>10
  <2> QED
    BY <2>3, <2>4, <2>6, <1>1 DEF HistoryIsLegal
<1>11. /\ HistoryStart \in 1 .. L + 1
       /\ HistoryStart <= L => rows[HistoryStart].role # "tool"
       /\ HistoryStart > L => \A i \in low .. L : rows[i].role = "tool"
  <2>1. HistoryStart \in 1 .. L + 1
    BY <1>6, <1>7, <1>8, <1>1
  <2>2. HistoryStart <= L => rows[HistoryStart].role # "tool"
    BY <1>7, <1>8
  <2>3. HistoryStart > L => \A i \in low .. L : rows[i].role = "tool"
    BY <1>8, <1>10
  <2> QED
    BY <2>1, <2>2, <2>3
<1>12. ASSUME NEW f \in DOMAIN rows, IsUser(rows[f]), f > L - Cap
       PROVE  HistoryStart <= f
  <2>1. f \in 1 .. L /\ f >= low
    BY <1>1, <1>2, <1>12
  <2>2. f \in users
    BY <2>1, <1>3, <1>12
  <2> QED
    BY <2>1, <2>2, <1>5, <1>6, <1>8, <1>9
<1>13. Newest = low .. L
  BY DEF Newest, low
<1> QED
  BY <1>11, <1>12, <1>13

\* The window of a request, cut by count or by budget, begins at a row that is
\* no result, keeps a question that is among the newest rows, and reaches past
\* it only when all it carries fits.  It is empty only when the newest rows are
\* all results.
LEMMA WindowIsLegal ==
  ASSUME rows \in Seq(Row), HistoryIsLegal,
         NEW f \in DOMAIN rows, IsUser(rows[f])
  PROVE  /\ WindowStart(f) \in 1 .. Len(rows) + 1
         /\ WindowStart(f) <= Len(rows) => rows[WindowStart(f)].role # "tool"
         /\ WindowStart(f) > Len(rows) => \A i \in Newest : rows[i].role = "tool"
         /\ f > Len(rows) - Cap => WindowStart(f) <= f
         /\ WindowStart(f) < f => Len(rows) - WindowStart(f) + 1 <= Budget
<1> DEFINE L == Len(rows)
           low == HistoryStart
           fits == {i \in low .. f - 1 : OpensTurn(low, i) /\ L - i + 1 <= Budget}
           cut == Min(fits \cup {f})
<1>1. L \in Nat /\ f \in 1 .. L /\ rows # <<>>
  OBVIOUS
<1>2. /\ low \in 1 .. L + 1 /\ (low <= L => rows[low].role # "tool")
      /\ low > L => \A i \in Newest : rows[i].role = "tool"
      /\ f > L - Cap => low <= f
  BY <1>1, HistoryStartIsLegal
<1>3. WindowStart(f) = IF f < low \/ cut = low THEN low
                       ELSE cut + LegalStart(SubSeq(rows, cut, L))
  BY DEF WindowStart
<1> HIDE DEF low
<1>4. cut \in fits \cup {f} /\ cut <= f
  <2>1. fits \cup {f} \in SUBSET Nat
    BY <1>1, <1>2
  <2> HIDE DEF fits
  <2> QED
    BY <2>1, MinOf
<1>5. cut \in 1 .. L /\ IsUser(rows[cut]) /\ (cut < f => L - cut + 1 <= Budget)
  BY <1>1, <1>2, <1>4 DEF OpensTurn
<1> HIDE DEF cut, fits
<1>6. LegalStart(SubSeq(rows, cut, L)) = 0
  <2>1. rows[cut].role # "tool"
    BY <1>5 DEF IsUser
  <2> QED
    BY <2>1, <1>5, SegmentStart
<1>7. WindowStart(f) = IF f < low \/ cut = low THEN low ELSE cut
  BY <1>3, <1>5, <1>6
<1> QED
  BY <1>1, <1>2, <1>4, <1>5, <1>7 DEF IsUser

-----------------------------------------------------------------------------
(* The inductive invariant                                                 *)

Phases == {"idle", "open", "top", "drain", "pop", "stream", "answer", "batch",
           "asking", "write", "close", "ended"}
Stops  == {"none", "iterations", "aborted", "timeout", "error", "complete", "broken"}

Turn ==
  [at : Phases, id : Nat, message : Messages \cup {None}, again : BOOLEAN, first : Nat,
   iteration : Nat, corrected : BOOLEAN, spent : Nat, pending : Nat, sent : Nat, asked : Nat,
   heard : Nat,
   stop : Stops, answer : Completions, next : Nat \ {0}, flying : SUBSET Nat,
   landed : Seq(Nat), results : Seq(Nat), cancelled : BOOLEAN, gone : BOOLEAN]

TypeOK ==
  /\ rows \in Seq(Row)
  /\ unsent \in SUBSET Messages
  /\ waiting \in Seq(Messages)
  /\ steering \in Seq(Messages)
  /\ lost \in SUBSET Messages
  /\ token \in BOOLEAN
  /\ turn \in Turn
  /\ faults \in Nat

\* Rows carry the turn that wrote them; one that has yet to open wrote none.
RowsOfTurns ==
  \A i \in DOMAIN rows :
    /\ rows[i].of <= turn.id
    /\ At("open") => rows[i].of < turn.id

\* The question a turn answers is in history, unless it has yet to write it.
QuestionIsStored ==
  turn.at \notin {"idle", "open", "ended"} \/ (At("open") /\ turn.message = None) =>
    turn.first \in DOMAIN rows /\ IsUser(rows[turn.first])

\* A batch is answered from the front: the results so far are those of its
\* first calls, in order, and the calls after them up to next are in flight
\* or have landed.
BatchInOrder ==
  turn.at \in {"batch", "asking", "write"} =>
    /\ turn.answer.kind = "calls"
    /\ turn.next <= Len(Calls) + 1
    /\ Len(turn.results) < turn.next
    /\ \A k \in DOMAIN turn.results : turn.results[k] = k
    /\ turn.flying \cup ToSet(turn.landed) = Len(turn.results) + 1 .. turn.next - 1
    /\ turn.flying = {} => turn.landed = <<>>
    /\ At("asking") => turn.flying # {} /\ turn.landed = <<>>
    /\ At("write") => turn.flying = {} /\ turn.next = Len(Calls) + 1

\* A steer that was written and not yet popped is in front of its queue.
PoppedIsWritten == At("pop") => steering # <<>> /\ Head(steering) \in Written

\* What a request carried is still all there is while it is answered.
RequestIsWhole == At("stream") => turn.asked = Len(rows)

\* The model has answered a request built after every steer the turn wrote.
SteersBehind ==
  \A i \in DOMAIN rows :
    rows[i].of = turn.id /\ IsUser(rows[i]) /\ i # turn.first => i <= turn.heard

\* So it is from an answer to the next steer, and where nothing but that ended
\* the turn.
SteersHeard ==
  \/ turn.at \in {"top", "answer", "batch", "asking", "write"}
  \/ turn.at \in {"close", "ended"} /\ turn.stop \in {"complete", "iterations", "timeout"}
  => SteersBehind

\* Only an ended turn is broken.
BrokenEnds == turn.stop = "broken" => At("ended")

\* A turn that ends with an answer has put its figures on it.
AnsweredHasFigures ==
  At("close") /\ turn.stop = "complete" => turn.pending = 0

IInv ==
  /\ TypeOK /\ HistoryIsLegal /\ RowsOfTurns /\ QuestionIsStored
  /\ BatchInOrder /\ PoppedIsWritten /\ RequestIsWhole /\ RequestIsLegal
  /\ SteersHeard /\ BrokenEnds /\ AnsweredHasFigures
  /\ MessagesOnce /\ StepsSumToTurn /\ SteersAreAnswered

\* The phases, the stop reasons and the answers the actions name are in their
\* sets, and no message is the missing one.
LEMMA Names ==
  /\ "idle" \in Phases /\ "open" \in Phases /\ "top" \in Phases /\ "drain" \in Phases
  /\ "pop" \in Phases /\ "stream" \in Phases /\ "answer" \in Phases /\ "batch" \in Phases
  /\ "asking" \in Phases /\ "write" \in Phases /\ "close" \in Phases /\ "ended" \in Phases
  /\ "none" \in Stops /\ "iterations" \in Stops /\ "aborted" \in Stops /\ "timeout" \in Stops
  /\ "error" \in Stops /\ "complete" \in Stops /\ "broken" \in Stops
  /\ Idle.answer \in Completions
  /\ None \notin Messages
BY LoopAssumption DEF Phases, Stops, Completions, Answers, Idle

\* A turn without a completion in hand keeps everything else.
LEMMA NoBatchTurn ==
  ASSUME turn \in Turn
  PROVE  NoBatch \in Turn
<1>1. {} \in SUBSET Nat /\ <<>> \in Seq(Nat) /\ 1 \in Nat \ {0} /\ Idle.answer \in Completions
  BY Names
<1> HIDE DEF Idle
<1> DEFINE a == Idle.answer
<1>2. NoBatch = [turn EXCEPT !.answer = a, !.next = 1, !.flying = {}, !.landed = <<>>,
                             !.results = <<>>, !.cancelled = FALSE, !.gone = FALSE]
  BY DEF NoBatch
<1> HIDE DEF a
<1> QED
  BY <1>1, <1>2 DEF Turn, a

\* A session that runs nothing is a turn.
LEMMA IdleTurn == Idle \in Turn
<1>1. Idle.answer = [kind |-> "cut", calls |-> <<>>]
  BY DEF Idle
<1> QED
  BY <1>1, Names DEF Turn, Idle

\* LegalEnd: the row a rewind names is no result, so what is in front of it
\* is legal as it stands.
LEMMA LegalEndIsThere ==
  ASSUME rows \in Seq(Row), HistoryIsLegal, NEW i \in DOMAIN rows, rows[i].role # "tool"
  PROVE  LegalEnd(i - 1) = i - 1
<1> DEFINE good(k) == \A j \in 1 .. k : rows[j].role = "assistant" => Answered(SubSeq(rows, 1, k), j)
           S == {k \in 0 .. i - 1 : good(k)}
           q == SubSeq(rows, 1, i - 1)
<1>1. i \in 1 .. Len(rows) /\ i \in Nat /\ Len(rows) \in Nat /\ i - 1 \in Nat
  OBVIOUS
<1>2. \A j \in 1 .. Len(rows) : rows[j] \in Row
  OBVIOUS
<1>3. Len(q) = i - 1 /\ \A j \in 1 .. i - 1 : q[j] = rows[j]
  BY <1>1, <1>2, SubSeqProperties
<1>4. ASSUME NEW j \in 1 .. i - 1, rows[j].role = "assistant"
      PROVE  Answered(q, j)
  <2> SUFFICES ASSUME NEW c \in 1 .. rows[j].calls
               PROVE  \E h \in j + 1 .. Len(q) : q[h].role = "tool" /\ q[h].call = c
    BY <1>3 DEF Answered
  <2>1. rows[j].calls \in Nat /\ j \in 1 .. Len(rows)
    BY <1>1, <1>2, <1>4 DEF Row
  <2>2. ASSUME NEW e \in 1 .. rows[j].calls
        PROVE  j + e \in 1 .. Len(rows) /\ rows[j + e].role = "tool" /\ rows[j + e].call = e
    <3>1. DOMAIN rows = 1 .. Len(rows)
      BY <1>1
    <3> QED
      BY <3>1, <2>1, <1>4 DEF HistoryIsLegal
  <2>3. j + c <= i - 1
    <3> SUFFICES ASSUME j + c > i - 1 PROVE FALSE
      BY <2>1, <1>1
    <3>1. i - j \in 1 .. c /\ c \in Nat
      BY <2>1, <1>1
    <3>2. i - j \in 1 .. rows[j].calls
      BY <3>1, <2>1
    <3>3. rows[j + (i - j)].role = "tool" /\ j + (i - j) = i
      BY <3>2, <2>1, <2>2, <1>1
    <3> QED
      BY <3>3
  <2>4. j + c \in j + 1 .. i - 1 /\ j + c \in 1 .. i - 1
    BY <2>1, <2>3, <1>1
  <2> QED
    BY <2>2, <2>4, <1>3
<1>5. i - 1 \in S /\ S \in SUBSET (0 .. i - 1) /\ S # {}
  BY <1>1, <1>4
<1>6. LegalEnd(i - 1) = Max(S)
  BY DEF LegalEnd
<1> HIDE DEF S
<1>7. Max(S) \in S /\ i - 1 <= Max(S)
  BY <1>1, <1>5, MaxOf
<1>8. Max(S) \in 0 .. i - 1
  BY <1>5, <1>7
<1> QED
  BY <1>1, <1>6, <1>7, <1>8

\* So a rewind keeps exactly the rows in front of the one it names.
LEMMA RewindKeeps ==
  ASSUME TypeOK, HistoryIsLegal, NEW i \in DOMAIN rows, Rewind(i)
  PROVE  /\ rows' = SubSeq(rows, 1, i - 1)
         /\ i \in 1 .. Len(rows)
         /\ rows' \in Seq(Row) /\ Len(rows') = i - 1
         /\ \A j \in 1 .. i - 1 : rows'[j] = rows[j]
<1>1. rows \in Seq(Row) /\ i \in 1 .. Len(rows) /\ i - 1 \in Nat
  BY DEF TypeOK
<1>2. LegalEnd(i - 1) = i - 1
  BY <1>1, LegalEndIsThere DEF Rewind
<1>3. rows' = SubSeq(rows, 1, i - 1)
  BY <1>2 DEF Rewind
<1> QED
  BY <1>1, <1>3, SubSeqProperties

\* The batch in hand.
LEMMA BatchTypes ==
  ASSUME TypeOK, BatchInOrder, turn.at \in {"batch", "asking", "write"}
  PROVE  /\ turn \in Turn
         /\ Len(Calls) \in Nat \ {0}
         /\ turn.next \in 1 .. Len(Calls) + 1
         /\ turn.results \in Seq(Nat) /\ Len(turn.results) \in Nat
         /\ Len(turn.results) < turn.next
         /\ turn.landed \in Seq(Nat) /\ turn.flying \in SUBSET Nat
<1>1. turn \in Turn /\ turn.answer \in Completions /\ turn.answer.kind = "calls"
      /\ turn.results \in Seq(Nat) /\ turn.next \in Nat \ {0}
      /\ turn.landed \in Seq(Nat) /\ turn.flying \in SUBSET Nat
      /\ turn.next <= Len(Calls) + 1 /\ Len(turn.results) < turn.next
  BY DEF TypeOK, Turn, BatchInOrder
<1>2. Calls \in Batches
  BY <1>1 DEF Completions, Answers, Calls
<1>3. Calls \in Seq(Tools) /\ Len(Calls) > 0
  BY <1>2, LoopAssumption
<1>4. Len(Calls) \in Nat
  BY <1>3
<1> HIDE DEF Calls
<1> QED
  BY <1>1, <1>3, <1>4

\* Results in order, followed by the calls after them, are results in order.
LEMMA AnswersInOrder ==
  ASSUME NEW r \in Seq(Nat), \A k \in DOMAIN r : r[k] = k,
         NEW e \in Nat, Len(r) < e
  PROVE  LET q == r \o Ascending(Len(r) + 1 .. e)
         IN  q \in Seq(Nat) /\ Len(q) = e /\ \A k \in DOMAIN q : q[k] = k
<1> DEFINE n == Len(r)
           t == Ascending(n + 1 .. e)
           q == r \o t
<1>1. /\ n \in Nat /\ n + 1 \in Nat /\ n + 1 <= e
      /\ \A j \in 1 .. n : r[j] = j
  OBVIOUS
<1>2. t \in Seq(Nat) /\ Len(t) = e - n /\ \A k \in 1 .. e - n : t[k] = n + k
  <2> HIDE DEF n
  <2>1. /\ t \in Seq(Nat) /\ Len(t) = e - (n + 1) + 1
        /\ \A k \in 1 .. e - (n + 1) + 1 : t[k] = (n + 1) + k - 1
    BY <1>1, AscendingInterval
  <2> HIDE DEF t
  <2> QED
    BY <1>1, <2>1
<1> HIDE DEF t
<1>3. /\ q \in Seq(Nat) /\ Len(q) = n + (e - n)
      /\ \A k \in 1 .. n + (e - n) : q[k] = IF k <= n THEN r[k] ELSE t[k - n]
  BY <1>2, ConcatProperties
<1> HIDE DEF q
<1>4. Len(q) = e /\ DOMAIN q = 1 .. e
  BY <1>1, <1>3
<1> HIDE DEF n
<1>5. ASSUME NEW k \in 1 .. e
      PROVE  q[k] = k
  <2>1. k \in 1 .. n + (e - n)
    BY <1>1
  <2>2. CASE k <= n
    <3>1. k \in 1 .. n /\ q[k] = r[k]
      BY <2>1, <2>2, <1>1, <1>3
    <3> QED
      BY <3>1, <1>1
  <2>3. CASE k > n
    <3>1. k - n \in 1 .. e - n
      BY <2>3, <1>1
    <3>2. q[k] = t[k - n]
      BY <2>1, <2>3, <1>1, <1>3
    <3>3. t[k - n] = n + (k - n)
      BY <3>1, <1>2
    <3> QED
      BY <3>2, <3>3, <1>1
  <2> QED
    BY <2>2, <2>3, <1>1
<1> QED
  BY <1>3, <1>4, <1>5 DEF q, t, n

\* The next group is a run of the calls that are left, and not empty.
LEMMA GroupIsARun ==
  ASSUME Len(Calls) \in Nat, turn.next \in Nat \ {0}, turn.next <= Len(Calls), NEW allowed
  PROVE  \E e \in turn.next .. Len(Calls) :
           NextGroup(allowed) = turn.next .. e /\ Max(NextGroup(allowed)) = e
<1> DEFINE N == Len(Calls)
           next == turn.next
           bound == Min({MaxParallel, N - next + 1})
           runs == {n \in 1 .. bound : \A i \in next .. next + n - 1 : Eligible(i, allowed)}
           m == Max(runs \cup {1})
           e == next + m - 1
<1>1. N \in Nat /\ next \in 1 .. N /\ MaxParallel \in Nat \ {0}
  BY LoopAssumption
<1>2. NextGroup(allowed) = next .. e
  BY DEF NextGroup
<1> HIDE DEF N, next
<1>3. bound \in Nat /\ bound <= N - next + 1
  <2> DEFINE S == {MaxParallel, N - next + 1}
  <2>1. S \in SUBSET Nat /\ S # {} /\ N - next + 1 \in S
    BY <1>1
  <2> HIDE DEF S
  <2>2. Min(S) \in S /\ Min(S) <= N - next + 1
    BY <2>1, MinOf
  <2> QED
    BY <2>1, <2>2 DEF S
<1> HIDE DEF bound
<1>4. m \in 1 .. N - next + 1
  <2> DEFINE S == runs \cup {1}
  <2>1. N - next + 1 \in Nat /\ S \in SUBSET (0 .. N - next + 1) /\ S # {} /\ 1 \in S
    BY <1>1, <1>3
  <2> HIDE DEF S
  <2>2. Max(S) \in S /\ 1 <= Max(S)
    BY <2>1, MaxOf
  <2>3. Max(S) \in 0 .. N - next + 1
    BY <2>1, <2>2
  <2> QED
    BY <1>1, <2>2, <2>3 DEF S
<1> HIDE DEF m
<1>5. e \in next .. N
  BY <1>1, <1>4
<1> HIDE DEF e
<1>6. Max(next .. e) = e
  <2>1. e \in Nat /\ next .. e \in SUBSET (0 .. e) /\ e \in next .. e
    BY <1>1, <1>5
  <2>2. Max(next .. e) \in next .. e /\ e <= Max(next .. e)
    BY <2>1, MaxOf
  <2> QED
    BY <1>1, <1>5, <2>2
<1> QED
  BY <1>2, <1>5, <1>6 DEF N, next

\* What BatchInOrder says of a turn with no call in flight.
LEMMA NothingFlies ==
  ASSUME TypeOK, BatchInOrder, turn.at \in {"batch", "asking", "write"}, turn.flying = {}
  PROVE  Len(turn.results) + 1 = turn.next
<1>1. turn.landed = <<>> /\ ToSet(turn.landed) = {}
  BY DEF BatchInOrder, ToSet
<1>2. Len(turn.results) + 1 .. turn.next - 1 = {}
  BY <1>1 DEF BatchInOrder
<1> DEFINE n == Len(turn.results)
<1>3. n \in Nat /\ turn.next \in Nat /\ n < turn.next
  BY BatchTypes
<1>4. n + 1 \notin n + 1 .. turn.next - 1
  BY <1>2
<1> HIDE DEF n
<1>5. n + 1 = turn.next
  BY <1>3, <1>4
<1> QED
  BY <1>5 DEF n

\* What a sequence holds when it grows by one.
LEMMA SetOfAppend ==
  ASSUME NEW S, NEW s \in Seq(S), NEW x \in S
  PROVE  Append(s, x) \in Seq(S) /\ ToSet(Append(s, x)) = ToSet(s) \cup {x}
<1> DEFINE t == Append(s, x)
           n == Len(s)
<1>1. /\ t \in Seq(S) /\ Len(t) = n + 1 /\ n \in Nat
      /\ \A j \in 1 .. n : t[j] = s[j]
      /\ t[n + 1] = x
  BY AppendProperties
<1>2. DOMAIN t = 1 .. n + 1 /\ DOMAIN s = 1 .. n
  BY <1>1
<1> HIDE DEF t, n
<1>3. \A j : j \in 1 .. n + 1 <=> j \in 1 .. n \/ j = n + 1
  BY <1>1
<1>4. ToSet(t) = {t[j] : j \in 1 .. n + 1} /\ ToSet(s) = {s[j] : j \in 1 .. n}
  BY <1>2 DEF ToSet
<1>5. ToSet(t) = ToSet(s) \cup {x}
  BY <1>1, <1>3, <1>4
<1> QED
  BY <1>1, <1>5 DEF t

\* Refusing the rest of a batch gives the next call a result of its own.
LEMMA RefuseStep ==
  ASSUME TypeOK, BatchInOrder, RefuseRest
  PROVE  turn' \in Turn /\ BatchInOrder'
<1> DEFINE n == Len(turn.results)
           L == Len(Calls)
           q == turn.results \o Ascending(n + 1 .. L)
<1>1. /\ turn.at = "batch" /\ turn.flying = {} /\ turn.landed = <<>> /\ n + 1 = turn.next
      /\ turn.answer.kind = "calls"
  BY NothingFlies DEF RefuseRest, At, BatchInOrder
<1>2. turn \in Turn /\ L \in Nat /\ n \in Nat /\ turn.results \in Seq(Nat) /\ n < L
  BY <1>1, BatchTypes DEF RefuseRest, Rest
<1>3. q \in Seq(Nat) /\ Len(q) = L /\ \A k \in DOMAIN q : q[k] = k
  BY <1>1, <1>2, AnswersInOrder DEF BatchInOrder
<1>4. turn' = [[turn EXCEPT !.results = q] EXCEPT !.gone = TRUE, !.next = L + 1, !.at = "write"]
  BY <1>1 DEF RefuseRest, Answer, Rest
<1> HIDE DEF q, L
<1>5. /\ turn' \in Turn /\ turn'.at = "write" /\ turn'.results = q /\ turn'.next = L + 1
      /\ turn'.flying = {} /\ turn'.landed = <<>> /\ turn'.answer = turn.answer
  <2> DEFINE t == [turn EXCEPT !.results = q]
  <2>1. t \in Turn /\ t.results = q /\ t.flying = {} /\ t.landed = <<>> /\ t.answer = turn.answer
    BY <1>1, <1>2, <1>3 DEF Turn
  <2>2. turn' = [t EXCEPT !.gone = TRUE, !.next = L + 1, !.at = "write"]
    BY <1>4
  <2> HIDE DEF t
  <2>3. L + 1 \in Nat \ {0}
    BY <1>2
  <2> QED
    BY <2>1, <2>2, <2>3, Names DEF Turn
<1>6. L = Len(turn'.answer.calls)
  BY <1>5 DEF L, Calls
<1>7. {} \cup ToSet(<<>>) = Len(q) + 1 .. (L + 1) - 1
  BY <1>2, <1>3 DEF ToSet
<1> QED
  BY <1>1, <1>2, <1>3, <1>5, <1>6, <1>7 DEF BatchInOrder, At, Calls

\* Dispatching calls keeps what is decided, in flight and landed apart.
LEMMA DispatchStep ==
  ASSUME TypeOK, BatchInOrder, NEW allowed, NEW denied, Dispatch(allowed, denied)
  PROVE  turn' \in Turn /\ BatchInOrder'
<1> DEFINE n == Len(turn.results)
           L == Len(Calls)
           group == NextGroup(allowed)
           t == [turn EXCEPT !.cancelled = @ \/ token, !.next = Max(group) + 1]
<1>1. /\ turn.at = "batch" /\ turn.flying = {} /\ turn.landed = <<>> /\ n + 1 = turn.next
      /\ turn.answer.kind = "calls"
  BY NothingFlies DEF Dispatch, At, BatchInOrder
<1>2. /\ turn \in Turn /\ L \in Nat /\ n \in Nat /\ turn.results \in Seq(Nat)
      /\ turn.next <= L /\ turn.next \in Nat \ {0} /\ token \in BOOLEAN
  BY <1>1, BatchTypes DEF Dispatch, Rest, TypeOK
<1>3. PICK e \in turn.next .. L : group = turn.next .. e /\ Max(group) = e
  BY <1>2, GroupIsARun
<1>4. e \in Nat /\ n < e /\ e <= L /\ group = n + 1 .. e /\ group # {} /\ group \in SUBSET Nat
  BY <1>1, <1>2, <1>3
<1>5. /\ t \in Turn /\ t.at = "batch" /\ t.results = turn.results /\ t.next = e + 1
      /\ t.flying = {} /\ t.landed = <<>> /\ t.answer = turn.answer
  <2>1. t = [turn EXCEPT !.cancelled = @ \/ token, !.next = e + 1]
    BY <1>3
  <2>2. (turn.cancelled \/ token) \in BOOLEAN /\ e + 1 \in Nat \ {0}
    BY <1>2, <1>4
  <2> QED
    BY <2>1, <2>2, <1>1, <1>2 DEF Turn
<1>6. turn' = Answer(t, group)
      \/ \E at \in {"batch", "asking"} :
           turn' = [t EXCEPT !.flying = group, !.landed = <<>>, !.at = at]
  BY DEF Dispatch
<1> HIDE DEF t, group, L
<1>7. L = Len(t.answer.calls)
  BY <1>5 DEF L, Calls
<1>8. CASE turn' = Answer(t, group)
  <2> DEFINE q == turn.results \o Ascending(n + 1 .. e)
  <2>1. q \in Seq(Nat) /\ Len(q) = e /\ \A k \in DOMAIN q : q[k] = k
    BY <1>1, <1>2, <1>4, AnswersInOrder DEF BatchInOrder
  <2>2. turn' = [t EXCEPT !.results = q]
    BY <1>4, <1>5, <1>8 DEF Answer
  <2> HIDE DEF q
  <2>3. /\ turn' \in Turn /\ turn'.at = "batch" /\ turn'.results = q /\ turn'.next = e + 1
        /\ turn'.flying = {} /\ turn'.landed = <<>> /\ turn'.answer = turn.answer
    BY <1>5, <2>1, <2>2 DEF Turn
  <2>4. {} \cup ToSet(<<>>) = Len(q) + 1 .. (e + 1) - 1
    BY <1>4, <2>1 DEF ToSet
  <2> QED
    BY <1>1, <1>4, <1>5, <1>7, <2>1, <2>3, <2>4 DEF BatchInOrder, At, Calls
<1>9. ASSUME NEW at \in {"batch", "asking"},
             turn' = [t EXCEPT !.flying = group, !.landed = <<>>, !.at = at]
      PROVE  turn' \in Turn /\ BatchInOrder'
  <2>1. /\ turn' \in Turn /\ turn'.at = at /\ turn'.results = turn.results /\ turn'.next = e + 1
        /\ turn'.flying = group /\ turn'.landed = <<>> /\ turn'.answer = turn.answer
    BY <1>4, <1>5, <1>9, Names DEF Turn
  <2>2. group \cup ToSet(<<>>) = n + 1 .. (e + 1) - 1
    BY <1>4 DEF ToSet
  <2>3. \A k \in DOMAIN turn.results : turn.results[k] = k
    BY <1>1 DEF BatchInOrder
  <2> QED
    BY <1>1, <1>4, <1>5, <1>7, <2>1, <2>2, <2>3 DEF BatchInOrder, At, Calls
<1> QED
  BY <1>6, <1>8, <1>9

\* An answer to the gate goes to the one call that asks.
LEMMA DecideStep ==
  ASSUME TypeOK, BatchInOrder, Decide
  PROVE  turn' \in Turn /\ BatchInOrder'
<1> DEFINE n == Len(turn.results)
           e == turn.next - 1
           q == turn.results \o Ascending(n + 1 .. e)
<1>1. /\ turn.at = "asking" /\ turn.flying # {} /\ turn.landed = <<>>
      /\ turn.answer.kind = "calls" /\ turn.next <= Len(Calls) + 1
  BY DEF Decide, At, BatchInOrder
<1>2. /\ turn \in Turn /\ Len(Calls) \in Nat /\ turn.results \in Seq(Nat)
      /\ n \in Nat /\ e \in Nat /\ turn.next = e + 1 /\ n <= e
  BY <1>1, BatchTypes
<1>3. turn.flying = n + 1 .. e
  <2>1. ToSet(turn.landed) = {}
    BY <1>1 DEF ToSet
  <2>2. turn.flying \cup ToSet(turn.landed) = n + 1 .. e
    BY <1>1 DEF BatchInOrder
  <2> QED
    BY <2>1, <2>2
<1>4. n < e
  BY <1>1, <1>2, <1>3
<1>5. q \in Seq(Nat) /\ Len(q) = e /\ \A k \in DOMAIN q : q[k] = k
  BY <1>1, <1>2, <1>4, AnswersInOrder DEF BatchInOrder
<1>6. \/ turn' = [turn EXCEPT !.at = "batch"]
      \/ \E c \in BOOLEAN :
           turn' = [[turn EXCEPT !.results = q] EXCEPT !.at = "batch", !.flying = {}, !.cancelled = c]
  <2>1. CASE Goes("batch")
    BY <2>1 DEF Goes
  <2> DEFINE t == [turn EXCEPT !.results = q]
  <2>2. Answer(turn, turn.flying) = t
    BY <1>3 DEF Answer
  <2>3. t \in Turn
    BY <1>2, <1>5 DEF Turn
  <2> HIDE DEF t
  <2>4. CASE turn' = [Answer(turn, turn.flying) EXCEPT !.at = "batch", !.flying = {}]
    <3>1. turn' = [t EXCEPT !.at = "batch", !.flying = {}, !.cancelled = t.cancelled]
      BY <2>2, <2>3, <2>4 DEF Turn
    <3>2. t.cancelled \in BOOLEAN
      BY <2>3 DEF Turn
    <3> QED
      BY <3>1, <3>2 DEF t
  <2>5. CASE turn' = [Answer(turn, turn.flying) EXCEPT !.at = "batch", !.flying = {}, !.cancelled = TRUE]
    BY <2>2, <2>5 DEF t
  <2> QED
    BY <2>1, <2>4, <2>5 DEF Decide
<1> HIDE DEF q, n, e
<1>7. CASE turn' = [turn EXCEPT !.at = "batch"]
  <2>1. /\ turn' \in Turn /\ turn'.at = "batch" /\ turn'.results = turn.results
        /\ turn'.next = turn.next /\ turn'.flying = turn.flying /\ turn'.landed = turn.landed
        /\ turn'.answer = turn.answer
    BY <1>2, <1>7, Names DEF Turn
  <2> QED
    BY <1>1, <2>1 DEF BatchInOrder, At, Calls
<1>8. ASSUME NEW c \in BOOLEAN,
             turn' = [[turn EXCEPT !.results = q] EXCEPT !.at = "batch", !.flying = {}, !.cancelled = c]
      PROVE  turn' \in Turn /\ BatchInOrder'
  <2>1. /\ turn' \in Turn /\ turn'.at = "batch" /\ turn'.results = q
        /\ turn'.next = e + 1 /\ turn'.flying = {} /\ turn'.landed = <<>>
        /\ turn'.answer = turn.answer
    <3> DEFINE t == [turn EXCEPT !.results = q]
    <3>1. /\ t \in Turn /\ t.results = q /\ t.landed = <<>> /\ t.answer = turn.answer
          /\ t.next = e + 1
      BY <1>1, <1>2, <1>5 DEF Turn
    <3>2. turn' = [t EXCEPT !.at = "batch", !.flying = {}, !.cancelled = c]
      BY <1>8
    <3> HIDE DEF t
    <3> QED
      BY <3>1, <3>2, Names DEF Turn
  <2>2. {} \cup ToSet(<<>>) = Len(q) + 1 .. (e + 1) - 1
    BY <1>2, <1>5 DEF ToSet
  <2> QED
    BY <1>1, <1>2, <1>5, <2>1, <2>2 DEF BatchInOrder, At, Calls
<1> QED
  BY <1>6, <1>7, <1>8

\* A tool that lands, in whatever order, takes only its own place.
LEMMA LandStep ==
  ASSUME TypeOK, BatchInOrder, NEW i \in turn.flying, Land(i)
  PROVE  turn' \in Turn /\ BatchInOrder'
<1> DEFINE n == Len(turn.results)
           e == turn.next - 1
           q == turn.results \o Ascending(n + 1 .. e)
           landed == Append(turn.landed, i)
           flying == turn.flying \ {i}
<1>1. /\ turn.at = "batch" /\ turn.answer.kind = "calls" /\ turn.next <= Len(Calls) + 1
      /\ \A k \in DOMAIN turn.results : turn.results[k] = k
      /\ turn.flying \cup ToSet(turn.landed) = n + 1 .. e
  BY DEF Land, At, BatchInOrder
<1>2. /\ turn \in Turn /\ Len(Calls) \in Nat /\ turn.results \in Seq(Nat)
      /\ n \in Nat /\ e \in Nat /\ turn.next = e + 1 /\ n <= e
      /\ turn.landed \in Seq(Nat) /\ i \in Nat /\ turn.flying \in SUBSET Nat
  BY <1>1, BatchTypes
<1>3. n < e
  BY <1>1, <1>2
<1>4. q \in Seq(Nat) /\ Len(q) = e /\ \A k \in DOMAIN q : q[k] = k
  BY <1>1, <1>2, <1>3, AnswersInOrder
<1>5. landed \in Seq(Nat) /\ ToSet(landed) = ToSet(turn.landed) \cup {i}
  BY <1>2, SetOfAppend
<1>6. flying \cup ToSet(landed) = n + 1 .. e /\ flying \in SUBSET Nat
  BY <1>1, <1>2, <1>5
<1>7. PICK c \in BOOLEAN :
        LET t == [turn EXCEPT !.flying = flying, !.landed = landed, !.cancelled = c]
        IN  turn' = IF t.flying = {} THEN [Answer(t, ToSet(t.landed)) EXCEPT !.landed = <<>>] ELSE t
  <2>1. PICK aborted \in BOOLEAN :
          LET t == [turn EXCEPT !.flying = @ \ {i}, !.landed = Append(@, i), !.cancelled = @ \/ aborted]
          IN  turn' = IF t.flying = {} THEN [Answer(t, ToSet(t.landed)) EXCEPT !.landed = <<>>] ELSE t
    BY DEF Land
  <2>2. (turn.cancelled \/ aborted) \in BOOLEAN
    BY <1>2
  <2> QED
    BY <2>1, <2>2
<1> DEFINE t == [turn EXCEPT !.flying = flying, !.landed = landed, !.cancelled = c]
<1>8. turn' = IF t.flying = {} THEN [Answer(t, ToSet(t.landed)) EXCEPT !.landed = <<>>] ELSE t
  BY <1>7
<1> HIDE DEF q, n, e, flying, landed
<1>9. /\ t \in Turn /\ t.at = "batch" /\ t.results = turn.results
      /\ t.next = e + 1 /\ t.flying = flying /\ t.landed = landed /\ t.answer = turn.answer
  BY <1>1, <1>2, <1>5, <1>6 DEF Turn
<1> HIDE DEF t
<1>10. CASE flying = {}
  <2>1. Answer(t, ToSet(landed)) = [t EXCEPT !.results = q]
    BY <1>6, <1>9, <1>10 DEF Answer, q
  <2>2. turn' = [[t EXCEPT !.results = q] EXCEPT !.landed = <<>>]
    BY <1>8, <1>9, <1>10, <2>1
  <2>3. /\ turn' \in Turn /\ turn'.at = "batch" /\ turn'.results = q
        /\ turn'.next = e + 1 /\ turn'.flying = {} /\ turn'.landed = <<>>
        /\ turn'.answer = turn.answer
    <3> DEFINE u == [t EXCEPT !.results = q]
               none == <<>>
    <3>1. /\ u \in Turn /\ u.at = "batch" /\ u.results = q /\ u.flying = {} /\ u.next = e + 1
          /\ u.answer = turn.answer
      BY <1>4, <1>9, <1>10 DEF Turn
    <3>2. turn' = [u EXCEPT !.landed = none]
      BY <2>2
    <3>3. none \in Seq(Nat)
      OBVIOUS
    <3> HIDE DEF u, none
    <3>4. /\ turn' \in Turn /\ turn'.at = "batch" /\ turn'.results = q
          /\ turn'.next = e + 1 /\ turn'.flying = {} /\ turn'.landed = none
          /\ turn'.answer = turn.answer
      BY <3>1, <3>2, <3>3 DEF Turn
    <3> QED
      BY <3>4 DEF none
  <2>4. {} \cup ToSet(<<>>) = Len(q) + 1 .. (e + 1) - 1
    BY <1>2, <1>4 DEF ToSet
  <2> QED
    BY <1>1, <1>2, <1>4, <2>3, <2>4 DEF BatchInOrder, At, Calls
<1>11. CASE flying # {}
  <2>1. turn' = t
    BY <1>8, <1>9, <1>11
  <2>2. (e + 1) - 1 = e
    BY <1>2
  <2> QED
    BY <1>1, <1>2, <1>3, <1>6, <1>9, <1>11, <2>1, <2>2 DEF BatchInOrder, At, Calls, n
<1> QED
  BY <1>10, <1>11

\* The turn as it moves on, ends, or is left by a failed store call.
LEMMA MovedOnTurn ==
  ASSUME turn \in Turn, NEW at \in Phases, Goes(at)
  PROVE  turn' \in Turn
BY DEF Goes, Turn

\* Setting a stop reason leaves a turn a turn.
LEMMA ClosedTurn ==
  ASSUME turn \in Turn, NEW stop \in Stops, Ends(stop)
  PROVE  turn' \in Turn
<1>1. turn' = [turn EXCEPT !.at = "close", !.stop = stop]
  BY DEF Ends
<1> QED
  BY <1>1, Names DEF Turn

\* A write that fails ends the turn where it stands.
LEMMA BrokenTurn ==
  ASSUME turn \in Turn, Broken
  PROVE  /\ turn' \in Turn /\ turn'.at = "ended" /\ turn'.stop = "broken"
         /\ turn'.id = turn.id /\ turn'.first = turn.first
<1> DEFINE n == NoBatch
<1>1. n \in Turn /\ turn' = [n EXCEPT !.at = "ended", !.stop = "broken"]
  BY NoBatchTurn DEF Broken
<1>2. n.id = turn.id /\ n.first = turn.first
  BY DEF NoBatch, Turn
<1> HIDE DEF n
<1> QED
  BY <1>1, <1>2, Names DEF Turn

\* What a completed stream leaves: one more answer to store, and a batch with
\* nothing of it decided yet.
LEMMA ReplyTurn ==
  ASSUME TypeOK, turn \in Turn, NEW c \in Completions, Reply(c)
  PROVE  /\ turn' \in Turn /\ turn'.at \in {"batch", "top", "answer"}
         /\ turn'.id = turn.id /\ turn'.first = turn.first /\ turn'.asked = turn.asked
         /\ turn'.heard = turn.asked /\ turn'.stop = turn.stop
         /\ turn'.spent = turn.spent + 1 /\ turn'.pending = turn.pending + 1
         /\ At("stream")
         /\ turn'.at = "batch" => /\ c.kind = "calls" /\ turn'.answer = c /\ turn'.next = 1
                                  /\ turn'.flying = {} /\ turn'.landed = <<>> /\ turn'.results = <<>>
<1> DEFINE t == [turn EXCEPT !.spent = @ + 1, !.pending = @ + 1, !.heard = turn.asked]
<1>1. /\ t \in Turn /\ t.at = turn.at /\ t.id = turn.id /\ t.first = turn.first
      /\ t.asked = turn.asked /\ t.heard = turn.asked /\ t.stop = turn.stop
      /\ t.spent = turn.spent + 1 /\ t.pending = turn.pending + 1
  <2>1. turn.spent + 1 \in Nat /\ turn.pending + 1 \in Nat
    BY DEF Turn
  <2> QED
    BY <2>1 DEF Turn
<1>2. NoteStep = t
  BY DEF NoteStep
<1> HIDE DEF t
<1>3. CASE c.kind = "calls"
  <2> DEFINE k == token
             none == <<>>
  <2>0. t.cancelled \in BOOLEAN /\ none \in Seq(Nat) /\ {} \in SUBSET Nat /\ 1 \in Nat \ {0}
    BY <1>1 DEF Turn
  <2>1. turn' = [t EXCEPT !.at = "batch", !.answer = c, !.next = 1, !.flying = {}, !.landed = none,
                          !.results = none, !.cancelled = k, !.gone = FALSE]
    BY <1>2, <1>3 DEF Reply, Begun
  <2>2. k \in BOOLEAN
    BY DEF TypeOK
  <2> HIDE DEF none, k
  <2>3. /\ turn' \in Turn /\ turn'.at = "batch" /\ turn'.id = t.id /\ turn'.first = t.first
        /\ turn'.asked = t.asked /\ turn'.heard = t.heard /\ turn'.stop = t.stop /\ turn'.spent = t.spent
        /\ turn'.pending = t.pending /\ turn'.answer = c /\ turn'.next = 1
        /\ turn'.flying = {} /\ turn'.landed = none /\ turn'.results = none
    BY <1>1, <2>0, <2>1, <2>2, Names DEF Turn
  <2> QED
    BY <1>1, <1>3, <2>3 DEF Reply, none
<1>4. CASE c.kind = "cut"
  <2>1. turn' = [t EXCEPT !.at = "top"]
    BY <1>2, <1>4 DEF Reply
  <2> QED
    BY <1>1, <2>1, Names DEF Turn, Reply
<1>5. CASE c.kind # "calls" /\ c.kind # "cut"
  <2>1. turn' = [t EXCEPT !.at = "answer", !.answer = c]
    BY <1>2, <1>5 DEF Reply
  <2> QED
    BY <1>1, <2>1, Names DEF Turn, Reply
<1> QED
  BY <1>3, <1>4, <1>5

\* Rows that are written come after those that are there.
LEMMA JoinedRows ==
  ASSUME NEW p \in Seq(Row), NEW q \in Seq(Row)
  PROVE  /\ p \o q \in Seq(Row) /\ Len(p \o q) = Len(p) + Len(q)
         /\ \A i \in 1 .. Len(p) + Len(q) :
              (p \o q)[i] = IF i <= Len(p) THEN p[i] ELSE q[i - Len(p)]
<1> HIDE DEF Row
<1> QED
  BY ConcatProperties

\* A write of one row adds it at the end.
LEMMA OneMoreRow ==
  ASSUME rows \in Seq(Row), NEW r \in Row, WriteStep(<<r>>)
  PROVE  /\ rows' \in Seq(Row) /\ Len(rows') = Len(rows) + 1 /\ Len(rows) \in Nat
         /\ \A j \in 1 .. Len(rows) : rows'[j] = rows[j]
         /\ rows'[Len(rows) + 1] = r
<1> DEFINE L == Len(rows)
           q == <<r>>
<1>1. q \in Seq(Row) /\ Len(q) = 1 /\ q[1] = r /\ L \in Nat
  BY DEF Row
<1>2. rows' = rows \o q
  BY DEF WriteStep
<1> HIDE DEF q, Row
<1>3. /\ rows' \in Seq(Row) /\ Len(rows') = L + 1
      /\ \A i \in 1 .. L + 1 : rows'[i] = IF i <= L THEN rows[i] ELSE q[i - L]
  BY <1>1, <1>2, JoinedRows
<1>4. ASSUME NEW j \in 1 .. L PROVE rows'[j] = rows[j]
  <2> HIDE DEF L
  <2>1. j \in 1 .. L + 1 /\ j <= L
    BY <1>1
  <2> QED
    BY <2>1, <1>3
<1>5. rows'[L + 1] = r
  <2> HIDE DEF L
  <2>1. L + 1 \in 1 .. L + 1 /\ ~ (L + 1 <= L) /\ (L + 1) - L = 1
    BY <1>1
  <2> QED
    BY <2>1, <1>1, <1>3
<1> QED
  BY <1>1, <1>3, <1>4, <1>5

\* The turn and the rows a batch leaves.
LEMMA ToolsTurn ==
  ASSUME turn \in Turn,
         LET t == [NoBatch EXCEPT !.pending = 0]
         IN  turn' = IF turn.cancelled \/ turn.gone
                       THEN [t EXCEPT !.at = "close", !.stop = "aborted"]
                       ELSE [t EXCEPT !.at = "top"]
  PROVE  /\ turn' \in Turn /\ turn'.at \in {"top", "close"} /\ turn'.pending = 0
         /\ turn'.id = turn.id /\ turn'.first = turn.first /\ turn'.asked = turn.asked /\ turn'.heard = turn.heard
         /\ turn'.spent = turn.spent
         /\ \/ turn'.at = "top" /\ turn'.stop = turn.stop
            \/ turn'.at = "close" /\ turn'.stop = "aborted"
<1> DEFINE n == NoBatch
           t == [n EXCEPT !.pending = 0]
<1>1. n \in Turn
  BY NoBatchTurn
<1>2. /\ n.id = turn.id /\ n.first = turn.first /\ n.asked = turn.asked /\ n.heard = turn.heard /\ n.spent = turn.spent
      /\ n.stop = turn.stop
  BY DEF NoBatch, Turn
<1> HIDE DEF n
<1>3. /\ t \in Turn /\ t.id = turn.id /\ t.first = turn.first /\ t.asked = turn.asked /\ t.heard = turn.heard
      /\ t.spent = turn.spent /\ t.stop = turn.stop /\ t.pending = 0
  BY <1>1, <1>2 DEF Turn
<1>4. turn' = [t EXCEPT !.at = "close", !.stop = "aborted"] \/ turn' = [t EXCEPT !.at = "top"]
  BY DEF n
<1> HIDE DEF t
<1>5. CASE turn' = [t EXCEPT !.at = "close", !.stop = "aborted"]
  <2>1. turn' \in Turn /\ turn'.at = "close" /\ turn'.stop = "aborted"
    BY <1>3, <1>5, Names DEF Turn
  <2>2. turn'.pending = 0 /\ turn'.id = t.id /\ turn'.first = t.first /\ turn'.asked = t.asked /\ turn'.heard = t.heard
        /\ turn'.spent = t.spent
    BY <1>3, <1>5 DEF Turn
  <2> QED
    BY <1>3, <2>1, <2>2
<1>6. CASE turn' = [t EXCEPT !.at = "top"]
  <2>1. turn' \in Turn /\ turn'.at = "top"
    BY <1>3, <1>6, Names DEF Turn
  <2>2. turn'.pending = 0 /\ turn'.id = t.id /\ turn'.first = t.first /\ turn'.asked = t.asked /\ turn'.heard = t.heard
        /\ turn'.spent = t.spent /\ turn'.stop = t.stop
    BY <1>3, <1>6 DEF Turn
  <2> QED
    BY <1>3, <2>1, <2>2
<1> QED
  BY <1>4, <1>5, <1>6

\* A batch is stored whole, its results in the order of its calls, or not at
\* all.
LEMMA ToolsRows ==
  ASSUME TypeOK, BatchInOrder, RunTools
  PROVE  \/ rows' = rows /\ Broken
         \/ /\ rows' \in Seq(Row) /\ Len(rows') = Len(rows) + 1 + Len(Calls)
            /\ Len(Calls) \in Nat
            /\ \A j \in 1 .. Len(rows) : rows'[j] = rows[j]
            /\ rows'[Len(rows) + 1] = Assistant(Len(Calls))
            /\ \A k \in 1 .. Len(Calls) : rows'[Len(rows) + 1 + k] = Result(k)
            /\ turn'.at \in {"top", "close"} /\ turn'.pending = 0
            /\ turn'.id = turn.id /\ turn'.first = turn.first /\ turn'.asked = turn.asked /\ turn'.heard = turn.heard
            /\ turn'.spent = turn.spent
            /\ \/ turn'.at = "top" /\ turn'.stop = turn.stop
               \/ turn'.at = "close" /\ turn'.stop = "aborted"
            /\ turn.at \in {"batch", "write"}
<1> DEFINE L == Len(rows)
           N == Len(Calls)
           r == turn.results
           head == <<Assistant(N)>>
           tail == [k \in DOMAIN r |-> Result(r[k])]
<1> SUFFICES ASSUME ~ (rows' = rows /\ Broken)
             PROVE  /\ rows' \in Seq(Row) /\ Len(rows') = L + 1 + N
                    /\ N \in Nat
                    /\ \A j \in 1 .. L : rows'[j] = rows[j]
                    /\ rows'[L + 1] = Assistant(N)
                    /\ \A k \in 1 .. N : rows'[L + 1 + k] = Result(k)
                    /\ turn'.at \in {"top", "close"} /\ turn'.pending = 0
                    /\ turn'.id = turn.id /\ turn'.first = turn.first /\ turn'.asked = turn.asked /\ turn'.heard = turn.heard
                    /\ turn'.spent = turn.spent
                    /\ \/ turn'.at = "top" /\ turn'.stop = turn.stop
                       \/ turn'.at = "close" /\ turn'.stop = "aborted"
                    /\ turn.at \in {"batch", "write"}
  OBVIOUS
<1>1. turn.at \in {"batch", "write"} /\ turn.flying = {} /\ turn.next = N + 1
  <2>1. CASE turn.at = "write"
    BY <2>1 DEF BatchInOrder, At
  <2>2. CASE At("batch") /\ turn.flying = {} /\ Rest = {}
    <3>1. turn.at = "batch" /\ turn.next \in 1 .. N + 1 /\ N \in Nat
      BY <2>2, BatchTypes DEF At
    <3>2. turn.next \notin turn.next .. N
      BY <2>2 DEF Rest
    <3> HIDE DEF N
    <3>3. turn.next = N + 1
      BY <3>1, <3>2
    <3> QED
      BY <2>2, <3>1, <3>3
  <2> QED
    BY <2>1, <2>2 DEF RunTools, At
<1>2. /\ turn \in Turn /\ N \in Nat /\ r \in Seq(Nat) /\ rows \in Seq(Row) /\ L \in Nat
  BY <1>1, BatchTypes DEF TypeOK
<1>3. Len(r) + 1 = turn.next
  BY <1>1, NothingFlies
<1>4. Len(r) = N /\ DOMAIN r = 1 .. N
  BY <1>1, <1>2, <1>3
<1>5. \A k \in 1 .. N : r[k] = k
  BY <1>1, <1>4 DEF BatchInOrder
<1>6. /\ rows' = rows \o (head \o tail)
      /\ LET t == [NoBatch EXCEPT !.pending = 0]
         IN  turn' = IF turn.cancelled \/ turn.gone
                       THEN [t EXCEPT !.at = "close", !.stop = "aborted"]
                       ELSE [t EXCEPT !.at = "top"]
  BY DEF RunTools, WriteStep
<1>7. Assistant(N) \in Row /\ \A k \in 1 .. N : Result(k) \in Row
  <2> HIDE DEF N
  <2>1. turn.id \in Nat /\ turn.pending \in Nat
    BY <1>2 DEF Turn
  <2> QED
    BY <1>2, <2>1 DEF Assistant, Result, Row
<1>8. tail = [k \in 1 .. N |-> Result(k)]
  BY <1>4, <1>5
<1> HIDE DEF tail, N, r, L, Row, Assistant, Result
<1>9. tail \in Seq(Row) /\ Len(tail) = N /\ \A k \in 1 .. N : tail[k] = Result(k)
  BY <1>2, <1>7, <1>8
<1>10. head \in Seq(Row) /\ Len(head) = 1 /\ head[1] = Assistant(N)
  BY <1>7
<1> HIDE DEF head
<1> DEFINE added == head \o tail
<1>11. /\ added \in Seq(Row) /\ Len(added) = 1 + N /\ added[1] = Assistant(N)
       /\ \A k \in 1 .. N : added[1 + k] = Result(k)
  <2>1. /\ added \in Seq(Row) /\ Len(added) = 1 + N
        /\ \A i \in 1 .. 1 + N : added[i] = IF i <= 1 THEN head[i] ELSE tail[i - 1]
    <3>1. /\ added \in Seq(Row) /\ Len(added) = Len(head) + Len(tail)
          /\ \A i \in 1 .. Len(head) + Len(tail) :
               added[i] = IF i <= Len(head) THEN head[i] ELSE tail[i - Len(head)]
      BY <1>9, <1>10, JoinedRows
    <3> HIDE DEF added
    <3> QED
      BY <3>1, <1>9, <1>10
  <2> HIDE DEF added
  <2>2. ASSUME NEW k \in 1 .. N PROVE added[1 + k] = Result(k)
    <3>1. 1 + k \in 1 .. 1 + N /\ ~ (1 + k <= 1) /\ (1 + k) - 1 = k
      BY <1>2
    <3> QED
      BY <1>9, <2>1, <3>1
  <2>3. 1 \in 1 .. 1 + N
    BY <1>2
  <2> QED
    BY <2>1, <2>2, <2>3, <1>10
<1>12. rows' = rows \o added
  BY <1>6
<1> HIDE DEF added
<1>13. /\ rows' \in Seq(Row) /\ Len(rows') = L + (1 + N)
       /\ \A i \in 1 .. L + (1 + N) : rows'[i] = IF i <= L THEN rows[i] ELSE added[i - L]
  <2>1. L = Len(rows) /\ 1 + N = Len(added)
    BY <1>11 DEF L
  <2> QED
    BY <2>1, <1>2, <1>11, <1>12, JoinedRows
<1>14. ASSUME NEW j \in 1 .. L PROVE rows'[j] = rows[j]
  <2>1. j \in 1 .. L + (1 + N) /\ j <= L
    BY <1>2
  <2> QED
    BY <2>1, <1>13
<1>15. rows'[L + 1] = Assistant(N)
  <2>1. L + 1 \in 1 .. L + (1 + N) /\ ~ (L + 1 <= L) /\ (L + 1) - L = 1
    BY <1>2
  <2> QED
    BY <2>1, <1>11, <1>13
<1>16. ASSUME NEW k \in 1 .. N PROVE rows'[L + 1 + k] = Result(k)
  <2>1. L + 1 + k \in 1 .. L + (1 + N) /\ ~ (L + 1 + k <= L) /\ (L + 1 + k) - L = 1 + k
    BY <1>2
  <2> QED
    BY <2>1, <1>11, <1>13
<1>17. L + (1 + N) = L + 1 + N
  BY <1>2
<1> QED
  BY <1>1, <1>2, <1>6, <1>13, <1>14, <1>15, <1>16, <1>17, ToolsTurn

\* Every step leaves every variable its type.
LEMMA TypeStep ==
  ASSUME IInv, Next
  PROVE  TypeOK'
<1> USE DEF TypeOK
<1>0. TypeOK /\ turn \in Turn /\ HistoryIsLegal
  BY DEF IInv
<1>1. ASSUME NEW m \in Messages, Start(m) PROVE TypeOK'
  <2>1. turn' \in Turn
    <3>1. turn' = [Idle EXCEPT !.at = "open", !.id = turn.id + 1, !.message = m,
                               !.again = FALSE, !.first = 0]
      BY <1>1 DEF Start, Runs
    <3>2. turn.id + 1 \in Nat
      BY <1>0 DEF Turn
    <3> QED
      BY <3>1, <3>2, Names, IdleTurn DEF Turn
  <2>2. waiting' \in Seq(Messages) /\ unsent' \in SUBSET Messages
    BY <1>0, <1>1, HeadTailProperties DEF Start
  <2> QED
    BY <1>0, <1>1, <2>1, <2>2 DEF Start
<1>2. ASSUME NEW i \in DOMAIN rows, Rewind(i) PROVE TypeOK'
  <2>1. rows' \in Seq(Row) /\ rows[i] \in Row /\ \A j \in DOMAIN rows : rows[j] \in Row
    BY <1>0, <1>2, RewindKeeps
  <2>2. turn' \in Turn
    <3>1. turn.id + 1 \in Nat
      BY <1>0 DEF Turn
    <3>2. CASE IsUser(rows[i])
      <4>1. turn' = [Idle EXCEPT !.at = "open", !.id = turn.id + 1, !.message = rows[i].message,
                                 !.again = rows[i].steer, !.first = 0]
        BY <1>2, <3>2 DEF Rewind, Runs
      <4>2. rows[i].message \in Messages /\ rows[i].steer \in BOOLEAN
        BY <2>1, <3>2 DEF IsUser, Row
      <4> QED
        BY <3>1, <4>1, <4>2, Names, IdleTurn DEF Turn
    <3>3. CASE ~IsUser(rows[i])
      <4> DEFINE kept == SubSeq(rows, 1, LegalEnd(i - 1))
                 asks == {j \in DOMAIN kept : IsUser(kept[j]) /\ ~kept[j].steer}
      <4>1. /\ asks # {} /\ kept = rows'
            /\ turn' = [Idle EXCEPT !.at = "open", !.id = turn.id + 1, !.message = None,
                                    !.again = FALSE, !.first = Max(asks)]
        BY <1>2, <3>3 DEF Rewind, Runs
      <4>2. Max(asks) \in Nat
        <5> DEFINE n == Len(rows')
        <5>1. n \in Nat /\ DOMAIN kept = 1 .. n
          <6> HIDE DEF kept
          <6> QED
            BY <2>1, <4>1
        <5>2. asks \in SUBSET (0 .. n)
          <6> HIDE DEF kept, n
          <6>1. 1 .. n \subseteq 0 .. n
            BY <5>1
          <6> QED
            BY <5>1, <6>1
        <5> HIDE DEF asks, n
        <5>3. Max(asks) \in asks
          BY <4>1, <5>1, <5>2, MaxOf
        <5>4. Max(asks) \in 0 .. n
          BY <5>2, <5>3
        <5> QED
          BY <5>1, <5>4
      <4> HIDE DEF asks
      <4> QED
        BY <3>1, <4>1, <4>2, Names, IdleTurn DEF Turn
    <3> QED
      BY <3>2, <3>3
  <2>3. lost' \in SUBSET Messages
    <3>1. \A j \in DOMAIN rows : IsUser(rows[j]) => rows[j].message \in Messages
      BY <2>1 DEF IsUser, Row
    <3>2. PICK cut : /\ cut \subseteq {rows[j].message : j \in {k \in DOMAIN rows : IsUser(rows[k])}}
                     /\ lost' = lost \cup cut
      <4> DEFINE n == Len(SubSeq(rows, 1, LegalEnd(i - 1)))
                 C == {rows[j].message : j \in {k \in n + 1 .. Len(rows) : IsUser(rows[k])}}
      <4>1. lost' = lost \cup C \/ lost' = lost \cup (C \ {rows[i].message})
        BY <1>2 DEF Rewind
      <4>2. n = i - 1 /\ i \in 1 .. Len(rows)
        BY <1>0, <1>2, RewindKeeps DEF Rewind
      <4>3. n + 1 .. Len(rows) \subseteq DOMAIN rows
        <5>1. DOMAIN rows = 1 .. Len(rows) /\ Len(rows) \in Nat
          BY <1>0
        <5> HIDE DEF n
        <5> QED
          BY <4>2, <5>1
      <4> QED
        BY <4>1, <4>3
    <3> QED
      BY <1>0, <3>1, <3>2
  <2>4. faults' \in Nat
    BY <1>0, <1>2 DEF Rewind, Fault
  <2> QED
    BY <1>0, <1>2, <2>1, <2>2, <2>3, <2>4 DEF Rewind
<1>3. ASSUME NEW m \in Messages, Steer(m) PROVE TypeOK'
  <2>1. steering' \in Seq(Messages)
    BY <1>0, <1>3, AppendProperties DEF Steer
  <2> QED
    BY <1>0, <1>3, <2>1 DEF Steer
<1>4. CASE Stop
  BY <1>0, <1>4 DEF Stop
<1>5. CASE CloseQueue
  <2>1. turn' \in Turn
    BY <1>0, <1>5, IdleTurn DEF CloseQueue, Turn
  <2>2. waiting' \in Seq(Messages) /\ steering' \in Seq(Messages)
    BY <1>0, <1>5, ConcatProperties DEF CloseQueue
  <2> QED
    BY <1>0, <1>5, <2>1, <2>2 DEF CloseQueue
<1>6. CASE Crash
  <2>1. turn' \in Turn
    BY <1>0, <1>6, IdleTurn DEF Crash, Turn
  <2>2. lost' \in SUBSET Messages
    BY <1>0, <1>6, Names DEF Crash, InHand, ToSet, Turn
  <2>3. waiting' \in Seq(Messages) /\ steering' \in Seq(Messages) /\ faults' \in Nat
    BY <1>0, <1>6 DEF Crash, Fault
  <2> QED
    BY <1>0, <1>6, <2>1, <2>2, <2>3 DEF Crash
<1>7. CASE Open
  <2>1. turn' \in Turn
    <3>1. CASE turn' = [turn EXCEPT !.at = "top"]
      BY <3>1, <1>0, Names DEF Turn
    <3>2. CASE turn' = [turn EXCEPT !.at = "top", !.first = Len(rows) + 1]
      <4>1. Len(rows) + 1 \in Nat
        BY <1>0
      <4> QED
        BY <3>2, <4>1, <1>0, Names DEF Turn
    <3> QED
      BY <1>0, <1>7, <3>1, <3>2, BrokenTurn DEF Open, Goes
  <2>2. rows' \in Seq(Row)
    <3>1. ASSUME turn.message # None, rows' = rows \o <<User(turn.message, turn.again)>>
          PROVE  rows' \in Seq(Row)
      <4>1. User(turn.message, turn.again) \in Row
        BY <1>0, <3>1 DEF User, Row, Turn
      <4> HIDE DEF Row, User
      <4> QED
        BY <1>0, <3>1, <4>1
    <3> QED
      BY <1>0, <1>7, <3>1 DEF Open, WriteStep
  <2>3. lost' \in SUBSET Messages /\ faults' \in Nat
    BY <1>0, <1>7 DEF Open, Fault, InHand, Turn
  <2> QED
    BY <1>0, <1>7, <2>1, <2>2, <2>3 DEF Open
<1>8. CASE Top
  <2>1. turn' \in Turn
    BY <1>0, <1>8, Names, ClosedTurn, MovedOnTurn DEF Top
  <2> QED
    BY <1>0, <1>8, <2>1 DEF Top
<1>9. CASE Drain
  <2>1. turn' \in Turn
    <3>1. CASE Goes("pop")
      BY <3>1, <1>0, Names, MovedOnTurn
    <3> QED
      BY <1>0, <1>9, <3>1, BrokenTurn DEF Drain
  <2>2. rows' \in Seq(Row)
    <3>1. User(Head(steering), TRUE) \in Row
      <4>1. Head(steering) \in Messages
        BY <1>0, <1>9 DEF Drain
      <4> QED
        BY <1>0, <4>1 DEF User, Row, Turn
    <3> HIDE DEF Row, User
    <3> QED
      BY <1>0, <1>9, <3>1, OneMoreRow DEF Drain
  <2>3. faults' \in Nat
    BY <1>0, <1>9 DEF Drain, Fault
  <2> QED
    BY <1>0, <1>9, <2>1, <2>2, <2>3 DEF Drain
<1>10. CASE Pop
  <2>1. turn' \in Turn
    BY <1>0, <1>10, Names, MovedOnTurn DEF Pop
  <2>2. steering' \in Seq(Messages)
    <3>1. steering # <<>>
      BY <1>10 DEF IInv, PoppedIsWritten, Pop
    <3> QED
      BY <1>0, <1>10, <3>1, HeadTailProperties DEF Pop
  <2> QED
    BY <1>0, <1>10, <2>1, <2>2 DEF Pop
<1>11. CASE Request
  <2>1. turn' \in Turn
    <3>1. CASE turn' = [turn EXCEPT !.at = "stream", !.iteration = @ + 1,
                                    !.sent = WindowStart(turn.first), !.asked = Len(rows)]
      <4>1. turn.first \in DOMAIN rows /\ IsUser(rows[turn.first])
        BY <1>11 DEF Request, At, IInv, QuestionIsStored
      <4>2. WindowStart(turn.first) \in 1 .. Len(rows) + 1
        BY <1>0, <4>1, WindowIsLegal
      <4>3. WindowStart(turn.first) \in Nat /\ Len(rows) \in Nat /\ turn.iteration + 1 \in Nat
        BY <1>0, <4>2 DEF Turn
      <4> QED
        BY <1>0, <3>1, <4>3, Names DEF Turn
    <3> QED
      BY <1>0, <1>11, <3>1, BrokenTurn DEF Request
  <2>2. faults' \in Nat
    BY <1>0, <1>11 DEF Request, Fault
  <2> QED
    BY <1>0, <1>11, <2>1, <2>2 DEF Request
<1>12. CASE StreamStops
  <2>1. turn' \in Turn
    BY <1>0, <1>12, Names, ClosedTurn DEF StreamStops
  <2> QED
    BY <1>0, <1>12, <2>1 DEF StreamStops
<1>13. ASSUME NEW c \in Completions, Reply(c) PROVE TypeOK'
  <2>1. turn' \in Turn
    BY <1>0, <1>13, ReplyTurn
  <2> QED
    BY <1>0, <1>13, <2>1 DEF Reply
<1>14. CASE Finish
  <2>1. turn' \in Turn
    <3>1. ASSUME NEW stays,
                 turn' = [NoBatch EXCEPT !.pending = 0,
                            !.corrected = @ \/ turn.answer.kind = "written",
                            !.at = IF stays THEN "top" ELSE "close",
                            !.stop = IF stays THEN @ ELSE "complete"]
          PROVE turn' \in Turn
      <4> DEFINE n == NoBatch
                 a == IF stays THEN "top" ELSE "close"
                 z == IF stays THEN n.stop ELSE "complete"
                 w == n.corrected \/ turn.answer.kind = "written"
      <4>1. turn' = [n EXCEPT !.pending = 0, !.corrected = w, !.at = a, !.stop = z]
        BY <3>1
      <4>2. n \in Turn
        BY <1>0, NoBatchTurn
      <4> HIDE DEF n
      <4>3. w \in BOOLEAN /\ a \in Phases /\ z \in Stops
        BY <4>2, Names DEF Turn
      <4> HIDE DEF a, z, w
      <4> QED
        BY <4>1, <4>2, <4>3 DEF Turn
    <3> QED
      BY <1>0, <1>14, <3>1, BrokenTurn DEF Finish
  <2>2. rows' \in Seq(Row)
    <3>1. Assistant(0) \in Row
      BY <1>0 DEF Assistant, Row, Turn
    <3> HIDE DEF Row, Assistant
    <3> QED
      BY <1>0, <1>14, <3>1, OneMoreRow DEF Finish
  <2>3. faults' \in Nat
    BY <1>0, <1>14 DEF Finish, Fault
  <2> QED
    BY <1>0, <1>14, <2>1, <2>2, <2>3 DEF Finish
<1>15. CASE RefuseRest
  <2>1. turn' \in Turn
    BY <1>15, RefuseStep DEF IInv
  <2> QED
    BY <1>0, <1>15, <2>1 DEF RefuseRest, BatchOnly
<1>16. ASSUME NEW allowed, NEW denied, Dispatch(allowed, denied) PROVE TypeOK'
  <2>1. turn' \in Turn
    BY <1>16, DispatchStep DEF IInv
  <2> QED
    BY <1>0, <1>16, <2>1 DEF Dispatch, BatchOnly
<1>17. CASE Decide
  <2>1. turn' \in Turn
    BY <1>17, DecideStep DEF IInv
  <2> QED
    BY <1>0, <1>17, <2>1 DEF Decide, BatchOnly
<1>18. ASSUME NEW i \in turn.flying, Land(i) PROVE TypeOK'
  <2>1. turn' \in Turn
    BY <1>18, LandStep DEF IInv
  <2> QED
    BY <1>0, <1>18, <2>1 DEF Land, BatchOnly
<1>19. ASSUME NEW i, DelegationFails(i) PROVE TypeOK'
  BY <1>0, <1>19, BrokenTurn DEF DelegationFails, Fault
<1>20. CASE RunTools
  <2>1. turn' \in Turn
    BY <1>0, <1>20, ToolsTurn, BrokenTurn DEF RunTools
  <2>2. rows' \in Seq(Row)
    BY <1>0, <1>20, ToolsRows DEF IInv
  <2>3. faults' \in Nat
    BY <1>0, <1>20 DEF RunTools, Fault
  <2> QED
    BY <1>0, <1>20, <2>1, <2>2, <2>3 DEF RunTools
<1>21. CASE Close
  <2>1. turn' \in Turn
    <3>1. CASE turn' = [turn EXCEPT !.at = "ended", !.pending = 0]
      BY <3>1, <1>0, Names DEF Turn
    <3>2. CASE Goes("ended")
      BY <3>2, <1>0, Names, MovedOnTurn
    <3> QED
      BY <1>0, <1>21, <3>1, <3>2, BrokenTurn DEF Close
  <2>2. rows' \in Seq(Row)
    <3>1. Assistant(0) \in Row
      BY <1>0 DEF Assistant, Row, Turn
    <3> HIDE DEF Row, Assistant
    <3> QED
      BY <1>0, <1>21, <3>1, OneMoreRow DEF Close
  <2>3. faults' \in Nat
    BY <1>0, <1>21 DEF Close, Fault
  <2> QED
    BY <1>0, <1>21, <2>1, <2>2, <2>3 DEF Close
<1> HIDE DEF TypeOK
<1> QED
  BY <1>1, <1>2, <1>3, <1>4, <1>5, <1>6, <1>7, <1>8, <1>9, <1>10, <1>11, <1>12, <1>13, <1>14,
     <1>15, <1>16, <1>17, <1>18, <1>19, <1>20, <1>21 DEF Next, LoopStep, OwnStep, AwaitedStep

\* What a step leaves of the turn's numbers.
Same ==
  /\ turn'.id = turn.id /\ turn'.first = turn.first /\ turn'.asked = turn.asked /\ turn'.heard = turn.heard
  /\ turn'.spent = turn.spent /\ turn'.pending = turn.pending

\* A turn that starts has spent nothing and stored nothing.
LEMMA StartFields ==
  ASSUME TypeOK, NEW m \in Messages, Start(m)
  PROVE  /\ turn.at = "idle" /\ turn'.at = "open" /\ turn'.id = turn.id + 1
         /\ turn'.message = m /\ turn'.stop = "none"
         /\ turn'.spent = 0 /\ turn'.pending = 0 /\ rows' = rows
<1>1. turn' = [Idle EXCEPT !.at = "open", !.id = turn.id + 1, !.message = m,
                           !.again = FALSE, !.first = 0]
  BY DEF Start, Runs
<1> QED
  BY <1>1 DEF Idle, Start, At

\* A turn that edits or runs again begins at a question: its own text, or the
\* user row it answers.
LEMMA RewindFields ==
  ASSUME TypeOK, HistoryIsLegal, NEW i \in DOMAIN rows, Rewind(i)
  PROVE  /\ turn.at = "idle" /\ turn'.at = "open" /\ turn'.id = turn.id + 1
         /\ turn'.stop = "none" /\ turn'.spent = 0 /\ turn'.pending = 0
         /\ turn'.message = IF IsUser(rows[i]) THEN rows[i].message ELSE None
         /\ turn'.message = None =>
              turn'.first \in 1 .. i - 1 /\ turn'.first \in DOMAIN rows' /\ IsUser(rows'[turn'.first])
<1> DEFINE kept == SubSeq(rows, 1, LegalEnd(i - 1))
           asks == {j \in DOMAIN kept : IsUser(kept[j]) /\ ~kept[j].steer}
<1>1. /\ kept = rows' /\ i \in 1 .. Len(rows) /\ rows' \in Seq(Row) /\ Len(rows') = i - 1
      /\ rows \in Seq(Row)
  BY RewindKeeps DEF Rewind, TypeOK
<1>2. CASE IsUser(rows[i])
  <2>1. turn' = [Idle EXCEPT !.at = "open", !.id = turn.id + 1, !.message = rows[i].message,
                             !.again = rows[i].steer, !.first = 0]
    BY <1>2 DEF Rewind, Runs
  <2>2. rows[i].message # None
    <3>1. rows[i] \in Row
      BY <1>1
    <3>2. rows[i].message \in Messages
      BY <1>2, <3>1 DEF IsUser, Row
    <3> QED
      BY <3>2, Names
  <2> QED
    BY <1>2, <2>1, <2>2 DEF Idle, Rewind, At
<1>3. CASE ~IsUser(rows[i])
  <2>1. /\ asks # {}
        /\ turn' = [Idle EXCEPT !.at = "open", !.id = turn.id + 1, !.message = None,
                                !.again = FALSE, !.first = Max(asks)]
    BY <1>3 DEF Rewind, Runs
  <2>2. DOMAIN kept = 1 .. i - 1 /\ i - 1 \in Nat
    <3> HIDE DEF kept
    <3> QED
      BY <1>1
  <2>3. Max(asks) \in asks
    <3>1. asks \in SUBSET (0 .. i - 1)
      <4> HIDE DEF kept
      <4>1. 1 .. i - 1 \subseteq 0 .. i - 1
        BY <2>2
      <4> QED
        BY <2>2, <4>1
    <3> HIDE DEF asks
    <3> QED
      BY <2>1, <2>2, <3>1, MaxOf
  <2>4. Max(asks) \in 1 .. i - 1 /\ Max(asks) \in DOMAIN kept /\ IsUser(kept[Max(asks)])
    <3> HIDE DEF kept
    <3> QED
      BY <2>2, <2>3
  <2> HIDE DEF asks
  <2>5. /\ turn'.at = "open" /\ turn'.id = turn.id + 1 /\ turn'.stop = "none"
        /\ turn'.spent = 0 /\ turn'.pending = 0 /\ turn'.message = None /\ turn'.first = Max(asks)
    BY <2>1 DEF Idle
  <2> HIDE DEF kept
  <2> QED
    BY <1>1, <1>3, <2>4, <2>5 DEF Rewind, At
<1> QED
  BY <1>2, <1>3

\* A turn that is over leaves the rows alone.
LEMMA DoneFields ==
  ASSUME TypeOK, CloseQueue \/ Crash
  PROVE  /\ turn'.at = "idle" /\ turn'.id = turn.id /\ turn'.stop = "none" /\ turn'.message = None
         /\ rows' = rows
BY DEF TypeOK, CloseQueue, Crash, Idle, Turn

\* The checks at the top of a pass store nothing: the turn goes on or closes
\* with the reason it found.
LEMMA TopFields ==
  ASSUME TypeOK, Top
  PROVE  /\ turn.at = "top" /\ Same /\ rows' = rows
         /\ \/ turn'.at = "close" /\ turn'.stop \in Stops \ {"broken", "complete"}
            \/ turn'.at = "drain" /\ turn'.stop = turn.stop
<1> DEFINE ends == {"iterations", "aborted", "timeout"}
<1>1. (\E stop \in ends : turn' = [turn EXCEPT !.at = "close", !.stop = stop])
      \/ turn' = [turn EXCEPT !.at = "drain"]
  BY DEF Top, Ends, Goes
<1>2. ends \subseteq Stops \ {"broken", "complete"} /\ turn \in Turn
  BY Names DEF TypeOK
<1> HIDE DEF ends
<1>3. ASSUME NEW stop \in ends, turn' = [turn EXCEPT !.at = "close", !.stop = stop]
      PROVE  Same /\ turn'.at = "close" /\ turn'.stop \in Stops \ {"broken", "complete"}
  BY <1>2, <1>3 DEF Turn, Same
<1>4. CASE turn' = [turn EXCEPT !.at = "drain"]
  BY <1>2, <1>4 DEF Turn, Same, Top, At
<1> QED
  BY <1>1, <1>3, <1>4 DEF Top, At

\* A move to another phase keeps everything else of the turn.
LEMMA GoesFields ==
  ASSUME TypeOK, NEW at, Goes(at)
  PROVE  turn'.at = at /\ Same /\ turn'.stop = turn.stop /\ turn'.message = turn.message
BY DEF TypeOK, Goes, Turn, Same

\* A batch goes on: nothing but the batch changes.
LEMMA BatchFields ==
  ASSUME TypeOK, BatchInOrder,
         RefuseRest \/ (\E a, d : Dispatch(a, d)) \/ Decide \/ (\E i \in turn.flying : Land(i))
  PROVE  /\ turn.at \in {"batch", "asking"} /\ turn'.at \in {"batch", "asking", "write"}
         /\ Same /\ turn'.stop = turn.stop
         /\ UNCHANGED <<rows, unsent, waiting, steering, lost, token, faults>>
<1>1. turn \in Turn
  BY DEF TypeOK
<1>2. CASE RefuseRest
  <2> DEFINE t == [turn EXCEPT !.results = @ \o Ascending(Rest)]
  <2>1. turn' = [t EXCEPT !.gone = TRUE, !.next = Len(Calls) + 1, !.at = "write"]
    BY <1>2 DEF RefuseRest, Answer
  <2>2. t.id = turn.id /\ t.first = turn.first /\ t.asked = turn.asked /\ t.heard = turn.heard /\ t.spent = turn.spent
        /\ t.pending = turn.pending /\ t.stop = turn.stop /\ DOMAIN t = DOMAIN turn
    BY <1>1 DEF Turn
  <2>3. DOMAIN turn = DOMAIN Idle
    BY <1>1 DEF Turn, Idle
  <2> HIDE DEF t
  <2> QED
    BY <1>2, <2>1, <2>2, <2>3 DEF Same, RefuseRest, BatchOnly, At, Idle
<1>3. ASSUME NEW a, NEW d, Dispatch(a, d)
      PROVE  /\ turn.at \in {"batch", "asking"} /\ turn'.at \in {"batch", "asking", "write"}
             /\ Same /\ turn'.stop = turn.stop
  <2> DEFINE t == [turn EXCEPT !.cancelled = @ \/ token, !.next = Max(NextGroup(a)) + 1]
  <2>1. \/ turn' = [t EXCEPT !.results = @ \o Ascending(NextGroup(a))]
        \/ \E at \in {"batch", "asking"} :
             turn' = [t EXCEPT !.flying = NextGroup(a), !.landed = <<>>, !.at = at]
    BY <1>3 DEF Dispatch, Answer
  <2>2. t.id = turn.id /\ t.first = turn.first /\ t.asked = turn.asked /\ t.heard = turn.heard /\ t.spent = turn.spent
        /\ t.pending = turn.pending /\ t.stop = turn.stop /\ DOMAIN t = DOMAIN turn
        /\ t.at = turn.at
    BY <1>1 DEF Turn
  <2>3. DOMAIN turn = DOMAIN Idle
    BY <1>1 DEF Turn, Idle
  <2>4. turn.at = "batch"
    BY <1>3 DEF Dispatch, At
  <2> HIDE DEF t
  <2>5. CASE turn' = [t EXCEPT !.results = @ \o Ascending(NextGroup(a))]
    BY <2>2, <2>3, <2>4, <2>5 DEF Same, Idle
  <2>6. ASSUME NEW at \in {"batch", "asking"},
               turn' = [t EXCEPT !.flying = NextGroup(a), !.landed = <<>>, !.at = at]
        PROVE  Same /\ turn'.at = at /\ turn'.stop = turn.stop
    BY <2>2, <2>3, <2>6 DEF Same, Idle
  <2> QED
    BY <2>1, <2>4, <2>5, <2>6
<1>4. CASE Decide
  <2> DEFINE t == [turn EXCEPT !.results = @ \o Ascending(turn.flying)]
  <2>1. \/ turn' = [turn EXCEPT !.at = "batch"]
        \/ turn' = [t EXCEPT !.at = "batch", !.flying = {}]
        \/ turn' = [t EXCEPT !.at = "batch", !.flying = {}, !.cancelled = TRUE]
    BY <1>4 DEF Decide, Answer, Goes
  <2>2. t.id = turn.id /\ t.first = turn.first /\ t.asked = turn.asked /\ t.heard = turn.heard /\ t.spent = turn.spent
        /\ t.pending = turn.pending /\ t.stop = turn.stop /\ DOMAIN t = DOMAIN turn
    BY <1>1 DEF Turn
  <2>3. DOMAIN turn = DOMAIN Idle
    BY <1>1 DEF Turn, Idle
  <2>4. turn.at = "asking"
    BY <1>4 DEF Decide, At
  <2> HIDE DEF t
  <2>5. CASE turn' = [turn EXCEPT !.at = "batch"]
    BY <1>4, <2>3, <2>4, <2>5 DEF Same, Idle, Decide, BatchOnly
  <2>6. CASE turn' = [t EXCEPT !.at = "batch", !.flying = {}]
    BY <1>4, <2>2, <2>3, <2>4, <2>6 DEF Same, Idle, Decide, BatchOnly
  <2>7. CASE turn' = [t EXCEPT !.at = "batch", !.flying = {}, !.cancelled = TRUE]
    BY <1>4, <2>2, <2>3, <2>4, <2>7 DEF Same, Idle, Decide, BatchOnly
  <2> QED
    BY <2>1, <2>5, <2>6, <2>7
<1>5. ASSUME NEW i \in turn.flying, Land(i)
      PROVE  /\ turn.at \in {"batch", "asking"} /\ turn'.at \in {"batch", "asking", "write"}
             /\ Same /\ turn'.stop = turn.stop
  <2>1. PICK c \in BOOLEAN :
          LET t == [turn EXCEPT !.flying = @ \ {i}, !.landed = Append(@, i), !.cancelled = @ \/ c]
          IN  turn' = IF t.flying = {} THEN [Answer(t, ToSet(t.landed)) EXCEPT !.landed = <<>>] ELSE t
    BY <1>5 DEF Land
  <2> DEFINE t == [turn EXCEPT !.flying = @ \ {i}, !.landed = Append(@, i), !.cancelled = @ \/ c]
             A == Ascending(ToSet(t.landed))
             u == [t EXCEPT !.results = @ \o A]
  <2>2. turn' = t \/ turn' = [u EXCEPT !.landed = <<>>]
    BY <2>1 DEF Answer
  <2>3. t.id = turn.id /\ t.first = turn.first /\ t.asked = turn.asked /\ t.heard = turn.heard /\ t.spent = turn.spent
        /\ t.pending = turn.pending /\ t.stop = turn.stop /\ DOMAIN t = DOMAIN turn
        /\ t.at = turn.at
    BY <1>1 DEF Turn
  <2>4. DOMAIN turn = DOMAIN Idle
    BY <1>1 DEF Turn, Idle
  <2> HIDE DEF t, A
  <2>5. u.id = turn.id /\ u.first = turn.first /\ u.asked = turn.asked /\ u.heard = turn.heard /\ u.spent = turn.spent
        /\ u.pending = turn.pending /\ u.stop = turn.stop /\ DOMAIN u = DOMAIN turn
        /\ u.at = turn.at
    BY <2>3, <2>4 DEF Idle
  <2> HIDE DEF u
  <2> QED
    BY <1>5, <2>2, <2>3, <2>4, <2>5 DEF Same, Land, At, Idle
<1> QED
  BY <1>2, <1>3, <1>4, <1>5 DEF RefuseRest, Dispatch, Decide, Land, BatchOnly

\* What a failed write leaves.
LEMMA BrokenOrNot ==
  ASSUME TypeOK, Finish \/ Close, Broken
  PROVE  rows' = rows
<1>1. turn \in Turn /\ turn'.at = "ended" /\ turn'.stop = "broken"
  BY BrokenTurn DEF TypeOK
<1> DEFINE n == NoBatch
<1>2. n \in Turn
  BY <1>1, NoBatchTurn
<1>3. ASSUME NEW stays, turn' = [n EXCEPT !.pending = 0,
                                   !.corrected = @ \/ turn.answer.kind = "written",
                                   !.at = IF stays THEN "top" ELSE "close",
                                   !.stop = IF stays THEN @ ELSE "complete"]
      PROVE  FALSE
  <2> HIDE DEF n
  <2> QED
    BY <1>1, <1>2, <1>3 DEF Turn
<1>4. Finish => rows' = rows
  BY <1>3 DEF Finish
<1>5. ASSUME turn.stop \in {"iterations", "timeout"}, turn' = [turn EXCEPT !.at = "ended", !.pending = 0]
      PROVE  FALSE
  BY <1>1, <1>5 DEF Turn
<1>6. Close => rows' = rows
  BY <1>5 DEF Close
<1> QED
  BY <1>4, <1>6

\* A final answer is stored once; the turn completes, or goes on when a steer
\* came while it was streamed.
LEMMA FinishFields ==
  ASSUME TypeOK, Finish, ~Broken
  PROVE  /\ turn.at = "answer" /\ turn'.at \in {"top", "close"} /\ turn'.pending = 0
         /\ turn'.id = turn.id /\ turn'.first = turn.first /\ turn'.asked = turn.asked /\ turn'.heard = turn.heard
         /\ turn'.spent = turn.spent
         /\ \/ turn'.at = "top" /\ turn'.stop = turn.stop
            \/ turn'.at = "close" /\ turn'.stop = "complete"
         /\ WriteStep(<<Assistant(0)>>)
         /\ UNCHANGED <<unsent, waiting, steering, lost, token, faults>>
<1> DEFINE n == NoBatch
<1>1. PICK stays \in BOOLEAN :
        /\ turn' = [n EXCEPT !.pending = 0,
                     !.corrected = @ \/ turn.answer.kind = "written",
                     !.at = IF stays THEN "top" ELSE "close",
                     !.stop = IF stays THEN @ ELSE "complete"]
        /\ WriteStep(<<Assistant(0)>>)
        /\ UNCHANGED faults
  BY DEF Finish
<1>2. turn \in Turn /\ n \in Turn
  BY NoBatchTurn DEF TypeOK
<1>3. n.id = turn.id /\ n.first = turn.first /\ n.asked = turn.asked /\ n.heard = turn.heard /\ n.spent = turn.spent
      /\ n.stop = turn.stop
  BY <1>2 DEF NoBatch, Turn
<1> HIDE DEF n
<1> QED
  BY <1>1, <1>2, <1>3 DEF Turn, Finish, At

\* A turn that closes stores one closing row exactly when a cap or the clock
\* ended it.
LEMMA CloseFields ==
  ASSUME TypeOK, Close, ~Broken
  PROVE  /\ turn.at = "close" /\ turn'.at = "ended" /\ turn'.stop = turn.stop
         /\ turn'.id = turn.id /\ turn'.first = turn.first /\ turn'.asked = turn.asked /\ turn'.heard = turn.heard
         /\ turn'.spent = turn.spent
         /\ \/ /\ turn.stop \in {"iterations", "timeout"} /\ turn'.pending = 0
               /\ WriteStep(<<Assistant(0)>>)
            \/ /\ turn.stop \notin {"iterations", "timeout"} /\ turn'.pending = turn.pending
               /\ rows' = rows
         /\ UNCHANGED <<unsent, waiting, steering, lost, token, faults>>
<1>1. turn \in Turn
  BY DEF TypeOK
<1>2. CASE /\ turn' = [turn EXCEPT !.at = "ended", !.pending = 0] /\ WriteStep(<<Assistant(0)>>)
           /\ turn.stop \in {"iterations", "timeout"} /\ UNCHANGED faults
  BY <1>1, <1>2 DEF Turn, Close, At
<1>3. CASE Goes("ended") /\ turn.stop \notin {"iterations", "timeout"} /\ UNCHANGED <<rows, faults>>
  BY <1>3, GoesFields DEF Same, Close, At
<1> QED
  BY <1>2, <1>3 DEF Close

-----------------------------------------------------------------------------
(* What a step does to the rows                                            *)

Grew(r) ==
  /\ rows' \in Seq(Row) /\ Len(rows') = Len(rows) + 1 /\ Len(rows) \in Nat
  /\ \A j \in 1 .. Len(rows) : rows'[j] = rows[j]
  /\ rows'[Len(rows) + 1] = r

GrewBatch(n) ==
  /\ rows' \in Seq(Row) /\ Len(rows') = Len(rows) + 1 + n /\ Len(rows) \in Nat
  /\ \A j \in 1 .. Len(rows) : rows'[j] = rows[j]
  /\ rows'[Len(rows) + 1] = Assistant(n)
  /\ \A k \in 1 .. n : rows'[Len(rows) + 1 + k] = Result(k)

CutAt(i) ==
  /\ i \in 1 .. Len(rows) /\ Len(rows) \in Nat
  /\ rows[i].role # "tool"
  /\ rows' \in Seq(Row) /\ Len(rows') = i - 1
  /\ \A j \in 1 .. i - 1 : rows'[j] = rows[j]

\* Rows are written by the turn in hand, one at a time or as a whole batch,
\* or cut at a row that is no result.
RowsStepIs ==
  \/ rows' = rows
  \/ \E i \in DOMAIN rows : Rewind(i) /\ CutAt(i)
  \/ /\ turn'.id = turn.id /\ turn'.at # "open"
     /\ \/ \E r \in Row : Grew(r) /\ r.of = turn.id /\ (r.role = "user" \/ r = Assistant(0))
        \/ \E n \in Nat : GrewBatch(n)

\* The rows a turn writes carry its own id.
LEMMA OwnRows ==
  ASSUME TypeOK
  PROVE  /\ Assistant(0) \in Row /\ Assistant(0).of = turn.id
         /\ \A m \in Messages, s \in BOOLEAN :
              User(m, s) \in Row /\ User(m, s).of = turn.id /\ User(m, s).role = "user"
              /\ User(m, s).message = m
BY DEF TypeOK, Turn, Assistant, User, Row

\* The rows change in three ways only: one row more, one whole batch more, or
\* the cut of a rewind.
LEMMA RowsStep ==
  ASSUME IInv, Next
  PROVE  RowsStepIs
<1>0. TypeOK /\ HistoryIsLegal /\ BatchInOrder /\ turn \in Turn /\ rows \in Seq(Row)
  BY DEF IInv, TypeOK
<1> USE DEF RowsStepIs
<1>1. ASSUME NEW i \in DOMAIN rows, Rewind(i) PROVE RowsStepIs
  <2>1. rows[i].role # "tool"
    BY <1>1 DEF Rewind
  <2> QED
    BY <1>0, <1>1, <2>1, RewindKeeps DEF CutAt
<1>2. CASE Open
  <2>1. CASE rows' = rows
    BY <2>1
  <2>2. CASE /\ WriteStep(<<User(turn.message, turn.again)>>)
             /\ turn' = [turn EXCEPT !.at = "top", !.first = Len(rows) + 1]
             /\ turn.message # None
    <3>1. turn.message \in Messages /\ turn.again \in BOOLEAN
      BY <1>0, <2>2 DEF Turn
    <3>2. User(turn.message, turn.again) \in Row /\ User(turn.message, turn.again).of = turn.id
          /\ User(turn.message, turn.again).role = "user"
      BY <1>0, <3>1, OwnRows
    <3>3. turn'.id = turn.id /\ turn'.at = "top"
      BY <1>0, <2>2 DEF Turn
    <3>4. Grew(User(turn.message, turn.again))
      BY <1>0, <2>2, <3>2, OneMoreRow DEF Grew
    <3> QED
      BY <3>2, <3>3, <3>4
  <2>3. CASE turn.message # None /\ WriteStep(<<User(turn.message, turn.again)>>) /\ Broken
    <3>1. turn.message \in Messages /\ turn.again \in BOOLEAN
      BY <1>0, <2>3 DEF Turn
    <3>2. User(turn.message, turn.again) \in Row /\ User(turn.message, turn.again).of = turn.id
          /\ User(turn.message, turn.again).role = "user"
      BY <1>0, <3>1, OwnRows
    <3>3. turn'.id = turn.id /\ turn'.at = "ended"
      BY <1>0, <2>3, BrokenTurn
    <3>4. Grew(User(turn.message, turn.again))
      BY <1>0, <2>3, <3>2, OneMoreRow DEF Grew
    <3> QED
      BY <3>2, <3>3, <3>4
  <2> QED
    BY <1>2, <2>1, <2>2, <2>3 DEF Open
<1>3. CASE Drain
  <2>1. CASE rows' = rows
    BY <2>1
  <2>2. CASE WriteStep(<<User(Head(steering), TRUE)>>) /\ Goes("pop")
    <3> DEFINE m == Head(steering)
    <3>1. m \in Messages
      BY <1>0, <1>3 DEF TypeOK, Drain
    <3>2. User(m, TRUE) \in Row /\ User(m, TRUE).of = turn.id /\ User(m, TRUE).role = "user"
      BY <1>0, <3>1, OwnRows
    <3>3. turn'.id = turn.id /\ turn'.at = "pop"
      BY <1>0, <2>2, GoesFields DEF Same
    <3>4. Grew(User(m, TRUE))
      BY <1>0, <2>2, <3>2, OneMoreRow DEF Grew
    <3> QED
      BY <3>2, <3>3, <3>4
  <2> QED
    BY <1>3, <2>1, <2>2 DEF Drain
<1>4. CASE Finish
  <2>1. CASE Broken
    BY <1>0, <1>4, <2>1, BrokenOrNot
  <2>2. CASE ~Broken
    <3>1. /\ WriteStep(<<Assistant(0)>>) /\ turn'.id = turn.id /\ turn'.at \in {"top", "close"}
      BY <1>0, <1>4, <2>2, FinishFields
    <3>2. Assistant(0) \in Row /\ Assistant(0).of = turn.id
      BY <1>0, OwnRows
    <3>3. Grew(Assistant(0))
      BY <1>0, <3>1, <3>2, OneMoreRow DEF Grew
    <3> QED
      BY <3>1, <3>2, <3>3
  <2> QED
    BY <2>1, <2>2
<1>5. CASE Close
  <2>1. CASE Broken
    BY <1>0, <1>5, <2>1, BrokenOrNot
  <2>2. CASE ~Broken
    <3>1. /\ WriteStep(<<Assistant(0)>>) \/ rows' = rows
          /\ turn'.id = turn.id /\ turn'.at = "ended"
      BY <1>0, <1>5, <2>2, CloseFields
    <3>2. Assistant(0) \in Row /\ Assistant(0).of = turn.id
      BY <1>0, OwnRows
    <3>3. Grew(Assistant(0)) \/ rows' = rows
      BY <1>0, <3>1, <3>2, OneMoreRow DEF Grew
    <3> QED
      BY <3>1, <3>2, <3>3
  <2> QED
    BY <2>1, <2>2
<1>6. CASE RunTools
  <2> DEFINE N == Len(Calls)
  <2>1. \/ rows' = rows
        \/ /\ GrewBatch(N) /\ N \in Nat /\ turn'.id = turn.id
           /\ turn'.at \in {"top", "close"}
    BY <1>0, <1>6, ToolsRows DEF GrewBatch
  <2> HIDE DEF N
  <2> QED
    BY <2>1
<1>7. ASSUME \/ \E m \in Messages : Start(m)
             \/ \E m \in Messages : Steer(m)
             \/ Stop \/ CloseQueue \/ Crash \/ Top \/ Pop \/ Request \/ StreamStops
             \/ \E c \in Completions : Reply(c)
             \/ RefuseRest \/ (\E allowed, denied : Dispatch(allowed, denied)) \/ Decide
             \/ (\E i : Land(i)) \/ (\E i : DelegationFails(i))
      PROVE  RowsStepIs
  <2>1. rows' = rows
    BY <1>7 DEF Start, Steer, Stop, CloseQueue, Crash, Top, Pop, Request, StreamStops, Reply,
                RefuseRest, Dispatch, Decide, Land, DelegationFails, BatchOnly
  <2> QED
    BY <2>1
<1> QED
  BY <1>1, <1>2, <1>3, <1>4, <1>5, <1>6, <1>7 DEF Next, LoopStep, OwnStep, AwaitedStep

\* A later turn has a higher number, and a turn that has yet to open is new.
LEMMA IdStep ==
  ASSUME IInv, Next
  PROVE  /\ turn.id \in Nat /\ turn'.id \in Nat /\ turn'.id >= turn.id
         /\ turn'.at = "open" => turn'.id > turn.id \/ (turn' = turn /\ rows' = rows)
<1>0. TypeOK /\ HistoryIsLegal /\ BatchInOrder /\ turn \in Turn /\ turn.id \in Nat
  BY DEF IInv, TypeOK, Turn
<1>1. CASE turn'.id = turn.id /\ turn'.at # "open"
  BY <1>0, <1>1
<1>2. CASE turn'.id = turn.id + 1
  BY <1>0, <1>2
<1>3. CASE turn' = turn /\ rows' = rows
  BY <1>0, <1>3
<1>4. \/ turn'.id = turn.id /\ turn'.at # "open"
      \/ turn'.id = turn.id + 1
      \/ turn' = turn /\ rows' = rows
  <2>1. ASSUME NEW m \in Messages, Start(m) PROVE turn'.id = turn.id + 1
    BY <1>0, <2>1, StartFields
  <2>2. ASSUME NEW i \in DOMAIN rows, Rewind(i) PROVE turn'.id = turn.id + 1
    BY <1>0, <2>2, RewindFields
  <2>3. ASSUME (\E m \in Messages : Steer(m)) \/ Stop PROVE turn' = turn /\ rows' = rows
    BY <2>3 DEF Steer, Stop
  <2>4. ASSUME CloseQueue \/ Crash PROVE turn'.id = turn.id /\ turn'.at # "open"
    BY <1>0, <2>4, DoneFields
  <2>5. ASSUME Broken PROVE turn'.id = turn.id /\ turn'.at # "open"
    BY <1>0, <2>5, BrokenTurn
  <2>6. ASSUME Open, ~Broken PROVE turn'.id = turn.id /\ turn'.at # "open"
    <3>1. CASE turn' = [turn EXCEPT !.at = "top"]
      BY <1>0, <3>1 DEF Turn
    <3>2. CASE turn' = [turn EXCEPT !.at = "top", !.first = Len(rows) + 1]
      BY <1>0, <3>2 DEF Turn
    <3> QED
      BY <2>6, <3>1, <3>2 DEF Open, Goes
  <2>7. ASSUME Top PROVE turn'.id = turn.id /\ turn'.at # "open"
    BY <1>0, <2>7, TopFields DEF Same
  <2>8. ASSUME Goes("pop") \/ Goes("drain") PROVE turn'.id = turn.id /\ turn'.at # "open"
    BY <1>0, <2>8, GoesFields DEF Same
  <2>9. ASSUME Request, ~Broken PROVE turn'.id = turn.id /\ turn'.at # "open"
    BY <1>0, <2>9 DEF Request, Turn
  <2>10. ASSUME StreamStops PROVE turn'.id = turn.id /\ turn'.at # "open"
    BY <1>0, <2>10 DEF StreamStops, Ends, Turn
  <2>11. ASSUME NEW c \in Completions, Reply(c) PROVE turn'.id = turn.id /\ turn'.at # "open"
    BY <1>0, <2>11, ReplyTurn
  <2>12. ASSUME Finish, ~Broken PROVE turn'.id = turn.id /\ turn'.at # "open"
    BY <1>0, <2>12, FinishFields
  <2>13. ASSUME RefuseRest \/ (\E a, d : Dispatch(a, d)) \/ Decide \/ (\E i \in turn.flying : Land(i))
         PROVE  turn'.id = turn.id /\ turn'.at # "open"
    BY <1>0, <2>13, BatchFields DEF Same
  <2>14. ASSUME RunTools PROVE turn'.id = turn.id /\ turn'.at # "open"
    BY <1>0, <2>14, <2>5, ToolsRows
  <2>15. ASSUME Close, ~Broken PROVE turn'.id = turn.id /\ turn'.at # "open"
    BY <1>0, <2>15, CloseFields
  <2>16. \/ \E m \in Messages : Start(m)
         \/ \E i \in DOMAIN rows : Rewind(i)
         \/ (\E m \in Messages : Steer(m)) \/ Stop \/ CloseQueue \/ Crash \/ Broken
         \/ (Open /\ ~Broken) \/ Top \/ Goes("pop") \/ Goes("drain") \/ (Request /\ ~Broken)
         \/ StreamStops \/ (\E c \in Completions : Reply(c)) \/ (Finish /\ ~Broken)
         \/ RefuseRest \/ (\E a, d : Dispatch(a, d)) \/ Decide \/ (\E i \in turn.flying : Land(i))
         \/ RunTools \/ (Close /\ ~Broken)
    <3>1. Drain => Goes("pop") \/ Broken
      BY DEF Drain
    <3>2. Pop => Goes("drain")
      BY DEF Pop
    <3>3. (\E i \in turn.flying : DelegationFails(i)) => Broken
      BY DEF DelegationFails
    <3> QED
      BY <3>1, <3>2, <3>3 DEF Next, LoopStep, OwnStep, AwaitedStep
  <2> QED
    BY <2>1, <2>2, <2>3, <2>4, <2>5, <2>6, <2>7, <2>8, <2>9, <2>10, <2>11, <2>12, <2>13, <2>14,
       <2>15, <2>16
<1> QED
  BY <1>1, <1>2, <1>3, <1>4

-----------------------------------------------------------------------------
(* The history stays legal                                                 *)

LEMMA LegalGrew ==
  ASSUME TypeOK, HistoryIsLegal, NEW r \in Row, Grew(r),
         r.role = "user" \/ r = Assistant(0)
  PROVE  HistoryIsLegal'
<1> DEFINE L == Len(rows)
<1>1. /\ L \in Nat /\ DOMAIN rows = 1 .. L /\ DOMAIN rows' = 1 .. L + 1
      /\ \A j \in 1 .. L : rows'[j] = rows[j]
      /\ rows'[L + 1] = r
      /\ \A j \in 1 .. L : rows[j] \in Row
  BY DEF Grew, TypeOK
<1>2. r.role # "tool" /\ (r.role = "assistant" => r.calls = 0)
  BY DEF Assistant
<1> HIDE DEF L
<1>3. ASSUME NEW i \in 1 .. L + 1, rows'[i].role = "assistant"
      PROVE  \A c \in 1 .. rows'[i].calls :
               i + c \in 1 .. L + 1 /\ rows'[i + c].role = "tool" /\ rows'[i + c].call = c
  <2>1. CASE i = L + 1
    BY <1>1, <1>2, <1>3, <2>1
  <2>2. CASE i \in 1 .. L
    <3>1. rows[i].role = "assistant" /\ rows'[i] = rows[i] /\ rows[i].calls \in Nat
      BY <1>1, <1>3, <2>2 DEF Row
    <3>3. ASSUME NEW c \in 1 .. rows[i].calls
          PROVE  i + c \in 1 .. L /\ rows[i + c].role = "tool" /\ rows[i + c].call = c
      BY <1>1, <2>2, <3>1 DEF HistoryIsLegal
    <3>4. 1 .. L \subseteq 1 .. L + 1
      BY <1>1
    <3> QED
      BY <1>1, <3>1, <3>3, <3>4
  <2> QED
    BY <2>1, <2>2, <1>1
<1>4. ASSUME NEW i \in 1 .. L + 1, rows'[i].role = "tool"
      PROVE  LET a == i - rows'[i].call
             IN  a \in 1 .. L + 1 /\ rows'[a].role = "assistant" /\ rows'[i].call <= rows'[a].calls
  <2>1. i \in 1 .. L
    BY <1>1, <1>2, <1>4
  <2>2. rows'[i] = rows[i] /\ rows[i].role = "tool"
    BY <1>1, <1>4, <2>1
  <2> DEFINE a == i - rows[i].call
  <2>3. a \in 1 .. L /\ rows[a].role = "assistant" /\ rows[i].call <= rows[a].calls
    BY <1>1, <2>1, <2>2 DEF HistoryIsLegal
  <2> HIDE DEF a
  <2>4. rows'[a] = rows[a] /\ a \in 1 .. L + 1
    BY <1>1, <2>3
  <2> QED
    BY <2>2, <2>3, <2>4 DEF a
<1> QED
  BY <1>1, <1>3, <1>4 DEF HistoryIsLegal

\* A whole batch after a legal history is a legal history.
LEMMA LegalBatch ==
  ASSUME TypeOK, HistoryIsLegal, NEW n \in Nat, GrewBatch(n)
  PROVE  HistoryIsLegal'
<1> DEFINE L == Len(rows)
           M == L + 1 + n
<1>0. n \in Nat
  OBVIOUS
<1>1. /\ L \in Nat /\ DOMAIN rows = 1 .. L /\ DOMAIN rows' = 1 .. M
      /\ \A j \in 1 .. L : rows'[j] = rows[j]
      /\ rows'[L + 1] = Assistant(n)
      /\ \A k \in 1 .. n : rows'[L + 1 + k] = Result(k)
      /\ \A j \in 1 .. L : rows[j] \in Row
  BY DEF GrewBatch, TypeOK
<1>2. /\ Assistant(n).role = "assistant" /\ Assistant(n).calls = n
      /\ \A k : Result(k).role = "tool" /\ Result(k).call = k
  BY DEF Assistant, Result
<1> HIDE DEF L
<1>3. ASSUME NEW i \in 1 .. M, i > L + 1
      PROVE  \E k \in 1 .. n : i = L + 1 + k
  <2>1. i - (L + 1) \in 1 .. n /\ i = L + 1 + (i - (L + 1))
    BY <1>0, <1>1, <1>3
  <2> QED
    BY <2>1
<1>4. \A i \in 1 .. M : i \in 1 .. L \/ i = L + 1 \/ i > L + 1
  BY <1>0, <1>1
<1>5. \A i \in 1 .. L : i \in 1 .. M
  BY <1>0, <1>1
<1>6. \A k \in 1 .. n : L + 1 + k \in 1 .. M
  BY <1>0, <1>1
<1>7. L + 1 \in 1 .. M
  BY <1>0, <1>1
<1> HIDE DEF M
<1>8. ASSUME NEW i \in 1 .. M, rows'[i].role = "assistant"
      PROVE  \A c \in 1 .. rows'[i].calls :
               i + c \in 1 .. M /\ rows'[i + c].role = "tool" /\ rows'[i + c].call = c
  <2>1. CASE i = L + 1
    BY <1>0, <1>1, <1>2, <1>6, <2>1
  <2>2. CASE i \in 1 .. L
    <3>1. rows[i].role = "assistant" /\ rows'[i] = rows[i] /\ rows[i].calls \in Nat
      BY <1>1, <1>8, <2>2 DEF Row
    <3>3. ASSUME NEW c \in 1 .. rows[i].calls
          PROVE  i + c \in 1 .. L /\ rows[i + c].role = "tool" /\ rows[i + c].call = c
      BY <1>1, <2>2, <3>1 DEF HistoryIsLegal
    <3> QED
      BY <1>1, <1>5, <3>1, <3>3
  <2>3. CASE i > L + 1
    <3>1. PICK k \in 1 .. n : i = L + 1 + k
      BY <1>3, <2>3
    <3>2. rows'[i] = Result(k)
      BY <1>1, <3>1
    <3> QED
      BY <1>2, <1>8, <3>2
  <2> QED
    BY <2>1, <2>2, <2>3, <1>4
<1>9. ASSUME NEW i \in 1 .. M, rows'[i].role = "tool"
      PROVE  LET a == i - rows'[i].call
             IN  a \in 1 .. M /\ rows'[a].role = "assistant" /\ rows'[i].call <= rows'[a].calls
  <2>1. CASE i = L + 1
    BY <1>1, <1>2, <1>9, <2>1
  <2>2. CASE i \in 1 .. L
    <3>1. rows'[i] = rows[i] /\ rows[i].role = "tool"
      BY <1>1, <1>9, <2>2
    <3> DEFINE a == i - rows[i].call
    <3>2. a \in 1 .. L /\ rows[a].role = "assistant" /\ rows[i].call <= rows[a].calls
      BY <1>1, <2>2, <3>1 DEF HistoryIsLegal
    <3> HIDE DEF a
    <3>3. rows'[a] = rows[a] /\ a \in 1 .. M
      BY <1>1, <1>5, <3>2
    <3> QED
      BY <3>1, <3>2, <3>3 DEF a
  <2>3. CASE i > L + 1
    <3>1. PICK k \in 1 .. n : i = L + 1 + k
      BY <1>3, <2>3
    <3>2. rows'[i] = Result(k)
      BY <1>1, <3>1
    <3>3. rows'[i].call = k /\ i - k = L + 1 /\ k <= n
      BY <1>0, <1>1, <1>2, <3>1, <3>2
    <3> QED
      BY <1>1, <1>2, <1>7, <3>3
  <2> QED
    BY <2>1, <2>2, <2>3, <1>4
<1> QED
  BY <1>1, <1>8, <1>9 DEF HistoryIsLegal

\* What a rewind keeps of a legal history is legal: it drops no result of a
\* call it keeps.
LEMMA LegalCut ==
  ASSUME TypeOK, HistoryIsLegal, NEW i \in DOMAIN rows, CutAt(i)
  PROVE  HistoryIsLegal'
<1> DEFINE L == Len(rows)
<1>1. /\ L \in Nat /\ DOMAIN rows = 1 .. L /\ i \in 1 .. L /\ DOMAIN rows' = 1 .. i - 1
      /\ \A j \in 1 .. i - 1 : rows'[j] = rows[j]
      /\ \A j \in 1 .. L : rows[j] \in Row
      /\ rows[i].role # "tool"
  BY DEF CutAt, TypeOK
<1>2. \A j \in 1 .. i - 1 : j \in 1 .. L
  BY <1>1
<1> HIDE DEF L
<1>3. ASSUME NEW j \in 1 .. i - 1, rows[j].role = "assistant"
      PROVE  \A c \in 1 .. rows[j].calls :
               j + c \in 1 .. i - 1 /\ rows[j + c].role = "tool" /\ rows[j + c].call = c
  <2>1. rows[j].calls \in Nat /\ j \in 1 .. L
    BY <1>1, <1>2, <1>3 DEF Row
  <2>2. ASSUME NEW c \in 1 .. rows[j].calls
        PROVE  j + c \in 1 .. L /\ rows[j + c].role = "tool" /\ rows[j + c].call = c
    BY <1>1, <1>3, <2>1 DEF HistoryIsLegal
  <2>3. i - j \notin 1 .. rows[j].calls
    <3>1. j + (i - j) = i
      BY <1>1, <2>1
    <3> QED
      BY <1>1, <2>2, <3>1
  <2>4. ASSUME NEW c \in 1 .. rows[j].calls PROVE j + c \in 1 .. i - 1
    BY <1>1, <2>1, <2>3
  <2> QED
    BY <2>2, <2>4
<1>4. ASSUME NEW j \in 1 .. i - 1, rows[j].role = "tool"
      PROVE  LET a == j - rows[j].call
             IN  a \in 1 .. i - 1 /\ rows[a].role = "assistant" /\ rows[j].call <= rows[a].calls
  <2>1. rows[j].call \in Nat \ {0} /\ j \in 1 .. L
    BY <1>1, <1>2, <1>4 DEF Row
  <2>2. /\ j - rows[j].call \in 1 .. L /\ rows[j - rows[j].call].role = "assistant"
        /\ rows[j].call <= rows[j - rows[j].call].calls
    BY <1>1, <1>4, <2>1 DEF HistoryIsLegal
  <2>3. j - rows[j].call \in 1 .. i - 1
    BY <1>1, <2>1, <2>2
  <2> QED
    BY <2>2, <2>3
<1> QED
  BY <1>1, <1>3, <1>4 DEF HistoryIsLegal

\* No step leaves a call without its result, or a result without its call.
LEMMA LegalStep ==
  ASSUME IInv, Next
  PROVE  HistoryIsLegal'
<1>1. TypeOK /\ HistoryIsLegal
  BY DEF IInv
<1>2. CASE rows' = rows
  BY <1>1, <1>2 DEF HistoryIsLegal
<1> QED
  BY <1>1, <1>2, RowsStep, LegalGrew, LegalBatch, LegalCut DEF RowsStepIs

\* No step writes a row of a turn that has not begun.
LEMMA RowsOfTurnsStep ==
  ASSUME IInv, Next
  PROVE  RowsOfTurns'
<1>1. TypeOK /\ RowsOfTurns /\ HistoryIsLegal
  BY DEF IInv
<1>2. /\ turn.id \in Nat /\ turn'.id \in Nat /\ turn'.id >= turn.id
      /\ turn'.at = "open" => turn'.id > turn.id \/ (turn' = turn /\ rows' = rows)
  BY IdStep
<1>3. \A i \in DOMAIN rows : rows[i].of <= turn.id /\ rows[i].of \in Nat
  BY <1>1 DEF RowsOfTurns, TypeOK, Row
<1>4. ASSUME \A i \in DOMAIN rows' : \/ i \in DOMAIN rows /\ rows'[i] = rows[i]
                                     \/ rows'[i].of = turn.id /\ turn'.id = turn.id /\ turn'.at # "open"
      PROVE  RowsOfTurns'
  BY <1>1, <1>2, <1>3, <1>4 DEF RowsOfTurns, At
<1>5. CASE rows' = rows
  BY <1>4, <1>5
<1>6. ASSUME NEW i \in DOMAIN rows, CutAt(i) PROVE RowsOfTurns'
  <2>1. DOMAIN rows = 1 .. Len(rows) /\ DOMAIN rows' = 1 .. i - 1
    BY <1>1, <1>6 DEF TypeOK, CutAt
  <2> QED
    BY <1>4, <1>6, <2>1 DEF CutAt
<1>7. ASSUME NEW r \in Row, Grew(r), r.of = turn.id, turn'.id = turn.id, turn'.at # "open"
      PROVE  RowsOfTurns'
  <2>1. DOMAIN rows = 1 .. Len(rows) /\ DOMAIN rows' = 1 .. Len(rows) + 1 /\ Len(rows) \in Nat
    BY <1>1, <1>7 DEF TypeOK, Grew
  <2>2. \A j \in 1 .. Len(rows) + 1 : j \in 1 .. Len(rows) \/ j = Len(rows) + 1
    BY <2>1
  <2> QED
    BY <1>4, <1>7, <2>1, <2>2 DEF Grew
<1>8. ASSUME NEW n \in Nat, GrewBatch(n), turn'.id = turn.id, turn'.at # "open"
      PROVE  RowsOfTurns'
  <2>1. DOMAIN rows = 1 .. Len(rows) /\ DOMAIN rows' = 1 .. Len(rows) + 1 + n /\ Len(rows) \in Nat
    BY <1>1, <1>8 DEF TypeOK, GrewBatch
  <2>2. n \in Nat
    BY LoopAssumption
  <2>3. \A j \in 1 .. Len(rows) + 1 + n :
          j \in 1 .. Len(rows) \/ j = Len(rows) + 1 \/ \E k \in 1 .. n : j = Len(rows) + 1 + k
    <3> TAKE j \in 1 .. Len(rows) + 1 + n
    <3> SUFFICES ASSUME j > Len(rows) + 1 PROVE \E k \in 1 .. n : j = Len(rows) + 1 + k
      BY <2>1, <2>2
    <3>1. j - (Len(rows) + 1) \in 1 .. n /\ j = Len(rows) + 1 + (j - (Len(rows) + 1))
      BY <2>1, <2>2
    <3> QED
      BY <3>1
  <2>4. Assistant(n).of = turn.id /\ \A k : Result(k).of = turn.id
    BY DEF Assistant, Result
  <2>5. ASSUME NEW i \in DOMAIN rows'
        PROVE  (i \in DOMAIN rows /\ rows'[i] = rows[i]) \/ rows'[i].of = turn.id
    <3>1. CASE i \in 1 .. Len(rows)
      BY <1>8, <2>1, <3>1 DEF GrewBatch
    <3>2. CASE i = Len(rows) + 1
      BY <1>8, <2>4, <3>2 DEF GrewBatch
    <3>3. ASSUME NEW k \in 1 .. n, i = Len(rows) + 1 + k PROVE rows'[i].of = turn.id
      BY <1>8, <2>4, <3>3 DEF GrewBatch
    <3> QED
      BY <2>1, <2>3, <3>1, <3>2, <3>3
  <2> QED
    BY <1>4, <1>8, <2>5
<1> QED
  BY <1>5, <1>6, <1>7, <1>8, RowsStep DEF RowsStepIs

-----------------------------------------------------------------------------
(* What a step does to the turn                                            *)

\* A turn begins: a message in hand, or a question that is in history.
Begins ==
  /\ turn.at = "idle" /\ turn'.at = "open" /\ turn'.id = turn.id + 1
  /\ turn'.stop = "none" /\ turn'.spent = 0 /\ turn'.pending = 0
  /\ turn'.message = None => turn'.first \in DOMAIN rows' /\ IsUser(rows'[turn'.first])
  /\ rows' \in Seq(Row) /\ \A j \in DOMAIN rows' : j \in DOMAIN rows /\ rows'[j] = rows[j]

\* It opens: its question is its first row.
Opens ==
  /\ turn.at = "open" /\ turn'.at = "top" /\ turn'.id = turn.id
  /\ turn'.asked = turn.asked /\ turn'.heard = turn.heard /\ turn'.stop = turn.stop
  /\ turn'.spent = turn.spent /\ turn'.pending = turn.pending
  /\ \/ turn.message = None /\ turn'.first = turn.first /\ rows' = rows
     \/ /\ turn.message \in Messages /\ turn'.first = Len(rows) + 1
        /\ \E s \in BOOLEAN : Grew(User(turn.message, s))

Steered ==
  /\ turn.at = "drain" /\ turn'.at = "pop" /\ Same /\ turn'.stop = turn.stop
  /\ steering # <<>> /\ steering' = steering /\ Head(steering) \in Messages
  /\ Grew(User(Head(steering), TRUE))

Asks ==
  /\ turn.at = "drain" /\ turn'.at = "stream" /\ rows' = rows
  /\ turn'.id = turn.id /\ turn'.first = turn.first /\ turn'.stop = turn.stop
  /\ turn'.spent = turn.spent /\ turn'.pending = turn.pending
  /\ turn'.asked = Len(rows) /\ turn'.sent = WindowStart(turn.first)

Replies ==
  /\ turn.at = "stream" /\ turn'.at \in {"batch", "top", "answer"} /\ rows' = rows
  /\ turn'.id = turn.id /\ turn'.first = turn.first /\ turn'.stop = turn.stop
  /\ turn'.asked = turn.asked /\ turn'.heard = turn.asked
  /\ turn'.spent = turn.spent + 1 /\ turn'.pending = turn.pending + 1

Quiet ==
  /\ rows' = rows /\ Same /\ turn.at \notin {"idle", "open", "ended"}
  /\ turn'.at \notin {"idle", "open", "pop", "stream"}
  /\ turn'.at = "drain" \/ turn.at \notin {"drain", "pop"}
  /\ turn.at = "stream" => turn'.at = "close" /\ turn'.stop \in {"aborted", "error"}
  /\ turn.at = "close" => turn'.at = "ended"
  /\ turn'.at = "close" => turn'.stop \notin {"broken", "complete"}
  /\ turn'.at # "close" => turn'.stop = turn.stop
  /\ turn'.at = "ended" => turn.at = "close" /\ turn.stop \notin {"iterations", "timeout"}

Writes ==
  /\ turn.at \in {"answer", "batch", "write", "close"} /\ turn'.at \in {"top", "close", "ended"}
  /\ turn'.id = turn.id /\ turn'.first = turn.first /\ turn'.asked = turn.asked /\ turn'.heard = turn.heard
  /\ turn'.spent = turn.spent /\ turn'.pending = 0
  /\ turn'.stop \in {turn.stop, "complete", "aborted"}
  /\ turn.at = "close" => turn.stop \in {"iterations", "timeout"}
  /\ Grew(Assistant(0)) \/ \E n \in Nat : GrewBatch(n)

\* A turn whose question was stored may break where its session is named.
BreaksLate ==
  turn.at = "open" /\ turn.message \in Messages /\ \E s \in BOOLEAN : Grew(User(turn.message, s))

Breaks ==
  /\ turn'.at = "ended" /\ turn'.stop = "broken" /\ turn'.id = turn.id
  /\ rows' = rows \/ BreaksLate

Leaves == turn'.at = "idle" /\ turn'.stop = "none" /\ rows' = rows

Waits == turn' = turn /\ rows' = rows /\ (Stop \/ \E m \in Messages : Steer(m))

TurnStepIs ==
  \/ Begins \/ Opens \/ Steered \/ Asks \/ Replies \/ Quiet \/ Writes \/ Breaks \/ Leaves \/ Waits

ActionsAre ==
  \/ \E m \in Messages : Start(m)
  \/ \E i \in DOMAIN rows : Rewind(i)
  \/ (\E m \in Messages : Steer(m)) \/ Stop \/ CloseQueue \/ Crash \/ Broken
  \/ (Open /\ ~Broken) \/ Top \/ (Drain /\ ~Broken) \/ Pop \/ (Request /\ ~Broken)
  \/ StreamStops \/ (\E c \in Completions : Reply(c)) \/ (Finish /\ ~Broken)
  \/ RefuseRest \/ (\E a, d : Dispatch(a, d)) \/ Decide \/ (\E i \in turn.flying : Land(i))
  \/ (RunTools /\ ~Broken) \/ (Close /\ ~Broken)

\* The cases the proofs below go through.
LEMMA Actions == Next => ActionsAre
<1>1. (\E i \in turn.flying : DelegationFails(i)) => Broken
  BY DEF DelegationFails
<1> QED
  BY <1>1 DEF Next, LoopStep, OwnStep, AwaitedStep, ActionsAre

\* A write that failed left no row; what was stored before a turn broke is its
\* question.
LEMMA BrokenRows ==
  ASSUME TypeOK, HistoryIsLegal, BatchInOrder, Next, Broken
  PROVE  rows' = rows \/ BreaksLate
<1>1. turn \in Turn /\ turn'.at = "ended" /\ turn'.stop = "broken"
  BY BrokenTurn DEF TypeOK
<1>2. \A m \in Messages : ~Start(m)
  BY <1>1, StartFields
<1>3. \A i \in DOMAIN rows : ~Rewind(i)
  BY <1>1, RewindFields
<1>4. ASSUME Open PROVE rows' = rows \/ BreaksLate
  <2>1. turn' # [turn EXCEPT !.at = "top", !.first = Len(rows) + 1]
    BY <1>1 DEF Turn
  <2>2. ASSUME turn.message # None, WriteStep(<<User(turn.message, turn.again)>>) PROVE BreaksLate
    <3>1. turn.message \in Messages /\ turn.again \in BOOLEAN /\ turn.at = "open"
      BY <1>1, <1>4, <2>2 DEF Turn, Open, At
    <3>2. User(turn.message, turn.again) \in Row
      BY <3>1, OwnRows
    <3>3. Grew(User(turn.message, turn.again))
      BY <2>2, <3>2, OneMoreRow DEF Grew, TypeOK
    <3> QED
      BY <3>1, <3>3 DEF BreaksLate
  <2> QED
    BY <1>4, <2>1, <2>2 DEF Open
<1>5. ASSUME Drain PROVE rows' = rows
  <2>1. ~Goes("pop")
    BY <1>1, GoesFields DEF TypeOK, Goes, Turn
  <2> QED
    BY <1>5, <2>1 DEF Drain
<1>6. ASSUME Finish \/ Close PROVE rows' = rows
  BY <1>6, BrokenOrNot
<1>7. ASSUME RunTools PROVE rows' = rows
  BY <1>1, <1>7, ToolsRows
<1>8. ASSUME RefuseRest \/ (\E a, d : Dispatch(a, d)) \/ Decide \/ (\E i \in turn.flying : Land(i))
      PROVE  rows' = rows
  BY <1>8, BatchFields
<1>9. ASSUME \/ (\E m \in Messages : Steer(m)) \/ Stop \/ CloseQueue \/ Crash \/ Top \/ Pop \/ Request
             \/ StreamStops \/ (\E c \in Completions : Reply(c))
             \/ (\E i \in turn.flying : DelegationFails(i))
      PROVE  rows' = rows
  BY <1>9 DEF Steer, Stop, CloseQueue, Crash, Top, Pop, Request, StreamStops, Reply, DelegationFails
<1> QED
  BY <1>2, <1>3, <1>4, <1>5, <1>6, <1>7, <1>8, <1>9 DEF Next, LoopStep, OwnStep, AwaitedStep

\* What each step does to the turn and to the rows at once: the proofs of the
\* invariants are about these cases, not about the actions one by one.
LEMMA TurnStep ==
  ASSUME IInv, Next
  PROVE  TurnStepIs
<1>0. TypeOK /\ HistoryIsLegal /\ BatchInOrder /\ turn \in Turn
  BY DEF IInv, TypeOK
<1> USE DEF TurnStepIs
<1>1. ASSUME NEW m \in Messages, Start(m) PROVE Begins
  <2>1. m # None
    BY Names
  <2> QED
    BY <1>0, <1>1, <2>1, StartFields DEF Begins, TypeOK
<1>2. ASSUME NEW i \in DOMAIN rows, Rewind(i) PROVE Begins
  <2>1. /\ rows' \in Seq(Row) /\ Len(rows') = i - 1 /\ i \in 1 .. Len(rows)
        /\ \A j \in 1 .. i - 1 : rows'[j] = rows[j]
    BY <1>0, <1>2, RewindKeeps
  <2>2. DOMAIN rows' = 1 .. i - 1 /\ DOMAIN rows = 1 .. Len(rows) /\ Len(rows) \in Nat
    BY <1>0, <2>1 DEF TypeOK
  <2>3. 1 .. i - 1 \subseteq 1 .. Len(rows)
    BY <2>1, <2>2
  <2> QED
    BY <1>0, <1>2, <2>1, <2>2, <2>3, RewindFields DEF Begins
<1>3. ASSUME (\E m \in Messages : Steer(m)) \/ Stop PROVE Waits
  BY <1>3 DEF Steer, Stop, Waits
<1>4. ASSUME CloseQueue \/ Crash PROVE Leaves
  BY <1>0, <1>4, DoneFields DEF Leaves
<1>5. ASSUME Broken PROVE Breaks
  <2>1. turn'.at = "ended" /\ turn'.stop = "broken" /\ turn'.id = turn.id
    BY <1>0, <1>5, BrokenTurn
  <2>2. rows' = rows \/ BreaksLate
    BY <1>0, <1>5, BrokenRows
  <2> QED
    BY <2>1, <2>2 DEF Breaks
<1>6. ASSUME Open, ~Broken PROVE Opens
  <2>1. CASE turn.message = None /\ turn' = [turn EXCEPT !.at = "top"] /\ rows' = rows
    BY <1>0, <1>6, <2>1 DEF Turn, Opens, Open, At
  <2>2. CASE /\ turn.message # None /\ WriteStep(<<User(turn.message, turn.again)>>)
             /\ turn' = [turn EXCEPT !.at = "top", !.first = Len(rows) + 1]
    <3>1. turn.message \in Messages /\ turn.again \in BOOLEAN
      BY <1>0, <2>2 DEF Turn
    <3>2. Grew(User(turn.message, turn.again))
      <4>1. User(turn.message, turn.again) \in Row
        BY <1>0, <3>1, OwnRows
      <4> QED
        BY <1>0, <2>2, <4>1, OneMoreRow DEF Grew, TypeOK
    <3>3. /\ turn'.at = "top" /\ turn'.id = turn.id /\ turn'.asked = turn.asked /\ turn'.heard = turn.heard
          /\ turn'.stop = turn.stop /\ turn'.spent = turn.spent /\ turn'.pending = turn.pending
          /\ turn'.first = Len(rows) + 1
      BY <1>0, <2>2 DEF Turn
    <3> QED
      BY <1>6, <3>1, <3>2, <3>3 DEF Opens, Open, At
  <2> QED
    BY <1>6, <2>1, <2>2 DEF Open, Goes
<1>7. ASSUME Top PROVE Quiet
  <2>1. turn.at = "top" /\ Same /\ rows' = rows
        /\ \/ turn'.at = "close" /\ turn'.stop \notin {"broken", "complete"}
           \/ turn'.at = "drain" /\ turn'.stop = turn.stop
    BY <1>0, <1>7, TopFields
  <2> QED
    BY <2>1 DEF Quiet
<1>8. ASSUME Drain, ~Broken PROVE Steered
  <2>1. Goes("pop") /\ WriteStep(<<User(Head(steering), TRUE)>>) /\ steering # <<>>
        /\ steering' = steering /\ turn.at = "drain"
    BY <1>8 DEF Drain, At
  <2>2. Head(steering) \in Messages
    BY <1>0, <2>1 DEF TypeOK
  <2>3. User(Head(steering), TRUE) \in Row
    BY <1>0, <2>2, OwnRows
  <2>4. Grew(User(Head(steering), TRUE))
    BY <1>0, <2>1, <2>3, OneMoreRow DEF Grew, TypeOK
  <2> QED
    BY <1>0, <2>1, <2>2, <2>4, GoesFields DEF Steered
<1>9. ASSUME Pop PROVE Quiet
  <2>1. Goes("drain") /\ rows' = rows /\ turn.at = "pop"
    BY <1>9 DEF Pop, At
  <2> QED
    BY <1>0, <2>1, GoesFields DEF Quiet
<1>10. ASSUME Request, ~Broken PROVE Asks
  BY <1>0, <1>10 DEF Request, At, Turn, Asks
<1>11. ASSUME StreamStops PROVE Quiet
  <2>1. turn.at = "stream" /\ rows' = rows
        /\ \E stop \in {"aborted", "error"} : turn' = [turn EXCEPT !.at = "close", !.stop = stop]
    BY <1>11 DEF StreamStops, At, Ends
  <2> QED
    BY <1>0, <2>1 DEF Quiet, Same, Turn
<1>12. ASSUME NEW c \in Completions, Reply(c) PROVE Replies
  <2>1. turn.at = "stream" /\ rows' = rows
    BY <1>12 DEF Reply, At
  <2> QED
    BY <1>0, <1>12, <2>1, ReplyTurn DEF Replies
<1>13. ASSUME Finish, ~Broken PROVE Writes
  <2>1. Assistant(0) \in Row
    BY <1>0, OwnRows
  <2>2. Grew(Assistant(0))
    BY <1>0, <1>13, <2>1, FinishFields, OneMoreRow DEF Grew, TypeOK
  <2> QED
    BY <1>0, <1>13, <2>2, FinishFields DEF Writes
<1>14. ASSUME RefuseRest \/ (\E a, d : Dispatch(a, d)) \/ Decide \/ (\E i \in turn.flying : Land(i))
       PROVE  Quiet
  <2>1. /\ turn.at \in {"batch", "asking"} /\ turn'.at \in {"batch", "asking", "write"}
        /\ Same /\ turn'.stop = turn.stop /\ rows' = rows
    BY <1>0, <1>14, BatchFields
  <2> QED
    BY <2>1 DEF Quiet
<1>15. ASSUME RunTools, ~Broken PROVE Writes
  <2> DEFINE N == Len(Calls)
  <2>1. /\ GrewBatch(N) /\ N \in Nat
        /\ turn.at \in {"batch", "write"} /\ turn'.at \in {"top", "close"} /\ turn'.pending = 0
        /\ turn'.id = turn.id /\ turn'.first = turn.first /\ turn'.asked = turn.asked /\ turn'.heard = turn.heard
        /\ turn'.spent = turn.spent /\ turn'.stop \in {turn.stop, "aborted"}
    BY <1>0, <1>15, ToolsRows DEF GrewBatch
  <2> HIDE DEF N
  <2> QED
    BY <2>1 DEF Writes
<1>16. ASSUME Close, ~Broken PROVE Quiet \/ Writes
  <2>1. CASE WriteStep(<<Assistant(0)>>) /\ turn'.pending = 0
    <3>1. Assistant(0) \in Row
      BY <1>0, OwnRows
    <3>2. Grew(Assistant(0))
      BY <1>0, <2>1, <3>1, OneMoreRow DEF Grew, TypeOK
    <3>3. rows' # rows
      <4>1. Len(rows') = Len(rows) + 1 /\ Len(rows) \in Nat
        BY <1>0, <3>2 DEF Grew, TypeOK
      <4> QED
        BY <4>1
    <3>4. turn.stop \in {"iterations", "timeout"}
      BY <1>0, <1>16, <3>3, CloseFields
    <3> QED
      BY <1>0, <1>16, <2>1, <3>2, <3>4, CloseFields DEF Writes
  <2>2. CASE /\ turn.stop \notin {"iterations", "timeout"} /\ turn'.pending = turn.pending
             /\ rows' = rows
    BY <1>0, <1>16, <2>2, CloseFields DEF Quiet, Same
  <2> QED
    BY <1>0, <1>16, <2>1, <2>2, CloseFields
<1> QED
  BY <1>1, <1>2, <1>3, <1>4, <1>5, <1>6, <1>7, <1>8, <1>9, <1>10, <1>11, <1>12, <1>13, <1>14,
     <1>15, <1>16, Actions DEF ActionsAre

-----------------------------------------------------------------------------
(* Questions, steers and requests                                          *)

KeepsRows == \A j \in DOMAIN rows : j \in DOMAIN rows' /\ rows'[j] = rows[j]

\* Only a rewind takes rows away.
LEMMA Keeps ==
  ASSUME TypeOK, \/ rows' = rows \/ (\E r : Grew(r)) \/ (\E n \in Nat : GrewBatch(n))
  PROVE  KeepsRows
<1>1. Len(rows) \in Nat /\ DOMAIN rows = 1 .. Len(rows)
  BY DEF TypeOK
<1>2. CASE rows' = rows
  BY <1>2 DEF KeepsRows
<1>3. ASSUME NEW r, Grew(r) PROVE KeepsRows
  <2>1. DOMAIN rows' = 1 .. Len(rows) + 1
    BY <1>3 DEF Grew
  <2> QED
    BY <1>1, <1>3, <2>1 DEF Grew, KeepsRows
<1>4. ASSUME NEW n \in Nat, GrewBatch(n) PROVE KeepsRows
  <2>1. DOMAIN rows' = 1 .. Len(rows) + 1 + n /\ n \in Nat
    BY <1>4, LoopAssumption DEF GrewBatch
  <2>2. 1 .. Len(rows) \subseteq 1 .. Len(rows) + 1 + n
    BY <1>1, <2>1
  <2> QED
    BY <1>1, <1>4, <2>1, <2>2 DEF GrewBatch, KeepsRows
<1> QED
  BY <1>2, <1>3, <1>4

\* The question a turn answers stays among the rows until its turn is over.
LEMMA QuestionStep ==
  ASSUME IInv, Next
  PROVE  QuestionIsStored'
<1>1. TypeOK /\ QuestionIsStored
  BY DEF IInv
<1>2. CASE Begins
  BY <1>2 DEF Begins, QuestionIsStored, At
<1>3. CASE Opens
  <2>1. CASE turn.message = None /\ turn'.first = turn.first /\ rows' = rows
    BY <1>1, <1>3, <2>1 DEF Opens, QuestionIsStored, At
  <2>2. ASSUME turn'.first = Len(rows) + 1, NEW m \in Messages, NEW s \in BOOLEAN, Grew(User(m, s))
        PROVE  QuestionIsStored'
    <3>1. Len(rows) + 1 \in DOMAIN rows' /\ rows'[Len(rows) + 1] = User(m, s)
      BY <2>2 DEF Grew
    <3>2. IsUser(User(m, s))
      BY DEF User, IsUser
    <3>3. turn'.at = "top"
      BY <1>3 DEF Opens
    <3> QED
      BY <2>2, <3>1, <3>2, <3>3 DEF QuestionIsStored, At, IsUser
  <2> QED
    BY <1>3, <2>1, <2>2 DEF Opens
<1>4. CASE Steered \/ Asks \/ Replies \/ Quiet \/ Writes
  <2>1. KeepsRows
    BY <1>1, <1>4, Keeps DEF Steered, Asks, Replies, Quiet, Writes
  <2>2. turn.at \notin {"idle", "open", "ended"} /\ turn'.first = turn.first /\ turn'.at # "open"
    BY <1>4 DEF Steered, Asks, Replies, Quiet, Writes, Same
  <2> QED
    BY <1>1, <2>1, <2>2 DEF QuestionIsStored, KeepsRows, At, IsUser
<1>5. CASE Breaks \/ Leaves
  BY <1>5 DEF Breaks, Leaves, QuestionIsStored, At
<1>6. CASE Waits
  BY <1>1, <1>6 DEF Waits, QuestionIsStored, At
<1> QED
  BY <1>2, <1>3, <1>4, <1>5, <1>6, TurnStep DEF TurnStepIs

\* A request is built of every row, a broken turn has ended, and only a turn
\* with an answer has figures.
LEMMA WholeStep ==
  ASSUME IInv, Next
  PROVE  RequestIsWhole' /\ BrokenEnds' /\ AnsweredHasFigures'
<1>1. RequestIsWhole /\ BrokenEnds /\ AnsweredHasFigures
  BY DEF IInv
<1> USE DEF RequestIsWhole, BrokenEnds, AnsweredHasFigures, At
<1>2. CASE Begins \/ Breaks \/ Leaves
  BY <1>2 DEF Begins, Breaks, Leaves
<1>3. CASE Opens \/ Steered \/ Replies
  BY <1>1, <1>3 DEF Opens, Steered, Replies
<1>4. CASE Asks
  BY <1>1, <1>4 DEF Asks
<1>5. CASE Quiet
  BY <1>1, <1>5 DEF Quiet, Same
<1>6. CASE Writes
  BY <1>1, <1>6 DEF Writes
<1>7. CASE Waits
  BY <1>1, <1>7 DEF Waits
<1> QED
  BY <1>2, <1>3, <1>4, <1>5, <1>6, <1>7, TurnStep DEF TurnStepIs

\* The steer a turn takes off its queue is the one it has just written.
LEMMA PoppedStep ==
  ASSUME IInv, Next
  PROVE  PoppedIsWritten'
<1>1. TypeOK /\ PoppedIsWritten
  BY DEF IInv
<1>2. CASE Steered
  <2> DEFINE m == Head(steering)
             L == Len(rows)
  <2>1. Grew(User(m, TRUE)) /\ steering # <<>> /\ steering' = steering
    BY <1>2 DEF Steered
  <2>2. L + 1 \in DOMAIN rows' /\ rows'[L + 1] = User(m, TRUE)
    BY <2>1 DEF Grew
  <2>3. IsUser(rows'[L + 1]) /\ rows'[L + 1].message = m
    BY <2>2 DEF IsUser, User
  <2>4. m \in Written'
    BY <2>2, <2>3 DEF Written
  <2> QED
    BY <2>1, <2>4 DEF PoppedIsWritten
<1>3. CASE Waits
  <2>1. steering' = steering \/ \E m \in Messages : steering' = Append(steering, m)
    BY <1>3 DEF Waits, Steer, Stop
  <2>2. ASSUME steering # <<>> PROVE steering' # <<>> /\ Head(steering') = Head(steering)
    BY <1>1, <2>1, <2>2 DEF TypeOK
  <2>3. Written' = Written /\ At("pop")' = At("pop")
    BY <1>3 DEF Waits, Written, At
  <2> QED
    BY <1>1, <2>2, <2>3 DEF PoppedIsWritten
<1>4. CASE Begins \/ Opens \/ Asks \/ Replies \/ Quiet \/ Writes \/ Breaks \/ Leaves
  BY <1>4 DEF Begins, Opens, Asks, Replies, Quiet, Writes, Breaks, Leaves, PoppedIsWritten, At
<1> QED
  BY <1>2, <1>3, <1>4, TurnStep DEF TurnStepIs

\* The rows that a step adds, but for a question and a steer, are no user's.
LEMMA SteersHeardStep ==
  ASSUME IInv, Next
  PROVE  SteersHeard' /\ SteersAreAnswered'
<1>0. SteersHeard' => SteersAreAnswered'
  BY DEF SteersHeard, SteersBehind, SteersAreAnswered, At, IsUser
<1> SUFFICES SteersHeard'
  BY <1>0
<1>1. TypeOK /\ SteersHeard /\ RowsOfTurns /\ BrokenEnds /\ RequestIsWhole
  BY DEF IInv
<1>2. CASE Begins \/ Steered \/ Asks \/ Breaks \/ Leaves
  BY <1>2 DEF Begins, Steered, Asks, Breaks, Leaves, SteersHeard
<1>3. CASE Opens
  <2>1. \A i \in DOMAIN rows : rows[i].of # turn.id
    BY <1>1, <1>3 DEF RowsOfTurns, Opens, At, TypeOK, Row, Turn
  <2>2. CASE rows' = rows
    BY <1>3, <2>1, <2>2 DEF Opens, SteersHeard, SteersBehind
  <2>3. ASSUME NEW r, Grew(r), turn'.first = Len(rows) + 1 PROVE SteersHeard'
    <3>1. /\ DOMAIN rows = 1 .. Len(rows) /\ DOMAIN rows' = 1 .. Len(rows) + 1 /\ Len(rows) \in Nat
          /\ turn'.id = turn.id
      BY <1>1, <1>3, <2>3 DEF TypeOK, Grew, Opens
    <3>2. ASSUME NEW i \in DOMAIN rows', i # turn'.first PROVE rows'[i].of # turn.id
      <4>1. i \in DOMAIN rows
        BY <3>1, <3>2, <2>3
      <4> QED
        BY <2>1, <2>3, <3>1, <4>1 DEF Grew
    <3> QED
      BY <3>1, <3>2 DEF SteersHeard, SteersBehind
  <2> QED
    BY <1>3, <2>2, <2>3 DEF Opens
<1>4. CASE Replies
  <2>1. turn'.heard = turn.asked /\ turn.at = "stream" /\ rows' = rows
    BY <1>4 DEF Replies
  <2>2. turn.asked = Len(rows) /\ DOMAIN rows = 1 .. Len(rows)
    BY <1>1, <2>1 DEF TypeOK, RequestIsWhole, At
  <2>3. \A i \in DOMAIN rows' : i <= turn'.heard
    BY <2>1, <2>2
  <2> QED
    BY <2>3 DEF SteersHeard, SteersBehind
<1>5. CASE Quiet
  <2>1. rows' = rows /\ turn'.id = turn.id /\ turn'.first = turn.first /\ turn'.heard = turn.heard
    BY <1>5 DEF Quiet, Same
  <2>2. SteersBehind => SteersBehind'
    BY <2>1 DEF SteersBehind, IsUser
  <2>3. CASE turn.at \in {"top", "answer", "batch", "asking", "write"}
    BY <1>1, <2>2, <2>3 DEF SteersHeard
  <2>4. CASE turn.at = "close"
    BY <1>1, <1>5, <2>2, <2>4 DEF SteersHeard, Quiet
  <2>5. CASE turn.at \in {"drain", "pop", "stream"}
    BY <1>5, <2>5 DEF SteersHeard, Quiet
  <2>6. turn.at \in Phases \ {"idle", "open", "ended"}
    BY <1>1, <1>5 DEF Quiet, TypeOK, Turn
  <2> QED
    BY <2>3, <2>4, <2>5, <2>6 DEF Phases
<1>6. CASE Writes
  <2>1. /\ turn'.id = turn.id /\ turn'.first = turn.first /\ turn'.heard = turn.heard
        /\ turn.at \in {"answer", "batch", "write", "close"}
        /\ turn.at = "close" => turn.stop \in {"iterations", "timeout"}
        /\ Grew(Assistant(0)) \/ \E n \in Nat : GrewBatch(n)
    BY <1>6 DEF Writes
  <2>2. SteersBehind
    BY <1>1, <2>1 DEF SteersHeard
  <2>3. DOMAIN rows = 1 .. Len(rows) /\ Len(rows) \in Nat
    BY <1>1 DEF TypeOK
  <2>4. ASSUME NEW i \in DOMAIN rows', IsUser(rows'[i])
        PROVE  i \in DOMAIN rows /\ rows'[i] = rows[i]
    <3>1. CASE Grew(Assistant(0))
      <4>1. DOMAIN rows' = 1 .. Len(rows) + 1 /\ ~IsUser(rows'[Len(rows) + 1])
        BY <3>1 DEF Grew, Assistant, IsUser
      <4> QED
        BY <2>3, <2>4, <3>1, <4>1 DEF Grew
    <3>2. ASSUME NEW n \in Nat, GrewBatch(n)
          PROVE  i \in DOMAIN rows /\ rows'[i] = rows[i]
      <4>1. DOMAIN rows' = 1 .. Len(rows) + 1 + n /\ n \in Nat
        BY <3>2, LoopAssumption DEF GrewBatch
      <4>2. ~IsUser(rows'[Len(rows) + 1])
        BY <3>2 DEF GrewBatch, Assistant, IsUser
      <4>3. \A k \in 1 .. n : ~IsUser(rows'[Len(rows) + 1 + k])
        <5>1. \A k : ~IsUser(Result(k))
          BY DEF Result, IsUser
        <5>2. \A k \in 1 .. n : rows'[Len(rows) + 1 + k] = Result(k)
          BY <3>2 DEF GrewBatch
        <5> QED
          BY <5>1, <5>2 DEF IsUser
      <4>4. i <= Len(rows)
        <5> SUFFICES ASSUME i > Len(rows) PROVE FALSE
          BY <2>3, <4>1
        <5>1. i # Len(rows) + 1
          BY <2>4, <4>2
        <5>2. i - (Len(rows) + 1) \in 1 .. n /\ i = Len(rows) + 1 + (i - (Len(rows) + 1))
          BY <2>3, <4>1, <5>1
        <5> QED
          BY <2>4, <4>3, <5>2
      <4>5. i \in 1 .. Len(rows)
        BY <4>1, <4>4, <2>3
      <4> QED
        BY <2>3, <3>2, <4>5 DEF GrewBatch
    <3> QED
      BY <2>1, <3>1, <3>2
  <2> QED
    BY <2>1, <2>2, <2>4 DEF SteersHeard, SteersBehind
<1>7. CASE Waits
  BY <1>1, <1>7 DEF Waits, SteersHeard, SteersBehind, IsUser
<1> QED
  BY <1>2, <1>3, <1>4, <1>5, <1>6, <1>7, TurnStep DEF TurnStepIs

\* An empty window asks nothing of its calls.
LEMMA NothingIsLegal == LegalStart(<<>>) = 0
<1>1. DOMAIN <<>> = {}
  OBVIOUS
<1>2. LegalStart(<<>>) = Max({0} \cup {})
  BY <1>1 DEF LegalStart
<1>3. {0} \cup {} = {0}
  OBVIOUS
<1> QED
  BY <1>2, <1>3, MaxOfTwo DEF Max

\* A window that starts past the last row holds none.
LEMMA EmptyWindow ==
  ASSUME rows \in Seq(Row)
  PROVE  SubSeq(rows, Len(rows) + 1, Len(rows)) = <<>>
<1> HIDE DEF Row
<1>1. SubSeq(rows, Len(rows) + 1, Len(rows)) \in Seq(Row) /\ Len(SubSeq(rows, Len(rows) + 1, Len(rows))) = 0
  BY SubSeqProperties
<1> QED
  BY <1>1

\* What WindowStart chooses can be sent: it begins at a row that is no result
\* and runs to the end of a legal history.
LEMMA RequestStep ==
  ASSUME IInv, Next
  PROVE  RequestIsLegal'
<1>1. TypeOK /\ HistoryIsLegal /\ QuestionIsStored /\ RequestIsLegal /\ rows \in Seq(Row)
  BY DEF IInv, TypeOK
<1>2. CASE Asks
  <2> DEFINE f == turn.first
             w == WindowStart(f)
             L == Len(rows)
             sent == SubSeq(rows, w, L)
  <2>1. f \in DOMAIN rows /\ IsUser(rows[f])
    BY <1>1, <1>2 DEF QuestionIsStored, Asks
  <2>2. /\ w \in 1 .. L + 1
        /\ w <= L => rows[w].role # "tool"
        /\ w > L => \A i \in Newest : rows[i].role = "tool"
        /\ f > L - Cap => w <= f
        /\ w < f => L - w + 1 <= Budget
    BY <1>1, <2>1, WindowIsLegal
  <2>3. L \in Nat /\ DOMAIN rows = 1 .. L /\ \A i \in 1 .. L : rows[i] \in Row
    BY <1>1
  <2> HIDE DEF w
  <2>5. Len(sent) = L - w + 1 /\ \A i \in 1 .. L - w + 1 : sent[i] = rows[w + i - 1]
    BY <1>1, <2>2, <2>3, SubSeqProperties
  <2>4. LegalStart(sent) = 0
    <3>1. CASE w <= L
      BY <1>1, <2>2, <2>3, <3>1, SegmentStart
    <3>2. CASE w > L
      <4>1. sent = <<>>
        BY <1>1, <2>2, <2>3, <3>2, EmptyWindow
      <4> QED
        BY <4>1, NothingIsLegal
    <3> QED
      BY <2>2, <2>3, <3>1, <3>2
  <2>6. DOMAIN sent = 1 .. L - w + 1 /\ (sent = <<>> => w > L)
    <3>1. sent \in Seq(Row)
      <4> HIDE DEF Row
      <4> QED
        BY <1>1, <2>2, <2>3, SubSeqProperties
    <3>2. w <= L => L - w + 1 > 0
      BY <2>2, <2>3
    <3> HIDE DEF sent
    <3> QED
      BY <2>2, <2>3, <2>5, <3>1, <3>2
  <2> HIDE DEF sent, L
  <2>7. ASSUME NEW i \in 1 .. L - w + 1, sent[i].role = "assistant"
        PROVE  Answered(sent, i)
    <3> SUFFICES ASSUME NEW c \in 1 .. sent[i].calls
                 PROVE  \E h \in i + 1 .. L - w + 1 : sent[h].role = "tool" /\ sent[h].call = c
      BY <2>5 DEF Answered
    <3> DEFINE j == w + i - 1
    <3>1. j \in 1 .. L /\ sent[i] = rows[j] /\ rows[j].role = "assistant"
      BY <2>2, <2>3, <2>5, <2>7
    <3>2. rows[j].calls \in Nat /\ c \in 1 .. rows[j].calls
      BY <2>3, <3>1 DEF Row
    <3>3. j + c \in 1 .. L /\ rows[j + c].role = "tool" /\ rows[j + c].call = c
      BY <1>1, <2>3, <3>1, <3>2 DEF HistoryIsLegal
    <3>4. i + c \in i + 1 .. L - w + 1 /\ i + c \in 1 .. L - w + 1 /\ w + (i + c) - 1 = j + c
      BY <2>2, <2>3, <3>2, <3>3
    <3> HIDE DEF j
    <3>5. sent[i + c] = rows[j + c]
      BY <2>5, <3>4
    <3> QED
      BY <3>3, <3>4, <3>5
  <2>8. turn'.sent = w /\ turn'.asked = L /\ rows' = rows /\ turn'.first = f
    BY <1>2 DEF Asks, w, L
  <2>9. SubSeq(rows', turn'.sent, turn'.asked) = sent
    BY <2>8 DEF sent
  <2>10. RequestIsLegal' <=>
           (At("stream")' =>
              /\ sent = <<>> =>
                   \A i \in Max({1, turn'.asked - Cap + 1}) .. turn'.asked : rows'[i].role = "tool"
              /\ LegalStart(sent) = 0
              /\ \A i \in DOMAIN sent : sent[i].role = "assistant" => Answered(sent, i)
              /\ turn'.first > turn'.asked - Cap => turn'.sent <= turn'.first
              /\ turn'.sent < turn'.first => Len(sent) <= Budget)
    BY <2>9 DEF RequestIsLegal
  <2>11. Newest = Max({1, turn'.asked - Cap + 1}) .. turn'.asked
    BY <2>8 DEF Newest, L
  <2>12. sent = <<>> =>
           \A i \in Max({1, turn'.asked - Cap + 1}) .. turn'.asked : rows'[i].role = "tool"
    BY <2>2, <2>6, <2>8, <2>11
  <2> HIDE DEF f
  <2> QED
    BY <2>2, <2>4, <2>5, <2>6, <2>7, <2>8, <2>10, <2>12
<1>3. CASE Waits
  BY <1>1, <1>3 DEF Waits, RequestIsLegal, At
<1>4. CASE Begins \/ Opens \/ Steered \/ Replies \/ Quiet \/ Writes \/ Breaks \/ Leaves
  BY <1>4 DEF Begins, Opens, Steered, Replies, Quiet, Writes, Breaks, Leaves, RequestIsLegal, At
<1> QED
  BY <1>2, <1>3, <1>4, TurnStep DEF TurnStepIs

\* Each call of a batch is landed, in flight, asking or still to come.
LEMMA BatchStep ==
  ASSUME IInv, Next
  PROVE  BatchInOrder'
<1>0. TypeOK /\ HistoryIsLegal /\ BatchInOrder /\ turn \in Turn
  BY DEF IInv, TypeOK
<1>1. CASE turn'.at \notin {"batch", "asking", "write"}
  BY <1>1 DEF BatchInOrder
<1>2. CASE turn' = turn
  BY <1>0, <1>2 DEF BatchInOrder, At, Calls
<1>3. ASSUME NEW c \in Completions, Reply(c) PROVE BatchInOrder'
  <2>1. CASE turn'.at = "batch"
    <3>1. /\ c.kind = "calls" /\ turn'.answer = c /\ turn'.next = 1
          /\ turn'.flying = {} /\ turn'.landed = <<>> /\ turn'.results = <<>>
      BY <1>0, <1>3, <2>1, ReplyTurn
    <3>2. c.calls \in Batches
      BY <3>1 DEF Completions, Answers
    <3>3. Len(c.calls) \in Nat
      BY <3>2, LoopAssumption
    <3>4. {} \cup ToSet(<<>>) = Len(<<>>) + 1 .. 1 - 1
      BY DEF ToSet
    <3> QED
      BY <2>1, <3>1, <3>3, <3>4 DEF BatchInOrder, At, Calls
  <2>2. CASE turn'.at # "batch"
    BY <1>0, <1>1, <1>3, <2>2, ReplyTurn
  <2> QED
    BY <2>1, <2>2
<1>4. CASE Broken \/ CloseQueue \/ Crash
  BY <1>0, <1>1, <1>4, BrokenTurn, DoneFields
<1>5. CASE (\E m \in Messages : Steer(m)) \/ Stop
  BY <1>2, <1>5 DEF Steer, Stop
<1>6. CASE (\E c \in Completions : Reply(c)) \/ RefuseRest \/ (\E a, d : Dispatch(a, d)) \/ Decide
           \/ (\E i \in turn.flying : Land(i))
  BY <1>0, <1>3, <1>6, RefuseStep, DispatchStep, DecideStep, LandStep
<1>7. CASE (\E m \in Messages : Start(m)) \/ (\E i \in DOMAIN rows : Rewind(i))
  BY <1>0, <1>1, <1>7, StartFields, RewindFields
<1>8. CASE Top \/ Pop \/ StreamStops \/ (Drain /\ ~Broken) \/ (Request /\ ~Broken) \/ (Open /\ ~Broken)
  <2>1. turn'.at \in {"close", "drain", "pop", "stream", "top"}
    <3>1. Top => turn'.at \in {"close", "drain"}
      BY <1>0, TopFields
    <3>2. Pop => turn'.at = "drain"
      BY <1>0, GoesFields DEF Pop
    <3>3. Drain /\ ~Broken => turn'.at = "pop"
      BY <1>0, GoesFields DEF Drain
    <3>4. Request /\ ~Broken => turn'.at = "stream"
      BY <1>0 DEF Request, Turn
    <3>5. StreamStops => turn'.at = "close"
      BY <1>0 DEF StreamStops, Ends, Turn
    <3>6. Open /\ ~Broken => turn'.at = "top"
      BY <1>0 DEF Open, Goes, Turn
    <3> QED
      BY <1>8, <3>1, <3>2, <3>3, <3>4, <3>5, <3>6
  <2> QED
    BY <1>1, <2>1
<1>9. CASE (Finish /\ ~Broken) \/ (Close /\ ~Broken) \/ (RunTools /\ ~Broken)
  BY <1>0, <1>1, <1>9, FinishFields, CloseFields, ToolsRows
<1> QED
  BY <1>4, <1>5, <1>6, <1>7, <1>8, <1>9, Actions DEF ActionsAre

-----------------------------------------------------------------------------
(* The figures on the rows                                                 *)

CostIn(r, id) == IF r.role = "assistant" /\ r.of = id THEN r.cost ELSE 0

\* Stored, of any rows and any turn.
SumOf(s, id) ==
  LET sum[n \in 0 .. Len(s)] == IF n = 0 THEN 0 ELSE sum[n - 1] + CostIn(s[n], id)
  IN  sum[Len(s)]

Sums(f, s, id) ==
  /\ f \in [0 .. Len(s) -> Nat]
  /\ f[0] = 0
  /\ \A n \in 1 .. Len(s) : f[n] = f[n - 1] + CostIn(s[n], id)

\* A row's cost is a number.
LEMMA CostType ==
  ASSUME NEW s \in Seq(Row), NEW id
  PROVE  Len(s) \in Nat /\ \A n \in 1 .. Len(s) : CostIn(s[n], id) \in Nat
<1>1. \A n \in 1 .. Len(s) : s[n] \in Row
  OBVIOUS
<1> QED
  BY <1>1 DEF CostIn, Row

\* Any running sum of the rows is the sum the model states.
LEMMA SumIs ==
  ASSUME NEW s \in Seq(Row), NEW id, NEW f, Sums(f, s, id)
  PROVE  SumOf(s, id) = f[Len(s)]
<1> DEFINE N == Len(s)
           Is(g) == g = [n \in 0 .. N |-> IF n = 0 THEN 0 ELSE g[n - 1] + CostIn(s[n], id)]
           sum == CHOOSE g : Is(g)
<1>1. N \in Nat
  OBVIOUS
<1>2. Is(f)
  <2> DEFINE rhs == [n \in 0 .. N |-> IF n = 0 THEN 0 ELSE f[n - 1] + CostIn(s[n], id)]
  <2>1. f = [n \in 0 .. N |-> f[n]]
    BY DEF Sums
  <2>2. ASSUME NEW n \in 0 .. N PROVE f[n] = rhs[n]
    <3>1. n = 0 \/ n \in 1 .. N
      BY <1>1
    <3> HIDE DEF N
    <3> QED
      BY <3>1 DEF Sums, N
  <2> HIDE DEF N
  <2>3. rhs = [n \in 0 .. N |-> rhs[n]]
    OBVIOUS
  <2> HIDE DEF rhs
  <2>4. f = rhs
    BY <2>1, <2>2, <2>3
  <2> QED
    BY <2>4 DEF rhs
<1>3. Is(sum)
  BY <1>2
<1>4. SumOf(s, id) = sum[N]
  BY DEF SumOf
<1> HIDE DEF sum
<1>5. \A n \in 0 .. N : sum[n] = IF n = 0 THEN 0 ELSE sum[n - 1] + CostIn(s[n], id)
  BY <1>3
<1>6. f[0] = 0 /\ \A n \in 1 .. N : f[n] = f[n - 1] + CostIn(s[n], id)
  BY DEF Sums
<1> HIDE DEF N
<1> DEFINE Agree == {n \in Nat : n <= N => sum[n] = f[n]}
<1>7. 0 \in Agree
  BY <1>1, <1>5, <1>6
<1>8. ASSUME NEW n \in Nat, n \in Agree PROVE n + 1 \in Agree
  <2> SUFFICES ASSUME n + 1 <= N PROVE sum[n + 1] = f[n + 1]
    OBVIOUS
  <2>1. n + 1 \in 1 .. N /\ n + 1 \in 0 .. N /\ n + 1 # 0 /\ (n + 1) - 1 = n /\ n <= N
    BY <1>1
  <2>2. sum[n + 1] = sum[n] + CostIn(s[n + 1], id)
    BY <2>1, <1>5
  <2>3. f[n + 1] = f[n] + CostIn(s[n + 1], id)
    BY <2>1, <1>6
  <2> QED
    BY <2>1, <2>2, <2>3, <1>8
<1>9. N \in Agree
  <2> HIDE DEF Agree
  <2> QED
    BY <1>1, <1>7, <1>8, NatSetInduction
<1> QED
  BY <1>4, <1>9 DEF N

\* Every list of rows has a running sum.
LEMMA SumExists ==
  ASSUME NEW s \in Seq(Row), NEW id
  PROVE  \E f : Sums(f, s, id)
<1> DEFINE N == Len(s)
           Part(f, n) == /\ f \in [0 .. n -> Nat] /\ f[0] = 0
                         /\ \A k \in 1 .. n : f[k] = f[k - 1] + CostIn(s[k], id)
           Has == {n \in Nat : n <= N => \E f : Part(f, n)}
<1>1. N \in Nat /\ \A n \in 1 .. N : CostIn(s[n], id) \in Nat
  BY CostType
<1>2. 0 \in Has
  <2> DEFINE f == [k \in 0 .. 0 |-> 0]
  <2>1. Part(f, 0)
    OBVIOUS
  <2> QED
    BY <2>1
<1>3. ASSUME NEW n \in Nat, n \in Has PROVE n + 1 \in Has
  <2>1. ASSUME n + 1 <= N PROVE \E f : Part(f, n + 1)
    <3>1. PICK f : Part(f, n)
      BY <1>1, <1>3, <2>1
    <3> DEFINE c == f[n] + CostIn(s[n + 1], id)
               g == [k \in 0 .. n + 1 |-> IF k = n + 1 THEN c ELSE f[k]]
    <3>2. c \in Nat
      <4>1. n + 1 \in 1 .. N
        BY <1>1, <2>1
      <4> QED
        BY <1>1, <3>1, <4>1
    <3> HIDE DEF c
    <3>3. g \in [0 .. n + 1 -> Nat]
      BY <3>1, <3>2
    <3>4. g[0] = 0
      BY <3>1
    <3>5. ASSUME NEW k \in 1 .. n + 1 PROVE g[k] = g[k - 1] + CostIn(s[k], id)
      <4>1. CASE k = n + 1
        BY <4>1 DEF c
      <4>2. CASE k \in 1 .. n
        <5>1. f[k] = f[k - 1] + CostIn(s[k], id)
          BY <3>1, <4>2
        <5>2. k # n + 1 /\ k - 1 # n + 1 /\ k \in 0 .. n + 1 /\ k - 1 \in 0 .. n + 1
          BY <4>2
        <5> QED
          BY <5>1, <5>2
      <4> QED
        BY <4>1, <4>2
    <3> HIDE DEF g
    <3>6. Part(g, n + 1)
      BY <3>3, <3>4, <3>5
    <3> QED
      BY <3>6
  <2> HIDE DEF Part
  <2> QED
    BY <2>1
<1>4. N \in Has
  <2> HIDE DEF Has
  <2> QED
    BY <1>1, <1>2, <1>3, NatSetInduction
<1>5. PICK f : Part(f, N)
  BY <1>1, <1>4
<1> QED
  BY <1>5 DEF Sums

\* Rows that carry no figure of a turn add none.
LEMMA SumNothing ==
  ASSUME NEW s \in Seq(Row), NEW id, \A n \in 1 .. Len(s) : CostIn(s[n], id) = 0
  PROVE  SumOf(s, id) = 0
<1> DEFINE f == [n \in 0 .. Len(s) |-> 0]
<1>1. Len(s) \in Nat
  OBVIOUS
<1>2. Sums(f, s, id)
  BY <1>1 DEF Sums
<1>3. SumOf(s, id) = f[Len(s)]
  <2> HIDE DEF f
  <2> QED
    BY <1>2, SumIs
<1> QED
  BY <1>1, <1>3

\* Rows at the end add what the first of them costs when the others cost
\* nothing.
LEMMA SumGrows ==
  ASSUME NEW s \in Seq(Row), NEW t \in Seq(Row), NEW id, Len(t) >= Len(s) + 1,
         \A j \in 1 .. Len(s) : t[j] = s[j],
         \A j \in Len(s) + 2 .. Len(t) : CostIn(t[j], id) = 0
  PROVE  /\ SumOf(s, id) \in Nat
         /\ SumOf(t, id) = SumOf(s, id) + CostIn(t[Len(s) + 1], id)
<1> DEFINE L == Len(s)
           M == Len(t)
           c == CostIn(t[L + 1], id)
<1>1. PICK f : Sums(f, s, id)
  BY SumExists
<1>2. SumOf(s, id) = f[L]
  BY <1>1, SumIs
<1>3. L \in Nat /\ M \in Nat /\ L + 1 <= M
  OBVIOUS
<1>4. c \in Nat
  <2>1. \A n \in 1 .. M : CostIn(t[n], id) \in Nat
    BY CostType
  <2>2. L + 1 \in 1 .. M
    BY <1>3
  <2> QED
    BY <2>1, <2>2
<1>5. /\ f \in [0 .. L -> Nat] /\ f[0] = 0
      /\ \A n \in 1 .. L : f[n] = f[n - 1] + CostIn(t[n], id)
  BY <1>1 DEF Sums
<1>6. \A j \in L + 2 .. M : CostIn(t[j], id) = 0
  OBVIOUS
<1> HIDE DEF L, M
<1>7. f[L] \in Nat
  BY <1>3, <1>5
<1> DEFINE g == [n \in 0 .. M |-> IF n <= L THEN f[n] ELSE f[L] + c]
<1>8. g \in [0 .. M -> Nat]
  <2> HIDE DEF c
  <2>1. ASSUME NEW n \in 0 .. M PROVE (IF n <= L THEN f[n] ELSE f[L] + c) \in Nat
    BY <1>3, <1>4, <1>5, <1>7
  <2> QED
    BY <2>1
<1>9. g[0] = 0
  BY <1>3, <1>5
<1>10. ASSUME NEW n \in 1 .. M PROVE g[n] = g[n - 1] + CostIn(t[n], id)
  <2>0. n \in 0 .. M /\ n - 1 \in 0 .. M
    BY <1>3
  <2>1. CASE n \in 1 .. L
    <3>1. f[n] = f[n - 1] + CostIn(t[n], id)
      BY <1>5, <2>1
    <3>2. n <= L /\ n - 1 <= L
      BY <2>1, <1>3
    <3> QED
      BY <3>1, <3>2, <2>0
  <2>2. CASE n = L + 1
    <3>1. ~ (n <= L) /\ n - 1 = L
      BY <2>2, <1>3
    <3>2. g[n] = f[L] + c /\ g[n - 1] = f[L]
      BY <3>1, <2>0, <1>3
    <3> QED
      BY <3>2, <2>2
  <2>3. CASE n \in L + 2 .. M
    <3>1. ~ (n <= L) /\ ~ (n - 1 <= L) /\ CostIn(t[n], id) = 0
      BY <2>3, <1>3, <1>6
    <3>2. g[n] = f[L] + c /\ g[n - 1] = f[L] + c
      BY <3>1, <2>0
    <3>3. f[L] + c \in Nat
      BY <1>4, <1>7
    <3> HIDE DEF g, c
    <3> QED
      BY <3>1, <3>2, <3>3
  <2> QED
    BY <2>1, <2>2, <2>3, <1>3
<1>11. g[M] = f[L] + c
  BY <1>3
<1> HIDE DEF g, c
<1>12. Sums(g, t, id)
  BY <1>8, <1>9, <1>10 DEF Sums, M
<1>13. SumOf(t, id) = g[M]
  BY <1>12, SumIs DEF M
<1> QED
  BY <1>2, <1>7, <1>11, <1>13 DEF c, L

\* What a turn has stored is the sum of its rows' costs.
LEMMA StoredIs == Stored = SumOf(rows, turn.id) /\ Stored' = SumOf(rows', turn'.id)
BY DEF Stored, SumOf, Cost, CostIn

\* What the rows of a turn say was spent, and what is still to be stored, add
\* up to what it spent.
LEMMA StepsStep ==
  ASSUME IInv, Next
  PROVE  StepsSumToTurn'
<1>1. TypeOK /\ StepsSumToTurn /\ RowsOfTurns /\ BrokenEnds /\ AnsweredHasFigures /\ HistoryIsLegal
  BY DEF IInv
<1>2. rows \in Seq(Row) /\ turn \in Turn /\ turn.id \in Nat /\ turn.pending \in Nat /\ Len(rows) \in Nat
  BY <1>1 DEF TypeOK, Turn
<1>3. Stored \in Nat
  <2>1. PICK f : Sums(f, rows, turn.id)
    BY <1>2, SumExists
  <2>2. f[Len(rows)] \in Nat
    BY <1>2, <2>1 DEF Sums
  <2> QED
    BY <1>2, <2>1, <2>2, SumIs, StoredIs
<1>4. turn.at \notin {"idle", "ended"} => Stored + turn.pending = turn.spent
  BY <1>1 DEF StepsSumToTurn, BrokenEnds, At
<1>5. ASSUME turn'.id = turn.id, NEW r, Grew(r) PROVE Stored' = Stored + CostIn(r, turn.id)
  <2>1. rows' \in Seq(Row) /\ Len(rows') = Len(rows) + 1 /\ rows'[Len(rows) + 1] = r
        /\ \A j \in 1 .. Len(rows) : rows'[j] = rows[j]
    BY <1>5 DEF Grew
  <2>2. \A j \in Len(rows) + 2 .. Len(rows') : CostIn(rows'[j], turn.id) = 0
    BY <1>2, <2>1
  <2>3. Len(rows') >= Len(rows) + 1
    BY <1>2, <2>1
  <2>4. SumOf(rows', turn.id) = SumOf(rows, turn.id) + CostIn(r, turn.id)
    BY <1>2, <2>1, <2>2, <2>3, SumGrows
  <2> QED
    BY <1>5, <2>4, StoredIs
<1>6. ASSUME turn'.id = turn.id, NEW n \in Nat, GrewBatch(n)
      PROVE  Stored' = Stored + turn.pending
  <2> DEFINE L == Len(rows)
  <2>0. n \in Nat
    BY LoopAssumption
  <2>1. rows' \in Seq(Row) /\ Len(rows') = L + 1 + n /\ rows'[L + 1] = Assistant(n)
        /\ (\A j \in 1 .. L : rows'[j] = rows[j])
        /\ \A k \in 1 .. n : rows'[L + 1 + k] = Result(k)
    BY <1>6 DEF GrewBatch
  <2>2. \A k : CostIn(Result(k), turn.id) = 0
    BY DEF CostIn, Result
  <2>3. CostIn(Assistant(n), turn.id) = turn.pending
    BY DEF CostIn, Assistant
  <2>4. ASSUME NEW j \in L + 2 .. Len(rows') PROVE CostIn(rows'[j], turn.id) = 0
    <3> DEFINE k == j - (L + 1)
    <3>1. k \in 1 .. n /\ j = L + 1 + k
      BY <1>2, <2>0, <2>1
    <3> HIDE DEF k, L
    <3>2. rows'[j] = Result(k)
      BY <2>1, <3>1
    <3> QED
      BY <2>2, <3>2
  <2>5. Len(rows') >= L + 1
    BY <1>2, <2>0, <2>1
  <2>6. SumOf(rows', turn.id) = SumOf(rows, turn.id) + CostIn(rows'[L + 1], turn.id)
    <3>1. \A j \in 1 .. Len(rows) : rows'[j] = rows[j]
      BY <2>1
    <3>2. \A j \in Len(rows) + 2 .. Len(rows') : CostIn(rows'[j], turn.id) = 0
      BY <2>4
    <3> HIDE DEF CostIn
    <3> QED
      BY <1>2, <2>1, <2>5, <3>1, <3>2, SumGrows
  <2> QED
    BY <1>6, <2>1, <2>3, <2>6, StoredIs
<1>7. ASSUME turn'.id = turn.id, rows' = rows PROVE Stored' = Stored
  BY <1>7, StoredIs
<1> USE DEF StepsSumToTurn, At
<1>8. CASE Begins
  <2>1. rows' \in Seq(Row) /\ \A j \in DOMAIN rows' : rows'[j].of # turn'.id
    <3>2. \A j \in DOMAIN rows : rows[j].of <= turn.id /\ rows[j].of \in Nat
      BY <1>1, <1>2 DEF RowsOfTurns, Row
    <3>3. turn'.id = turn.id + 1
      BY <1>8 DEF Begins
    <3>4. rows' \in Seq(Row) /\ \A j \in DOMAIN rows' : j \in DOMAIN rows /\ rows'[j] = rows[j]
      BY <1>2, <1>8 DEF Begins
    <3> QED
      BY <1>2, <3>2, <3>3, <3>4
  <2>2. \A j \in 1 .. Len(rows') : CostIn(rows'[j], turn'.id) = 0
    <3>1. DOMAIN rows' = 1 .. Len(rows')
      BY <2>1
    <3> QED
      BY <2>1, <3>1 DEF CostIn
  <2>3. Stored' = 0
    BY <2>1, <2>2, SumNothing, StoredIs
  <2>4. turn'.at = "open" /\ turn'.spent = 0 /\ turn'.pending = 0
    BY <1>8 DEF Begins
  <2> QED
    BY <2>3, <2>4
<1>9. CASE Opens
  <2>1. /\ turn'.id = turn.id /\ turn'.spent = turn.spent /\ turn'.pending = turn.pending
        /\ turn.at = "open" /\ turn'.at = "top"
    BY <1>9 DEF Opens
  <2>2. Stored' = Stored
    <3>1. CASE rows' = rows
      BY <1>7, <2>1, <3>1
    <3>2. ASSUME NEW m \in Messages, NEW s \in BOOLEAN, Grew(User(m, s)) PROVE Stored' = Stored
      <4>1. CostIn(User(m, s), turn.id) = 0
        BY DEF CostIn, User
      <4> QED
        BY <1>3, <1>5, <2>1, <3>2, <4>1
    <3> QED
      BY <1>9, <3>1, <3>2 DEF Opens
  <2> QED
    BY <1>4, <2>1, <2>2
<1>10. CASE Steered
  <2> DEFINE r == User(Head(steering), TRUE)
  <2>1. Same /\ turn.at = "drain" /\ turn'.at = "pop" /\ Grew(r)
    BY <1>10 DEF Steered
  <2>2. CostIn(r, turn.id) = 0
    BY DEF CostIn, User
  <2> HIDE DEF r
  <2>3. Stored' = Stored
    BY <1>3, <1>5, <2>1, <2>2 DEF Same
  <2> QED
    BY <1>4, <2>1, <2>3 DEF Same
<1>11. CASE Asks
  <2>1. Stored' = Stored
    BY <1>7, <1>11 DEF Asks
  <2> QED
    BY <1>4, <1>11, <2>1 DEF Asks
<1>12. CASE Replies
  <2>1. Stored' = Stored
    BY <1>7, <1>12 DEF Replies
  <2>2. Stored + turn.pending = turn.spent
    BY <1>4, <1>12 DEF Replies
  <2>3. /\ turn'.spent = turn.spent + 1 /\ turn'.pending = turn.pending + 1
        /\ turn'.at \in {"batch", "top", "answer"}
    BY <1>12 DEF Replies
  <2>4. Stored' + turn'.pending = turn'.spent
    BY <1>2, <1>3, <2>1, <2>2, <2>3
  <2> QED
    BY <2>3, <2>4
<1>13. CASE Quiet
  <2>1. Stored' = Stored
    BY <1>7, <1>13 DEF Quiet, Same
  <2>2. Stored + turn.pending = turn.spent
    BY <1>4, <1>13 DEF Quiet
  <2> QED
    BY <1>1, <1>13, <2>1, <2>2 DEF Quiet, Same, AnsweredHasFigures
<1>14. CASE Writes
  <2>1. /\ turn'.id = turn.id /\ turn'.pending = 0 /\ turn'.spent = turn.spent
        /\ turn.at \notin {"idle", "ended"} /\ turn'.at \in {"top", "close", "ended"}
        /\ Grew(Assistant(0)) \/ \E n \in Nat : GrewBatch(n)
    BY <1>14 DEF Writes
  <2> DEFINE r == Assistant(0)
  <2>2. CostIn(r, turn.id) = turn.pending
    BY DEF CostIn, Assistant
  <2> HIDE DEF r
  <2>3. Stored' = Stored + turn.pending
    <3>1. CASE Grew(r)
      BY <1>5, <2>1, <2>2, <3>1
    <3>2. CASE \E n \in Nat : GrewBatch(n)
      BY <1>6, <2>1, <3>2
    <3> QED
      BY <2>1, <3>1, <3>2 DEF r
  <2>4. Stored' + turn'.pending = turn'.spent
    BY <1>2, <1>3, <1>4, <2>1, <2>3
  <2> QED
    BY <2>1, <2>4
<1>15. CASE Breaks \/ Leaves
  BY <1>15 DEF Breaks, Leaves
<1>16. CASE Waits
  <2>1. Stored' = Stored
    BY <1>7, <1>16 DEF Waits
  <2> QED
    BY <1>1, <1>16, <2>1 DEF Waits
<1> QED
  BY <1>8, <1>9, <1>10, <1>11, <1>12, <1>13, <1>14, <1>15, <1>16, TurnStep DEF TurnStepIs

-----------------------------------------------------------------------------
(* Where a message is                                                      *)

One(b) == IF b THEN 1 ELSE 0

\* The places of a message in a queue, and in the rows.
Hits(s, m)  == {i \in DOMAIN s : s[i] = m}
Texts(s, m) == {i \in DOMAIN s : IsUser(s[i]) /\ s[i].message = m}
Popping(m)  == IF At("pop") /\ Head(steering) = m THEN 1 ELSE 0
Has(S, m)   == IF m \in S THEN 1 ELSE 0

\* MessagesOnce as a sum over the places a message can be in.
LEMMA PlacesOf ==
  MessagesOnce <=>
    \A m \in Messages :
      Has(unsent, m) + Has(lost, m) + Has(InHand, m) + Count(waiting, m) + Count(steering, m)
        + Cardinality(Texts(rows, m)) - Popping(m) = 1
BY DEF MessagesOnce, Has, Texts, Popping

\* Moving numbers along does not change how many there are.
LEMMA Shifted ==
  ASSUME NEW S \in SUBSET Nat, IsFiniteSet(S), NEW k \in Nat
  PROVE  LET T == {k + j : j \in S}
         IN  IsFiniteSet(T) /\ Cardinality(T) = Cardinality(S)
<1> DEFINE T == {k + j : j \in S}
           f == [j \in S |-> k + j]
<1>1. f \in [S -> T] /\ \A j \in S : f[j] = k + j
  OBVIOUS
<1>2. \A t \in T : \E j \in S : f[j] = t
  OBVIOUS
<1>3. ASSUME NEW a \in S, NEW b \in S, f[a] = f[b] PROVE a = b
  BY <1>1, <1>3
<1> HIDE DEF f, T
<1>4. f \in Bijection(S, T)
  BY <1>1, <1>2, <1>3, Fun_IsBij
<1>5. ExistsBijection(S, T)
  BY <1>4 DEF ExistsBijection
<1> QED
  BY <1>5, FS_Bijection DEF T

\* How often a message waits is a number, 0 when it does not wait.
LEMMA CountType ==
  ASSUME NEW s \in Seq(Messages), NEW m
  PROVE  /\ Hits(s, m) \in SUBSET (1 .. Len(s)) /\ IsFiniteSet(Hits(s, m))
         /\ Count(s, m) = Cardinality(Hits(s, m)) /\ Count(s, m) \in Nat
         /\ Count(s, m) = 0 <=> m \notin ToSet(s)
<1>1. Hits(s, m) \in SUBSET (1 .. Len(s)) /\ Len(s) \in Nat
  BY DEF Hits
<1>2. IsFiniteSet(1 .. Len(s))
  BY <1>1, FS_Interval
<1>3. IsFiniteSet(Hits(s, m))
  BY <1>1, <1>2, FS_Subset
<1>4. Count(s, m) = Cardinality(Hits(s, m))
  BY DEF Count, Hits
<1>5. Cardinality(Hits(s, m)) = 0 <=> Hits(s, m) = {}
  BY <1>3, FS_EmptySet
<1>6. Hits(s, m) = {} <=> m \notin ToSet(s)
  BY DEF Hits, ToSet
<1> QED
  BY <1>1, <1>3, <1>4, <1>5, <1>6, FS_CardinalityType

\* Joined queues hold what both held.
LEMMA CountConcat ==
  ASSUME NEW s \in Seq(Messages), NEW t \in Seq(Messages), NEW m
  PROVE  Count(s \o t, m) = Count(s, m) + Count(t, m)
<1> DEFINE n == Len(s)
           k == Len(t)
           q == s \o t
           A == Hits(s, m)
           B == Hits(t, m)
           C == {n + j : j \in B}
<1>1. /\ q \in Seq(Messages) /\ Len(q) = n + k /\ n \in Nat /\ k \in Nat
      /\ \A i \in 1 .. n + k : q[i] = IF i <= n THEN s[i] ELSE t[i - n]
  BY ConcatProperties
<1>2. DOMAIN q = 1 .. n + k /\ DOMAIN s = 1 .. n /\ DOMAIN t = 1 .. k
  BY <1>1
<1>3. Hits(q, m) = A \cup C
  <2> HIDE DEF q, n, k
  <2>1. ASSUME NEW i \in Hits(q, m) PROVE i \in A \cup C
    <3>1. i \in 1 .. n + k /\ q[i] = m
      BY <1>2, <2>1 DEF Hits
    <3>2. CASE i <= n
      BY <1>1, <1>2, <3>1, <3>2 DEF Hits
    <3>3. CASE ~ (i <= n)
      <4>1. i - n \in 1 .. k /\ t[i - n] = m /\ i = n + (i - n)
        BY <1>1, <3>1, <3>3
      <4>2. i - n \in B
        BY <1>2, <4>1 DEF Hits
      <4> QED
        BY <4>1, <4>2
    <3> QED
      BY <3>2, <3>3
  <2>2. ASSUME NEW i \in A PROVE i \in Hits(q, m)
    <3>1. i \in 1 .. n /\ s[i] = m
      BY <1>2 DEF Hits
    <3>2. i \in 1 .. n + k /\ i <= n
      BY <1>1, <3>1
    <3> QED
      BY <1>1, <1>2, <3>1, <3>2 DEF Hits
  <2>3. ASSUME NEW j \in B PROVE n + j \in Hits(q, m)
    <3>1. j \in 1 .. k /\ t[j] = m
      BY <1>2 DEF Hits
    <3>2. n + j \in 1 .. n + k /\ ~ (n + j <= n) /\ (n + j) - n = j
      BY <1>1, <3>1
    <3>3. q[n + j] = m
      BY <1>1, <3>1, <3>2
    <3> QED
      BY <1>2, <3>2, <3>3 DEF Hits
  <2> QED
    BY <2>1, <2>2, <2>3
<1>4. IsFiniteSet(A) /\ IsFiniteSet(B) /\ A \in SUBSET (1 .. n) /\ B \in SUBSET (1 .. k)
  BY CountType
<1>5. Count(q, m) = Cardinality(Hits(q, m)) /\ Count(s, m) = Cardinality(A)
      /\ Count(t, m) = Cardinality(B) /\ Cardinality(A) \in Nat /\ Cardinality(B) \in Nat
  BY <1>1, CountType
<1> HIDE DEF q, A, B, n, k
<1>6. IsFiniteSet(C) /\ Cardinality(C) = Cardinality(B)
  <2>1. B \in SUBSET Nat
    BY <1>1, <1>4
  <2> QED
    BY <1>1, <1>4, <2>1, Shifted
<1>7. A \cap C = {}
  BY <1>1, <1>4
<1> HIDE DEF C
<1>8. Cardinality(A \cup C) = Cardinality(A) + Cardinality(C) - Cardinality({})
  BY <1>4, <1>6, <1>7, FS_Union
<1>9. Cardinality({}) = 0
  BY FS_EmptySet
<1> QED
  BY <1>3, <1>5, <1>6, <1>8, <1>9 DEF q

\* A queue of one message.
LEMMA CountOne ==
  ASSUME NEW x \in Messages, NEW m
  PROVE  Count(<<x>>, m) = One(x = m)
<1>1. Count(<<x>>, m) = Cardinality({i \in {1} : x = m})
  <2>1. {i \in DOMAIN <<x>> : <<x>>[i] = m} = {i \in {1} : x = m}
    OBVIOUS
  <2> QED
    BY <2>1 DEF Count
<1>2. x = m => {i \in {1} : x = m} = {1}
  OBVIOUS
<1>3. x # m => {i \in {1} : x = m} = {}
  OBVIOUS
<1>4. Cardinality({1}) = 1 /\ Cardinality({}) = 0
  BY FS_Singleton, FS_EmptySet
<1> QED
  BY <1>1, <1>2, <1>3, <1>4 DEF One

\* One more message at the end of a queue.
LEMMA CountAppend ==
  ASSUME NEW s \in Seq(Messages), NEW x \in Messages, NEW m
  PROVE  Count(Append(s, x), m) = Count(s, m) + One(x = m)
<1> DEFINE t == <<x>>
<1>1. Append(s, x) = s \o t /\ t \in Seq(Messages)
  BY AppendIsConcat
<1>2. Count(t, m) = One(x = m)
  BY CountOne
<1> HIDE DEF t
<1>3. Count(s \o t, m) = Count(s, m) + Count(t, m)
  BY <1>1, CountConcat
<1> QED
  BY <1>1, <1>2, <1>3

\* One message fewer at its front.
LEMMA CountTail ==
  ASSUME NEW s \in Seq(Messages), s # <<>>, NEW m
  PROVE  Tail(s) \in Seq(Messages) /\ Count(s, m) = One(Head(s) = m) + Count(Tail(s), m)
<1>1. Head(s) \in Messages /\ Tail(s) \in Seq(Messages) /\ s = <<Head(s)>> \o Tail(s)
  <2>1. Len(s) \in Nat \ {0} /\ 1 \in 1 .. Len(s) /\ Len(s) \in 1 .. Len(s)
    BY EmptySeq
  <2>2. SubSeq(s, 1, Len(s)) = <<s[1]>> \o SubSeq(s, 1 + 1, Len(s))
    BY <2>1, SubSeqRecursiveFirst
  <2>3. SubSeq(s, 1, Len(s)) = s /\ Tail(s) = SubSeq(s, 2, Len(s)) /\ Head(s) = s[1]
    BY SubSeqFull, TailIsSubSeq
  <2> QED
    BY <2>2, <2>3, HeadTailProperties
<1> DEFINE h == <<Head(s)>>
           t == Tail(s)
<1>2. h \in Seq(Messages) /\ Count(h, m) = One(Head(s) = m)
  BY <1>1, CountOne
<1>3. s = h \o t /\ t \in Seq(Messages)
  BY <1>1
<1> HIDE DEF h, t
<1>4. Count(h \o t, m) = Count(h, m) + Count(t, m)
  BY <1>2, <1>3, CountConcat
<1> QED
  BY <1>2, <1>3, <1>4 DEF t

\* The rows that say a message are finitely many.
LEMMA TextsType ==
  ASSUME NEW s \in Seq(Row), NEW m
  PROVE  /\ Texts(s, m) \in SUBSET (1 .. Len(s)) /\ IsFiniteSet(Texts(s, m))
         /\ Cardinality(Texts(s, m)) \in Nat
         /\ Cardinality(Texts(s, m)) = 0 <=> Texts(s, m) = {}
<1>1. Texts(s, m) \in SUBSET (1 .. Len(s)) /\ Len(s) \in Nat
  BY DEF Texts
<1>2. IsFiniteSet(1 .. Len(s))
  BY <1>1, FS_Interval
<1>3. IsFiniteSet(Texts(s, m))
  BY <1>1, <1>2, FS_Subset
<1> QED
  BY <1>1, <1>3, FS_CardinalityType, FS_EmptySet

\* One more row says a message once more exactly when it is its user row.
LEMMA TextsGrew ==
  ASSUME rows \in Seq(Row), NEW r, Grew(r), NEW m
  PROVE  Cardinality(Texts(rows', m))
           = Cardinality(Texts(rows, m)) + One(IsUser(r) /\ r.message = m)
<1> DEFINE L == Len(rows)
<1>1. DOMAIN rows' = 1 .. L + 1 /\ DOMAIN rows = 1 .. L /\ L \in Nat /\ rows'[L + 1] = r
      /\ \A j \in 1 .. L : rows'[j] = rows[j]
  BY DEF Grew
<1>2. IsFiniteSet(Texts(rows, m)) /\ Texts(rows, m) \in SUBSET (1 .. L)
      /\ Cardinality(Texts(rows, m)) \in Nat
  BY TextsType
<1> HIDE DEF L
<1>3. \A j : j \in 1 .. L + 1 <=> j \in 1 .. L \/ j = L + 1
  BY <1>1
<1>4. L + 1 \notin 1 .. L
  BY <1>1
<1>5. CASE IsUser(r) /\ r.message = m
  <2>1. Texts(rows', m) = Texts(rows, m) \cup {L + 1}
    BY <1>1, <1>3, <1>5 DEF Texts, IsUser
  <2>2. L + 1 \notin Texts(rows, m)
    BY <1>2, <1>4
  <2> QED
    BY <1>2, <1>5, <2>1, <2>2, FS_AddElement DEF One
<1>6. CASE ~ (IsUser(r) /\ r.message = m)
  <2>1. Texts(rows', m) = Texts(rows, m)
    BY <1>1, <1>3, <1>4, <1>6 DEF Texts, IsUser
  <2> QED
    BY <1>2, <1>6, <2>1 DEF One
<1> QED
  BY <1>5, <1>6

\* A batch says no message.
LEMMA TextsBatch ==
  ASSUME rows \in Seq(Row), NEW n \in Nat, GrewBatch(n), NEW m
  PROVE  Texts(rows', m) = Texts(rows, m)
<1> DEFINE L == Len(rows)
<1>0. n \in Nat
  BY LoopAssumption
<1>1. /\ DOMAIN rows' = 1 .. L + 1 + n /\ DOMAIN rows = 1 .. L /\ L \in Nat
      /\ \A j \in 1 .. L : rows'[j] = rows[j]
  BY DEF GrewBatch
<1>2. rows'[L + 1].role = "assistant" /\ \A k \in 1 .. n : rows'[L + 1 + k].role = "tool"
  <2>1. Assistant(n).role = "assistant" /\ \A k : Result(k).role = "tool"
    BY DEF Assistant, Result
  <2> QED
    BY <2>1 DEF GrewBatch
<1> HIDE DEF L
<1>3. ASSUME NEW i \in 1 .. L + 1 + n, IsUser(rows'[i]) PROVE i \in 1 .. L
  <2> SUFFICES ASSUME i > L PROVE FALSE
    BY <1>0, <1>1
  <2>1. i # L + 1
    BY <1>2, <1>3 DEF IsUser
  <2>2. i - (L + 1) \in 1 .. n /\ i = L + 1 + (i - (L + 1))
    BY <1>0, <1>1, <2>1
  <2>3. rows'[i].role = "tool"
    BY <1>2, <2>2
  <2> QED
    BY <1>3, <2>3 DEF IsUser
<1>4. 1 .. L \subseteq 1 .. L + 1 + n
  BY <1>0, <1>1
<1>5. ASSUME NEW i PROVE i \in Texts(rows', m) <=> i \in Texts(rows, m)
  <2>1. ASSUME i \in Texts(rows', m) PROVE i \in Texts(rows, m)
    <3>1. i \in 1 .. L + 1 + n /\ IsUser(rows'[i]) /\ rows'[i].message = m
      BY <1>1, <2>1 DEF Texts, IsUser
    <3>2. i \in 1 .. L
      BY <1>3, <3>1
    <3> QED
      BY <1>1, <3>1, <3>2 DEF Texts, IsUser
  <2>2. ASSUME i \in Texts(rows, m) PROVE i \in Texts(rows', m)
    BY <1>1, <1>4, <2>2 DEF Texts, IsUser
  <2> QED
    BY <2>1, <2>2
<1> QED
  BY <1>5

\* The numbers MessagesOnce adds up, for one message.
LEMMA SumOfOne ==
  ASSUME IInv, NEW m \in Messages
  PROVE  /\ Has(unsent, m) \in {0, 1} /\ Has(lost, m) \in {0, 1} /\ Has(InHand, m) \in {0, 1}
         /\ Count(waiting, m) \in Nat /\ Count(steering, m) \in Nat
         /\ Cardinality(Texts(rows, m)) \in Nat
         /\ Popping(m) \in {0, 1}
         /\ Popping(m) = 1 => Count(steering, m) > 0 /\ Cardinality(Texts(rows, m)) > 0
         /\ Has(unsent, m) + Has(lost, m) + Has(InHand, m) + Count(waiting, m)
              + Count(steering, m) + Cardinality(Texts(rows, m)) - Popping(m) = 1
<1>1. TypeOK /\ MessagesOnce /\ PoppedIsWritten
  BY DEF IInv
<1>2. rows \in Seq(Row) /\ waiting \in Seq(Messages) /\ steering \in Seq(Messages)
  BY <1>1 DEF TypeOK
<1>3. Count(waiting, m) \in Nat /\ Count(steering, m) \in Nat
      /\ (Count(steering, m) = 0 <=> m \notin ToSet(steering))
  BY <1>2, CountType
<1>4. Cardinality(Texts(rows, m)) \in Nat
      /\ (Cardinality(Texts(rows, m)) = 0 <=> Texts(rows, m) = {})
  BY <1>2, TextsType
<1>5. ASSUME Popping(m) = 1 PROVE Count(steering, m) > 0 /\ Cardinality(Texts(rows, m)) > 0
  <2>1. At("pop") /\ Head(steering) = m /\ steering # <<>> /\ m \in Written
    BY <1>1, <1>5 DEF Popping, PoppedIsWritten
  <2>2. m \in ToSet(steering)
    <3>1. 1 \in DOMAIN steering /\ steering[1] = m
      BY <1>2, <2>1
    <3> QED
      BY <3>1 DEF ToSet
  <2>3. Texts(rows, m) # {}
    BY <2>1 DEF Written, Texts
  <2> QED
    BY <1>3, <1>4, <2>2, <2>3
<1> QED
  BY <1>1, <1>3, <1>4, <1>5, PlacesOf DEF Has, Popping

\* A rewound row is in no other place, nor are the messages cut with it.
LEMMA TextsCut ==
  ASSUME rows \in Seq(Row), NEW i \in DOMAIN rows, CutAt(i), NEW m,
         Cardinality(Texts(rows, m)) <= 1
  PROVE  LET c == {rows[j].message : j \in {k \in i .. Len(rows) : IsUser(rows[k])}}
         IN  Cardinality(Texts(rows', m)) = IF m \in c THEN 0 ELSE Cardinality(Texts(rows, m))
<1> DEFINE L == Len(rows)
           c == {rows[j].message : j \in {k \in i .. L : IsUser(rows[k])}}
<1>1. /\ DOMAIN rows' = 1 .. i - 1 /\ DOMAIN rows = 1 .. L /\ L \in Nat /\ i \in 1 .. L
      /\ rows' \in Seq(Row)
      /\ \A j \in 1 .. i - 1 : rows'[j] = rows[j]
  BY DEF CutAt
<1>2. IsFiniteSet(Texts(rows, m)) /\ Cardinality(Texts(rows, m)) \in Nat
      /\ (Cardinality(Texts(rows, m)) = 0 <=> Texts(rows, m) = {})
      /\ (Cardinality(Texts(rows, m)) = 1 <=> \E x : Texts(rows, m) = {x})
  BY TextsType, FS_Singleton
<1>3. Cardinality(Texts(rows', m)) = 0 <=> Texts(rows', m) = {}
  BY <1>1, TextsType
<1> HIDE DEF L
<1>4. \A j : j \in 1 .. L <=> j \in 1 .. i - 1 \/ j \in i .. L
  BY <1>1
<1>5. CASE m \in c
  <2>1. PICK j \in i .. L : IsUser(rows[j]) /\ rows[j].message = m
    BY <1>5
  <2>2. j \in Texts(rows, m) /\ j \notin 1 .. i - 1
    BY <1>1, <1>4, <2>1 DEF Texts
  <2>3. Texts(rows, m) = {j}
    <3>1. Cardinality(Texts(rows, m)) = 1
      BY <1>2, <2>2
    <3> QED
      BY <1>2, <2>2, <3>1
  <2>4. Texts(rows', m) = {}
    <3> SUFFICES ASSUME NEW k \in Texts(rows', m) PROVE FALSE
      OBVIOUS
    <3>1. k \in 1 .. i - 1 /\ k \in Texts(rows, m)
      BY <1>1, <1>4 DEF Texts, IsUser
    <3> QED
      BY <2>2, <2>3, <3>1
  <2> QED
    BY <1>3, <1>5, <2>4 DEF L
<1>6. CASE m \notin c
  <2>1. \A k : k \in Texts(rows', m) <=> k \in Texts(rows, m)
    BY <1>1, <1>4, <1>6 DEF Texts, IsUser
  <2>2. Texts(rows', m) = Texts(rows, m)
    BY <2>1
  <2> QED
    BY <1>6, <2>2 DEF L
<1> QED
  BY <1>5, <1>6 DEF L

PlacesNext(m) ==
  Has(unsent', m) + Has(lost', m) + Has(InHand', m) + Count(waiting', m) + Count(steering', m)
    + Cardinality(Texts(rows', m)) - Popping(m)' = 1

\* MessagesOnce after a step, as a sum.
LEMMA PlacesThen ==
  (\A m \in Messages : PlacesNext(m)) => MessagesOnce'
BY DEF PlacesNext, MessagesOnce, Has, Texts, Popping

\* A turn that is not about to open or to pop has no message of its own.
LEMMA NoneInHand ==
  /\ ~At("open") => \A m : Has(InHand, m) = 0
  /\ ~At("open")' => \A m : Has(InHand', m) = 0
  /\ ~At("pop") => \A m : Popping(m) = 0
  /\ ~At("pop")' => \A m : Popping(m)' = 0
BY DEF InHand, Has, Popping, At

\* The same sum again, cited where only some of its terms move.
LEMMA SumIsOne ==
  ASSUME IInv, NEW m \in Messages
  PROVE  /\ Has(unsent, m) \in Nat /\ Has(lost, m) \in Nat /\ Has(InHand, m) \in Nat
         /\ Count(waiting, m) \in Nat /\ Count(steering, m) \in Nat
         /\ Cardinality(Texts(rows, m)) \in Nat /\ Popping(m) \in Nat
         /\ Has(unsent, m) + Has(lost, m) + Has(InHand, m) + Count(waiting, m)
              + Count(steering, m) + Cardinality(Texts(rows, m)) - Popping(m) = 1
BY SumOfOne

\* An empty queue holds nothing.
LEMMA CountNothing ==
  ASSUME NEW m
  PROVE  Count(<<>>, m) = 0
<1>1. {i \in DOMAIN << >> : << >>[i] = m} = {}
  OBVIOUS
<1> QED
  BY <1>1, FS_EmptySet DEF Count

\* A message that starts a turn leaves the unsent ones for the hand.
LEMMA MessagesStart ==
  ASSUME IInv, NEW x \in Messages, Start(x)
  PROVE  MessagesOnce'
<1>1. TypeOK /\ turn.at = "idle" /\ turn'.at = "open" /\ turn'.message = x /\ rows' = rows
  BY StartFields DEF IInv
<1>2. waiting \in Seq(Messages)
  BY <1>1 DEF TypeOK
<1>3. InHand' = {x}
  <2>1. x # None
    BY Names
  <2> QED
    BY <1>1, <2>1 DEF InHand, At
<1> SUFFICES ASSUME NEW m \in Messages PROVE PlacesNext(m)
  BY PlacesThen
<1>4. Has(InHand, m) = 0 /\ Popping(m) = 0 /\ Popping(m)' = 0 /\ Has(InHand', m) = One(x = m)
  BY <1>1, <1>3, NoneInHand DEF At, Has, One
<1>5. CASE waiting # <<>> /\ x = Head(waiting) /\ waiting' = Tail(waiting) /\ unsent' = unsent
  <2>1. Count(waiting, m) = One(x = m) + Count(waiting', m) /\ waiting' \in Seq(Messages)
    BY <1>2, <1>5, CountTail
  <2>2. Count(waiting', m) \in Nat /\ One(x = m) \in {0, 1}
    BY <2>1, CountType DEF One
  <2>3. rows' = rows /\ unsent' = unsent /\ lost' = lost /\ steering' = steering
    BY <1>1, <1>5 DEF Start
  <2>4. PICK o \in {0, 1} : o = One(x = m)
    BY DEF One
  <2>5. /\ Count(waiting, m) = o + Count(waiting', m) /\ Count(waiting', m) \in Nat
        /\ Has(InHand', m) = o /\ Has(InHand, m) = 0 /\ Popping(m) = 0 /\ Popping(m)' = 0
    BY <1>4, <2>1, <2>2, <2>4
  <2>6. /\ Has(unsent', m) = Has(unsent, m) /\ Has(lost', m) = Has(lost, m)
        /\ Count(steering', m) = Count(steering, m)
        /\ Cardinality(Texts(rows', m)) = Cardinality(Texts(rows, m))
    BY <2>3
  <2> QED
    BY <2>5, <2>6, SumIsOne DEF PlacesNext
<1>6. CASE waiting = <<>> /\ x \in unsent /\ unsent' = unsent \ {x} /\ waiting' = waiting
  <2>1. Has(unsent, m) = One(x = m) + Has(unsent', m) /\ Has(unsent', m) \in Nat
        /\ One(x = m) \in Nat
    BY <1>6 DEF Has, One
  <2>2. waiting' = waiting /\ steering' = steering /\ lost' = lost /\ rows' = rows
    BY <1>6 DEF Start
  <2> QED
    BY <1>4, <2>1, <2>2, SumIsOne DEF PlacesNext
<1> QED
  BY <1>5, <1>6 DEF Start

\* A rewind loses the user rows it drops, but the one it asks again.
LEMMA MessagesRewind ==
  ASSUME IInv, NEW i \in DOMAIN rows, Rewind(i)
  PROVE  MessagesOnce'
<1>1. TypeOK /\ HistoryIsLegal /\ rows \in Seq(Row) /\ waiting \in Seq(Messages)
      /\ rows[i].role # "tool"
  BY DEF IInv, TypeOK, Rewind
<1>2. /\ turn.at = "idle" /\ turn'.at = "open"
      /\ turn'.message = IF IsUser(rows[i]) THEN rows[i].message ELSE None
  BY <1>1, RewindFields
<1>3. CutAt(i) /\ Len(rows') = i - 1 /\ i \in 1 .. Len(rows) /\ Len(rows) \in Nat
      /\ rows' = SubSeq(rows, 1, LegalEnd(i - 1))
  <2>1. rows' = SubSeq(rows, 1, LegalEnd(i - 1))
    BY DEF Rewind
  <2> QED
    BY <1>1, <2>1, RewindKeeps DEF CutAt
<1> DEFINE c == {rows[j].message : j \in {k \in i .. Len(rows) : IsUser(rows[k])}}
<1>4. lost' = lost \cup (c \ InHand')
  <2> DEFINE kept == SubSeq(rows, 1, LegalEnd(i - 1))
             cut == {rows[j].message : j \in {k \in Len(kept) + 1 .. Len(rows) : IsUser(rows[k])}}
  <2>1. cut = c
    <3>1. Len(kept) + 1 = i
      <4>1. kept = rows'
        BY <1>3
      <4> HIDE DEF kept
      <4>2. i \in Int /\ Len(rows') = i - 1
        BY <1>3
      <4>3. Len(kept) = i - 1
        BY <4>1, <4>2
      <4> QED
        BY <4>2, <4>3
    <3> HIDE DEF kept
    <3> QED
      BY <3>1
  <2>2. CASE IsUser(rows[i])
    <3>1. lost' = lost \cup (cut \ {rows[i].message})
      BY <2>2 DEF Rewind
    <3>2. rows[i].message # None
      <4>1. rows[i] \in Row
        BY <1>1
      <4>2. rows[i].message \in Messages
        BY <2>2, <4>1 DEF IsUser, Row
      <4> QED
        BY <4>2, Names
    <3>3. InHand' = {rows[i].message}
      BY <1>2, <2>2, <3>2 DEF InHand, At
    <3> HIDE DEF c, cut
    <3> QED
      BY <2>1, <3>1, <3>3
  <2>3. CASE ~IsUser(rows[i])
    <3>1. lost' = lost \cup cut
      BY <2>3 DEF Rewind
    <3>2. InHand' = {}
      BY <1>2, <2>3 DEF InHand, At
    <3> HIDE DEF c, cut
    <3> QED
      BY <2>1, <3>1, <3>2
  <2> QED
    BY <2>2, <2>3
<1>5. InHand' \subseteq c
  <2>1. CASE IsUser(rows[i])
    <3>1. i \in i .. Len(rows)
      BY <1>3
    <3>2. rows[i].message \in c
      BY <2>1, <3>1
    <3> QED
      BY <1>2, <2>1, <3>2 DEF InHand, At
  <2>2. CASE ~IsUser(rows[i])
    BY <1>2, <2>2 DEF InHand, At
  <2> QED
    BY <2>1, <2>2
<1> SUFFICES ASSUME NEW m \in Messages PROVE PlacesNext(m)
  BY PlacesThen
<1>6. Has(InHand, m) = 0 /\ Popping(m) = 0 /\ Popping(m)' = 0
  BY <1>2, NoneInHand DEF At
<1>7. Cardinality(Texts(rows, m)) <= 1 /\ Cardinality(Texts(rows, m)) \in Nat
  BY <1>6, SumOfOne
<1>8. Cardinality(Texts(rows', m)) = IF m \in c THEN 0 ELSE Cardinality(Texts(rows, m))
  BY <1>1, <1>3, <1>7, TextsCut
<1>9. m \in c => Cardinality(Texts(rows, m)) = 1
  <2>1. ASSUME m \in c PROVE Texts(rows, m) # {}
    <3>1. PICK j \in i .. Len(rows) : IsUser(rows[j]) /\ rows[j].message = m
      BY <2>1
    <3>2. j \in DOMAIN rows
      <4>1. DOMAIN rows = 1 .. Len(rows)
        BY <1>1
      <4> QED
        BY <1>3, <4>1
    <3> QED
      BY <3>1, <3>2 DEF Texts
  <2>2. Cardinality(Texts(rows, m)) = 0 <=> Texts(rows, m) = {}
    BY <1>1, TextsType
  <2> HIDE DEF c
  <2> QED
    BY <1>7, <2>1, <2>2
<1> HIDE DEF c
<1>10. unsent' = unsent /\ waiting' = waiting /\ steering' = steering
  BY DEF Rewind
<1>11. CASE m \in c
  <2>1. Has(unsent, m) = 0 /\ Has(lost, m) = 0 /\ Count(waiting, m) = 0 /\ Count(steering, m) = 0
    BY <1>6, <1>9, <1>11, SumOfOne
  <2>2. Has(lost', m) + Has(InHand', m) = 1
    BY <1>4, <1>5, <1>11, <2>1 DEF Has
  <2> QED
    BY <1>6, <1>8, <1>10, <1>11, <2>1, <2>2 DEF PlacesNext, Has
<1>12. CASE m \notin c
  <2>1. Has(lost', m) = Has(lost, m) /\ Has(InHand', m) = 0
    BY <1>4, <1>5, <1>12 DEF Has
  <2> QED
    BY <1>6, <1>8, <1>10, <1>12, <2>1, SumOfOne DEF PlacesNext
<1> QED
  BY <1>11, <1>12

\* A steer leaves the unsent ones for the queue.
LEMMA MessagesSteer ==
  ASSUME IInv, NEW x \in Messages, Steer(x)
  PROVE  MessagesOnce'
<1>1. /\ TypeOK /\ PoppedIsWritten /\ steering \in Seq(Messages)
      /\ x \in unsent /\ unsent' = unsent \ {x} /\ steering' = Append(steering, x)
      /\ rows' = rows /\ waiting' = waiting /\ lost' = lost /\ turn' = turn
  BY DEF IInv, TypeOK, Steer
<1> SUFFICES ASSUME NEW m \in Messages PROVE PlacesNext(m)
  BY PlacesThen
<1>2. Count(steering', m) = Count(steering, m) + One(x = m)
  BY <1>1, CountAppend
<1>3. Has(unsent, m) = One(x = m) + Has(unsent', m) /\ Has(unsent', m) \in {0, 1} /\ One(x = m) \in {0, 1}
  BY <1>1 DEF Has, One
<1>4. Popping(m)' = Popping(m)
  <2>1. CASE steering = <<>>
    BY <1>1, <2>1 DEF PoppedIsWritten, Popping, At
  <2>2. CASE steering # <<>>
    <3>1. Head(steering') = Head(steering)
      BY <1>1, <2>2, HeadTailAppend
    <3> QED
      BY <1>1, <3>1 DEF Popping, At
  <2> QED
    BY <2>1, <2>2
<1>5. Has(InHand', m) = Has(InHand, m)
  BY <1>1 DEF InHand, At, Has
<1>6. rows' = rows /\ waiting' = waiting /\ lost' = lost
  BY <1>1
<1>7. Has(unsent', m) \in Nat /\ One(x = m) \in Nat
  BY <1>3
<1> QED
  BY <1>2, <1>3, <1>4, <1>5, <1>6, <1>7, SumIsOne DEF PlacesNext

\* What a turn leaves steering joins what waits for the next.
LEMMA MessagesClose ==
  ASSUME IInv, CloseQueue
  PROVE  MessagesOnce'
<1>1. /\ TypeOK /\ steering \in Seq(Messages) /\ waiting \in Seq(Messages)
      /\ turn.at = "ended" /\ turn'.at = "idle" /\ rows' = rows
      /\ waiting' = steering \o waiting /\ steering' = <<>> /\ lost' = lost /\ unsent' = unsent
  BY DoneFields DEF IInv, TypeOK, CloseQueue, At
<1> SUFFICES ASSUME NEW m \in Messages PROVE PlacesNext(m)
  BY PlacesThen
<1>2. Count(waiting', m) = Count(steering, m) + Count(waiting, m)
  BY <1>1, CountConcat
<1>3. Count(steering', m) = 0
  BY <1>1, CountNothing
<1>4. Has(InHand, m) = 0 /\ Has(InHand', m) = 0 /\ Popping(m) = 0 /\ Popping(m)' = 0
  BY <1>1, NoneInHand DEF At
<1>5. rows' = rows /\ lost' = lost /\ unsent' = unsent
  BY <1>1
<1> QED
  BY <1>2, <1>3, <1>4, <1>5, SumIsOne DEF PlacesNext

\* A crash loses what waits, and no row.
LEMMA MessagesCrash ==
  ASSUME IInv, Crash
  PROVE  MessagesOnce'
<1>1. /\ TypeOK /\ steering \in Seq(Messages) /\ waiting \in Seq(Messages) /\ rows \in Seq(Row)
      /\ turn'.at = "idle" /\ rows' = rows
      /\ waiting' = <<>> /\ steering' = <<>> /\ unsent' = unsent
      /\ lost' = lost \cup ((ToSet(waiting) \cup ToSet(steering) \cup InHand) \ Written)
  BY DoneFields DEF IInv, TypeOK, Crash
<1> SUFFICES ASSUME NEW m \in Messages PROVE PlacesNext(m)
  BY PlacesThen
<1>2. Count(waiting', m) = 0 /\ Count(steering', m) = 0
  BY <1>1, CountNothing
<1>3. Has(InHand', m) = 0 /\ Popping(m)' = 0
  BY <1>1, NoneInHand DEF At
<1>4. Count(waiting, m) = 0 <=> m \notin ToSet(waiting)
  BY <1>1, CountType
<1>5. Count(steering, m) = 0 <=> m \notin ToSet(steering)
  BY <1>1, CountType
<1>6. Cardinality(Texts(rows, m)) = 0 <=> m \notin Written
  <2>1. Texts(rows, m) = {} <=> m \notin Written
    BY DEF Texts, Written
  <2> QED
    BY <1>1, <2>1, TextsType
<1>7. CASE m \in Written
  <2>1. Has(lost', m) = Has(lost, m)
    BY <1>1, <1>7 DEF Has
  <2>2. Cardinality(Texts(rows, m)) = 1 /\ Has(unsent, m) = 0 /\ Has(lost, m) = 0
    BY <1>6, <1>7, SumOfOne
  <2> QED
    BY <1>1, <1>2, <1>3, <2>1, <2>2 DEF PlacesNext
<1>8. CASE m \notin Written
  <2>1. Has(lost', m) = IF m \in ToSet(waiting) \/ m \in ToSet(steering) \/ m \in InHand
                          THEN 1 ELSE Has(lost, m)
    BY <1>1, <1>8 DEF Has
  <2>2. Has(InHand, m) = IF m \in InHand THEN 1 ELSE 0
    BY DEF Has
  <2>3. Cardinality(Texts(rows, m)) = 0 /\ Popping(m) = 0
    BY <1>6, <1>8, SumOfOne
  <2>4. Has(unsent, m) + Has(lost', m) = 1
    BY <1>4, <1>5, <2>1, <2>2, <2>3, SumOfOne
  <2> QED
    BY <1>1, <1>2, <1>3, <2>3, <2>4 DEF PlacesNext, Has
<1> QED
  BY <1>7, <1>8

\* A message in hand becomes a row, or is lost with its turn.
LEMMA MessagesOpen ==
  ASSUME IInv, Open
  PROVE  MessagesOnce'
<1>1. /\ TypeOK /\ rows \in Seq(Row) /\ turn \in Turn /\ turn.at = "open"
      /\ waiting' = waiting /\ steering' = steering /\ unsent' = unsent
  BY DEF IInv, TypeOK, Open, At
<1> SUFFICES ASSUME NEW m \in Messages PROVE PlacesNext(m)
  BY PlacesThen
<1>2. Popping(m) = 0
  BY <1>1, NoneInHand DEF At
<1>3. CASE /\ turn.message = None /\ Goes("top") /\ rows' = rows /\ lost' = lost
  <2>1. turn'.at = "top"
    BY <1>1, <1>3, GoesFields
  <2>2. Has(InHand', m) = 0 /\ Popping(m)' = 0
    BY <2>1, NoneInHand DEF At
  <2>3. Has(InHand, m) = 0
    BY <1>3 DEF Has, InHand
  <2> QED
    BY <1>1, <1>2, <1>3, <2>2, <2>3, SumOfOne DEF PlacesNext
<1>4. CASE /\ turn.message # None /\ WriteStep(<<User(turn.message, turn.again)>>)
           /\ turn' = [turn EXCEPT !.at = "top", !.first = Len(rows) + 1] /\ lost' = lost
  <2> DEFINE r == User(turn.message, turn.again)
  <2>1. turn.message \in Messages /\ turn.again \in BOOLEAN /\ turn'.at = "top"
    BY <1>1, <1>4 DEF Turn
  <2>2. r \in Row
    BY <1>1, <2>1, OwnRows
  <2>3. Grew(r)
    BY <1>1, <1>4, <2>2, OneMoreRow DEF Grew
  <2>4. One(IsUser(r) /\ r.message = m) = Has(InHand, m)
    BY <1>1, <1>4 DEF One, Has, InHand, User, IsUser, At
  <2> HIDE DEF r
  <2>5. Cardinality(Texts(rows', m)) = Cardinality(Texts(rows, m)) + Has(InHand, m)
    BY <1>1, <2>3, <2>4, TextsGrew
  <2>6. Has(InHand', m) = 0 /\ Popping(m)' = 0
    BY <2>1, NoneInHand DEF At
  <2>7. waiting' = waiting /\ steering' = steering /\ unsent' = unsent /\ lost' = lost
    BY <1>1, <1>4
  <2> QED
    BY <1>2, <2>5, <2>6, <2>7, SumIsOne DEF PlacesNext
<1>5. CASE Broken /\ lost' = lost \cup InHand /\ rows' = rows
  <2>1. turn'.at = "ended"
    BY <1>1, <1>5, BrokenTurn
  <2>2. Has(InHand', m) = 0 /\ Popping(m)' = 0
    BY <2>1, NoneInHand DEF At
  <2>3. m \in InHand => Has(InHand, m) = 1
    BY DEF Has
  <2>4. m \notin InHand => Has(InHand, m) = 0
    BY DEF Has
  <2>5. Has(lost', m) = IF m \in InHand THEN 1 ELSE Has(lost, m)
    BY <1>5 DEF Has
  <2>6. Has(lost', m) = Has(lost, m) + Has(InHand, m)
    BY <1>2, <2>3, <2>4, <2>5, SumOfOne
  <2> QED
    BY <1>1, <1>2, <1>5, <2>2, <2>6, SumOfOne DEF PlacesNext
<1>6. CASE /\ turn.message # None /\ WriteStep(<<User(turn.message, turn.again)>>)
           /\ Broken /\ lost' = lost
  <2> DEFINE r == User(turn.message, turn.again)
  <2>1. turn.message \in Messages /\ turn.again \in BOOLEAN /\ turn'.at = "ended"
    BY <1>1, <1>6, BrokenTurn DEF Turn
  <2>2. r \in Row
    BY <1>1, <2>1, OwnRows
  <2>3. Grew(r)
    BY <1>1, <1>6, <2>2, OneMoreRow DEF Grew
  <2>4. One(IsUser(r) /\ r.message = m) = Has(InHand, m)
    BY <1>1, <1>6 DEF One, Has, InHand, User, IsUser, At
  <2> HIDE DEF r
  <2>5. Cardinality(Texts(rows', m)) = Cardinality(Texts(rows, m)) + Has(InHand, m)
    BY <1>1, <2>3, <2>4, TextsGrew
  <2>6. Has(InHand', m) = 0 /\ Popping(m)' = 0
    BY <2>1, NoneInHand DEF At
  <2>7. waiting' = waiting /\ steering' = steering /\ unsent' = unsent /\ lost' = lost
    BY <1>1, <1>6
  <2> QED
    BY <1>2, <2>5, <2>6, <2>7, SumIsOne DEF PlacesNext
<1> QED
  BY <1>3, <1>4, <1>5, <1>6 DEF Open

\* The steer taken off the queue is the one already among the rows.
LEMMA MessagesPop ==
  ASSUME IInv, Pop
  PROVE  MessagesOnce'
<1>1. /\ TypeOK /\ steering \in Seq(Messages) /\ steering # <<>> /\ turn.at = "pop"
      /\ turn'.at = "drain" /\ rows' = rows /\ waiting' = waiting /\ unsent' = unsent
      /\ lost' = lost /\ steering' = Tail(steering)
  BY GoesFields DEF IInv, TypeOK, Pop, At, PoppedIsWritten
<1> SUFFICES ASSUME NEW m \in Messages PROVE PlacesNext(m)
  BY PlacesThen
<1>2. Has(InHand, m) = 0 /\ Has(InHand', m) = 0 /\ Popping(m)' = 0
  BY <1>1, NoneInHand DEF At
<1>3. Popping(m) = One(Head(steering) = m)
  BY <1>1 DEF Popping, At, One
<1>4. Count(steering, m) = One(Head(steering) = m) + Count(steering', m) /\ steering' \in Seq(Messages)
  BY <1>1, CountTail
<1>5. Count(steering', m) \in Nat
  BY <1>4, CountType
<1>6. rows' = rows /\ waiting' = waiting /\ unsent' = unsent /\ lost' = lost
      /\ One(Head(steering) = m) \in Nat
  BY <1>1 DEF One
<1> QED
  BY <1>2, <1>3, <1>4, <1>5, <1>6, SumIsOne DEF PlacesNext

\* No step loses a message from sight or puts it in two places.
LEMMA MessagesStep ==
  ASSUME IInv, Next
  PROVE  MessagesOnce'
<1>0. TypeOK /\ rows \in Seq(Row) /\ BatchInOrder
  BY DEF IInv, TypeOK
<1>1. CASE /\ turn.at \notin {"open", "pop"} /\ turn.at # "idle"
           /\ UNCHANGED <<unsent, waiting, steering, lost>>
  <2> SUFFICES ASSUME NEW m \in Messages PROVE PlacesNext(m)
    BY PlacesThen
  <2>1. Has(InHand, m) = 0 /\ Popping(m) = 0
    BY <1>1, NoneInHand DEF At
  <2>2. CASE Steered
    <3> DEFINE r == User(Head(steering), TRUE)
    <3>1. Grew(r) /\ turn'.at = "pop"
      BY <2>2 DEF Steered
    <3>2. IsUser(r) /\ r.message = Head(steering)
      BY DEF User, IsUser
    <3> HIDE DEF r
    <3>3. Cardinality(Texts(rows', m)) = Cardinality(Texts(rows, m)) + One(Head(steering) = m)
      BY <1>0, <3>1, <3>2, TextsGrew
    <3>4. Popping(m)' = One(Head(steering) = m)
      BY <1>1, <3>1 DEF Popping, At, One
    <3>5. Has(InHand', m) = 0
      BY <3>1, NoneInHand DEF At
    <3>6. One(Head(steering) = m) \in {0, 1}
      BY DEF One
    <3> QED
      BY <1>1, <2>1, <3>3, <3>4, <3>5, <3>6, SumOfOne DEF PlacesNext
  <2>3. CASE ~Steered
    <3>1. turn'.at \notin {"open", "pop"}
      BY <1>1, <2>3, TurnStep DEF TurnStepIs, Begins, Opens, Asks, Replies, Quiet, Writes, Breaks,
                                  Leaves, Waits
    <3>2. Has(InHand', m) = 0 /\ Popping(m)' = 0
      BY <3>1, NoneInHand DEF At
    <3>3. Cardinality(Texts(rows', m)) = Cardinality(Texts(rows, m))
      <4>1. CASE rows' = rows
        BY <4>1
      <4>2. CASE Writes
        <5> DEFINE r == Assistant(0)
        <5>1. One(IsUser(r) /\ r.message = m) = 0
          BY DEF One, IsUser, Assistant
        <5> HIDE DEF r
        <5>2. CASE Grew(r)
          <6>1. Cardinality(Texts(rows, m)) \in Nat
            BY <1>0, TextsType
          <6> QED
            BY <1>0, <5>1, <5>2, <6>1, TextsGrew
        <5>3. CASE \E n \in Nat : GrewBatch(n)
          BY <1>0, <5>3, TextsBatch
        <5> QED
          BY <4>2, <5>2, <5>3 DEF Writes, r
      <4> QED
        BY <1>1, <2>3, <4>1, <4>2, TurnStep
           DEF TurnStepIs, Begins, Opens, Asks, Replies, Quiet, Breaks, BreaksLate, Leaves, Waits
    <3> QED
      BY <1>1, <2>1, <3>2, <3>3, SumOfOne DEF PlacesNext
  <2> QED
    BY <2>2, <2>3
<1>2. CASE (\E m \in Messages : Start(m)) \/ (\E i \in DOMAIN rows : Rewind(i))
           \/ (\E m \in Messages : Steer(m)) \/ CloseQueue \/ Crash \/ Open \/ Pop
  BY <1>2, MessagesStart, MessagesRewind, MessagesSteer, MessagesClose, MessagesCrash, MessagesOpen,
     MessagesPop
<1>3. CASE Stop
  <2> SUFFICES ASSUME NEW m \in Messages PROVE PlacesNext(m)
    BY PlacesThen
  <2>1. Popping(m)' = Popping(m) /\ Has(InHand', m) = Has(InHand, m)
    BY <1>3 DEF Stop, Popping, Has, InHand, At
  <2> QED
    BY <1>3, <2>1, SumOfOne DEF Stop, PlacesNext
<1>4. CASE \/ Top \/ Drain \/ Request \/ StreamStops \/ (\E c \in Completions : Reply(c)) \/ Finish
           \/ RunTools \/ Close
  BY <1>1, <1>4 DEF Top, Drain, Request, StreamStops, Reply, Finish, RunTools, Close, At
<1>5. CASE RefuseRest \/ (\E a, d : Dispatch(a, d)) \/ Decide \/ (\E i \in turn.flying : Land(i))
  BY <1>0, <1>1, <1>5, BatchFields
<1>6. CASE \E i \in turn.flying : DelegationFails(i)
  BY <1>1, <1>6 DEF DelegationFails, At
<1> QED
  BY <1>2, <1>3, <1>4, <1>5, <1>6 DEF Next, LoopStep, OwnStep, AwaitedStep

-----------------------------------------------------------------------------
(* The invariant, and what it gives                                        *)

LEMMA InitIsInv == Init => IInv
<1> SUFFICES ASSUME Init PROVE IInv
  OBVIOUS
<1>1. rows = <<>> /\ unsent = Messages /\ waiting = <<>> /\ steering = <<>> /\ lost = {}
      /\ token = FALSE /\ turn = Idle /\ faults = 0
  BY DEF Init
<1>2. rows \in Seq(Row) /\ waiting \in Seq(Messages) /\ steering \in Seq(Messages)
      /\ DOMAIN rows = {}
  BY <1>1
<1>3. TypeOK
  BY <1>1, <1>2, IdleTurn DEF TypeOK
<1>4. turn.at = "idle" /\ turn.stop = "none" /\ turn.message = None
  BY <1>1 DEF Idle
<1>5. HistoryIsLegal /\ RowsOfTurns /\ SteersHeard /\ SteersAreAnswered
  BY <1>2 DEF HistoryIsLegal, RowsOfTurns, SteersHeard, SteersBehind, SteersAreAnswered
<1>6. /\ QuestionIsStored /\ BatchInOrder /\ PoppedIsWritten /\ RequestIsWhole /\ RequestIsLegal
      /\ BrokenEnds /\ AnsweredHasFigures
  BY <1>4 DEF QuestionIsStored, BatchInOrder, PoppedIsWritten, RequestIsWhole, RequestIsLegal,
              BrokenEnds, AnsweredHasFigures, At
<1>7. StepsSumToTurn
  BY <1>4 DEF StepsSumToTurn, At
<1>8. MessagesOnce
  <2> SUFFICES ASSUME NEW m \in Messages
               PROVE  Has(unsent, m) + Has(lost, m) + Has(InHand, m) + Count(waiting, m)
                        + Count(steering, m) + Cardinality(Texts(rows, m)) - Popping(m) = 1
    BY DEF MessagesOnce, Has, Texts, Popping
  <2>1. Count(waiting, m) = 0 /\ Count(steering, m) = 0
    BY <1>1, CountNothing
  <2>2. Cardinality(Texts(rows, m)) = 0
    <3>1. Texts(rows, m) = {}
      BY <1>2 DEF Texts
    <3> QED
      BY <3>1, FS_EmptySet
  <2>3. Has(InHand, m) = 0 /\ Popping(m) = 0
    BY <1>4, NoneInHand DEF At
  <2>4. Has(unsent, m) = 1 /\ Has(lost, m) = 0
    BY <1>1 DEF Has
  <2> QED
    BY <2>1, <2>2, <2>3, <2>4
<1> QED
  BY <1>3, <1>5, <1>6, <1>7, <1>8 DEF IInv

\* A step that changes nothing.
LEMMA InvStutters ==
  ASSUME IInv, UNCHANGED vars
  PROVE  IInv'
<1>1. /\ rows' = rows /\ unsent' = unsent /\ waiting' = waiting /\ steering' = steering
      /\ lost' = lost /\ token' = token /\ turn' = turn /\ faults' = faults
  BY DEF vars
<1>2. TypeOK' /\ HistoryIsLegal' /\ RowsOfTurns' /\ QuestionIsStored'
  BY <1>1 DEF IInv, TypeOK, HistoryIsLegal, RowsOfTurns, QuestionIsStored, At, IsUser
<1>3. BatchInOrder'
  BY <1>1 DEF IInv, BatchInOrder, At, Calls
<1>4. PoppedIsWritten' /\ RequestIsWhole' /\ SteersHeard' /\ BrokenEnds' /\ AnsweredHasFigures'
  BY <1>1 DEF IInv, PoppedIsWritten, RequestIsWhole, SteersHeard, SteersBehind, BrokenEnds,
              AnsweredHasFigures, At,
              IsUser, Written
<1>5. RequestIsLegal'
  BY <1>1 DEF IInv, RequestIsLegal, At
<1>6. SteersAreAnswered'
  BY <1>1 DEF IInv, SteersAreAnswered, At, IsUser
<1>7. StepsSumToTurn'
  <2>1. Stored' = Stored
    BY <1>1, StoredIs
  <2> QED
    BY <1>1, <2>1 DEF IInv, StepsSumToTurn, At
<1>8. MessagesOnce'
  BY <1>1 DEF IInv, MessagesOnce, InHand, At, IsUser
<1> QED
  BY <1>2, <1>3, <1>4, <1>5, <1>6, <1>7, <1>8 DEF IInv

\* What holds of the rows, the queues and the turn together in every state a
\* session reaches.  They are proved together, since most of them need the others.
THEOREM LoopInvariant == Spec => []IInv
<1>1. IInv /\ [Next]_vars => IInv'
  <2> SUFFICES ASSUME IInv, [Next]_vars PROVE IInv'
    OBVIOUS
  <2>1. CASE UNCHANGED vars
    BY <2>1, InvStutters
  <2>2. CASE Next
    <3>1. TypeOK' /\ HistoryIsLegal' /\ RowsOfTurns'
      BY <2>2, TypeStep, LegalStep, RowsOfTurnsStep
    <3>2. QuestionIsStored' /\ BatchInOrder' /\ PoppedIsWritten'
      BY <2>2, QuestionStep, BatchStep, PoppedStep
    <3>3. RequestIsWhole' /\ BrokenEnds' /\ AnsweredHasFigures' /\ RequestIsLegal'
      BY <2>2, WholeStep, RequestStep
    <3>4. SteersHeard' /\ SteersAreAnswered' /\ MessagesOnce' /\ StepsSumToTurn'
      BY <2>2, SteersHeardStep, MessagesStep, StepsStep
    <3> QED
      BY <3>1, <3>2, <3>3, <3>4 DEF IInv
  <2> QED
    BY <2>1, <2>2
<1> QED
  BY <1>1, InitIsInv, PTL DEF Spec

\* The loop's state stays what its code declares, and every row a turn stores
\* is a well-formed one (session_store.rs, agent_loop.rs).
THEOREM LoopTypes == Spec => []TypeOK
<1>1. IInv => TypeOK
  BY DEF IInv
<1> QED
  BY <1>1, LoopInvariant, PTL

\* Stored history is always one a provider accepts, whatever the messages, the
\* batches and the limits: write_step stores a batch in one transaction and in
\* call order, and a rewind cuts at a row that is no result.
THEOREM HistoryStaysLegal == Spec => []HistoryIsLegal
<1>1. IInv => HistoryIsLegal
  BY DEF IInv
<1> QED
  BY <1>1, LoopInvariant, PTL

\* Every request is legal, carries its question while that is among the newest
\* rows, takes older turns only while the budget holds them, and is empty only
\* when the newest rows are all tool results (history_window_start,
\* token_window_start, find_legal_start).
THEOREM RequestsStayLegal == Spec => []RequestIsLegal
<1>1. IInv => RequestIsLegal
  BY DEF IInv
<1> QED
  BY <1>1, LoopInvariant, PTL

\* No message is lost without a report, written twice, or both written and
\* handed back (drain_steering, SteeringQueue::close, truncate_after).
THEOREM MessagesAreInOnePlace == Spec => []MessagesOnce
<1>1. IInv => MessagesOnce
  BY DEF IInv
<1> QED
  BY <1>1, LoopInvariant, PTL

\* The figures on a turn's rows and those that wait sum to what its requests
\* reported (note_step, take_step).
THEOREM FiguresSumToTurn == Spec => []StepsSumToTurn
<1>1. IInv => StepsSumToTurn
  BY DEF IInv
<1> QED
  BY <1>1, LoopInvariant, PTL

\* A turn that ends with an answer, or out of iterations or time, has had the
\* model's answer to every steer it stored (run_turn: steers are drained only
\* where a request follows).
THEOREM StoredSteersAreAnswered == Spec => []SteersAreAnswered
<1>1. IInv => SteersAreAnswered
  BY DEF IInv
<1> QED
  BY <1>1, LoopInvariant, PTL

=============================================================================
