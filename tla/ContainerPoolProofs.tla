------------------------- MODULE ContainerPoolProofs -------------------------
(* Theorems about ContainerPool, for any number of places, commands and      *)
(* containers, and any cap.                                                  *)
EXTENDS ContainerPool, FiniteSetTheorems, TLAPS

-----------------------------------------------------------------------------
(* The inductive invariant. *)

\* Where a process is, or will be when its drops are done.
Ending(p, goals) == \/ proc[p].at \in goals
                    \/ proc[p].at \in {"drop", "stop"} /\ proc[p].next \in goals

Goals == {"resolve", "mint", "ensure", "room", "start", "halted", "invalid", "over"}

\* Only a command runs commands.
JobInv ==
  \A p \in Procs :
    /\ proc[p].at # "idle" /\ proc[p].job = "command" => p \in Commands
    /\ proc[p].at \in {"check", "run", "inside", "stale"} => proc[p].job = "command"
    /\ Ending(p, {"resolve", "mint"}) => proc[p].job \in {"command", "warm"}

\* Making a container: from the start lock to the map.
Making(p)  == Ending(p, {"room", "start"}) \/ proc[p].at = "insert"
LockInv ==
  \A p \in Procs : Making(p) \/ Ending(p, {"halted"}) => starting = p

\* Meanwhile the place stays empty, and once room was made there is room, of which
\* the drops still to come are part.
MakingInv ==
  \A p \in Procs : Making(p) => proc[p].key \in Keys /\ entry[proc[p].key] = None
Left(p) == IF proc[p].at \in {"drop", "stop"} THEN Live \ proc[p].doomed ELSE Live
RoomInv ==
  MaxLive # 0 =>
    \A p \in Procs : Ending(p, {"start"}) \/ proc[p].at = "insert"
                       => Cardinality(Left(p)) < MaxLive

\* The map is within the cap.
CapHolds == MaxLive # 0 => Cardinality(Live) <= MaxLive

\* A container is in one place of the map, or in one pair of hands.
Holding(p) == proc[p].at \in {"insert", "stop"}
NamesInv ==
  /\ \A k \in Live, j \in Live : entry[k].name = entry[j].name => k = j
  /\ \A k \in Live : up[entry[k].name] \in {k, None}
  /\ \A p \in Procs : Holding(p) =>
       /\ proc[p].hand \in Names
       /\ \A k \in Live : entry[k].name # proc[p].hand
       /\ \A q \in Procs : Holding(q) /\ proc[q].hand = proc[p].hand => q = p
  /\ \A p \in Procs : proc[p].at = "insert" => up[proc[p].hand] \in {proc[p].key, None}

\* What a command is in is of its place, if it is in the map at all.
InsideInv ==
  \A p \in Procs : proc[p].at = "inside" =>
    /\ proc[p].hand \in Names
    /\ \A k \in Live : entry[k].name = proc[p].hand => k = proc[p].key
    /\ \A q \in Procs : proc[q].at = "insert" => proc[q].hand # proc[p].hand

\* Where there is a place to speak of, and a definition to start from.
KeyInv ==
  \A p \in Procs :
    /\ proc[p].at \in {"check", "lock", "run", "inside", "stale", "halt", "insert"}
         => proc[p].key \in Keys
    /\ Ending(p, {"resolve", "mint", "ensure", "room", "start", "halted"})
         => proc[p].key \in Keys
    /\ proc[p].at = "lock" \/ Making(p) => proc[p].digest \in Digests
    /\ proc[p].at \in {"drop", "stop"} => proc[p].next \in Goals

PoolInv == /\ TypeOK /\ JobInv /\ KeyInv /\ LockInv /\ MakingInv /\ RoomInv /\ CapHolds
           /\ NamesInv /\ InsideInv /\ NothingOrphaned /\ BusyIsReleased

-----------------------------------------------------------------------------
(* Shapes. *)

\* None is not an entry of the map.
LEMMA NoneIsNoEntry == None \notin Entry
BY PoolAssumption

\* A drop's record: the loop when there is something to drop, else what follows.
LEMMA DropShape ==
  ASSUME NEW r \in Proc, NEW K \in SUBSET Keys, NEW why \in Whys, NEW next \in Stages
  PROVE  LET d == Dropping(r, K, why, next) IN
         /\ d \in Proc
         /\ d.at = IF K = {} THEN next ELSE "drop"
         /\ d.next = IF K = {} THEN "idle" ELSE next
         /\ d.doomed = K
         /\ d.key = r.key /\ d.job = r.job /\ d.hand = r.hand /\ d.digest = r.digest
<1>1. CASE K = {}
  BY <1>1 DEF Dropping, Proc, Stages, Whys
<1>2. CASE K # {}
  BY <1>2 DEF Dropping, Proc, Stages, Whys
<1> QED BY <1>1, <1>2

\* A process at rest.
LEMMA RestShape ==
  /\ Rest \in Proc /\ Rest.at = "idle" /\ Rest.hand = None
  /\ Rest.doomed = {} /\ Rest.next = "idle"
BY DEF Rest, Proc, Stages, Jobs, Whys

\* With its container there a command runs; nothing else goes on.
LEMMA ReadyShape ==
  ASSUME NEW r \in Proc
  PROVE  /\ Ready(r) \in Proc
         /\ Ready(r).at = IF r.job = "command" THEN "run" ELSE "idle"
         /\ r.job = "command" => /\ Ready(r).job = "command"
                                /\ Ready(r).key = r.key /\ Ready(r).next = r.next
<1>1. CASE r.job = "command"
  BY <1>1 DEF Ready, Proc, Stages, Jobs, Whys
<1>2. CASE r.job # "command"
  BY <1>2, RestShape DEF Ready
<1> QED BY <1>1, <1>2

\* One process moves, the others do not.
Moves(p) == /\ proc' \in [Procs -> Proc]
            /\ \A q \in Procs : q # p => proc'[q] = proc[q]

\* A step that writes one record moves one process.
LEMMA GoesOne ==
  ASSUME TypeOK, NEW p \in Procs, NEW r \in Proc, Goes(p, r)
  PROVE  Moves(p) /\ proc'[p] = r
BY DEF Goes, TypeOK, Moves

\* What Dropping leaves: a process at its goal, or one about to drop what stands before it.
LEMMA DropsOne ==
  ASSUME TypeOK, NEW p \in Procs, NEW r \in Proc, NEW K \in SUBSET Keys, NEW why \in Whys,
         NEW next \in Stages, Goes(p, Dropping(r, K, why, next))
  PROVE  /\ Moves(p)
         /\ proc'[p].at = IF K = {} THEN next ELSE "drop"
         /\ proc'[p].next = IF K = {} THEN "idle" ELSE next
         /\ proc'[p].doomed = K
         /\ proc'[p].key = r.key /\ proc'[p].job = r.job /\ proc'[p].hand = r.hand
         /\ proc'[p].digest = r.digest
BY DropShape, GoesOne

\* A process that ends is idle, and holds no container.
LEMMA EndsOne ==
  ASSUME TypeOK, NEW p \in Procs, Ends(p)
  PROVE  Moves(p) /\ proc'[p].at = "idle" /\ proc'[p].hand = None
BY RestShape, GoesOne DEF Ends

-----------------------------------------------------------------------------
(* What each action does to its process, and to the map. *)

\* At a goal, or about to drop what stands before it.
Toward(p, goal) == \/ proc'[p].at = goal
                   \/ proc'[p].at = "drop" /\ proc'[p].next = goal
Keeps(p)    == proc'[p].job = proc[p].job /\ proc'[p].key = proc[p].key
SameTask(p) == Keeps(p) /\ proc'[p].digest = proc[p].digest
Idles(p)    == proc'[p].at = "idle" /\ proc'[p].hand = None

\* The places keep their containers, which keep their count of commands.
KeepsMap ==
  \A j \in Keys : /\ entry'[j] = None <=> entry[j] = None
                  /\ entry[j] # None => /\ entry'[j].name = entry[j].name
                                        /\ entry'[j].busy = entry[j].busy

\* What Opens does to its process, and to the map.
LEMMA OpensFacts ==
  ASSUME TypeOK, NEW p \in Procs, NEW k \in Keys, NEW job \in Jobs, Opens(p, k, job)
  PROVE  /\ Moves(p) /\ UNCHANGED <<entry, older, epoch, starting, up, def>>
         /\ proc[p].at = "idle" /\ Toward(p, "resolve")
         /\ proc'[p].job = job /\ proc'[p].key = k
<1> DEFINE r == [Rest EXCEPT !.job = job, !.key = k, !.digest = def]
<1>1. r \in Proc /\ r.job = job /\ r.key = k
  BY DEF Opens, TypeOK, Rest, Proc, Stages, Jobs, Whys
<1>2. IdlePlaces \in SUBSET Keys
  BY DEF IdlePlaces, Live
<1>3. Goes(p, Dropping(r, IdlePlaces, "idle", "resolve"))
  BY DEF Opens
<1> HIDE DEF r
<1>4. QED
  BY <1>1, <1>2, <1>3, DropsOne DEF Opens, map, Stages, Whys, Toward

\* What Resolved does to its process, and to the map.
LEMMA ResolvedFacts ==
  ASSUME TypeOK, KeyInv, NEW p \in Procs, Resolved(p)
  PROVE  /\ TypeOK' /\ Moves(p) /\ UNCHANGED <<starting, up>> /\ KeepsMap
         /\ proc[p].at = "resolve" /\ Toward(p, "mint") /\ SameTask(p)
<1> DEFINE r == proc[p]
           m == [r EXCEPT !.at = "mint"]
<1>1. r \in Proc /\ r.at = "resolve" /\ r.key \in Keys
  BY DEF Resolved, TypeOK, KeyInv, Ending
<1>2. m \in Proc /\ m.at = "mint" /\ m.job = r.job /\ m.key = r.key /\ m.digest = r.digest
  BY <1>1 DEF Proc, Stages
<1>3. CASE entry[r.key] # None /\ entry[r.key].digest = r.digest
  <2>1. Goes(p, m)
    BY <1>3 DEF Resolved
  <2>2. Newest(r.key) \in SUBSET (Keys \X Keys)
    BY <1>1 DEF Newest, Without, Live, TypeOK
  <2>3. entry[r.key] \in Entry
    BY <1>1, <1>3 DEF TypeOK
  <2>4. [entry[r.key] EXCEPT !.idle = FALSE] \in Entry
    BY <2>3 DEF Entry
  <2>5. entry' = [entry EXCEPT ![r.key] = [entry[r.key] EXCEPT !.idle = FALSE]]
    BY <1>1, <1>3 DEF Resolved, TypeOK
  <2>6. entry' \in [Keys -> Entry \cup {None}]
    BY <2>4, <2>5 DEF TypeOK
  <2>7. KeepsMap
    BY <1>1, <1>3, <2>3, <2>4, <2>5, PoolAssumption DEF KeepsMap, TypeOK, Entry
  <2> HIDE DEF m
  <2>8. Moves(p) /\ proc'[p] = m
    BY <1>2, <2>1, GoesOne
  <2>9. QED
    BY <1>1, <1>2, <1>3, <2>2, <2>6, <2>7, <2>8 DEF Resolved, Toward, SameTask, Keeps, Moves, TypeOK
<1>4. CASE ~(entry[r.key] # None /\ entry[r.key].digest = r.digest)
  <2> DEFINE K == IF entry[r.key] = None THEN {} ELSE {r.key}
  <2>1. Goes(p, Dropping(r, K, "changed", "mint")) /\ UNCHANGED <<entry, older>>
    BY <1>4 DEF Resolved, map
  <2>2. K \in SUBSET Keys
    BY <1>1
  <2> HIDE DEF K
  <2>3. QED
    BY <1>1, <2>1, <2>2, DropsOne DEF Resolved, Stages, Whys, Toward, SameTask, Keeps, Moves, KeepsMap, TypeOK
<1>5. QED
  BY <1>3, <1>4

\* What Mint does to its process, and to the map.
LEMMA MintFacts ==
  ASSUME TypeOK, KeyInv, NEW p \in Procs, Mint(p)
  PROVE  /\ TypeOK' /\ Moves(p) /\ UNCHANGED <<entry, starting, up>>
         /\ proc[p].at = "mint" /\ SameTask(p)
         /\ proc'[p].at = IF proc[p].job = "warm" THEN "ensure" ELSE "check"
<1> DEFINE r == proc[p]
           m == [r EXCEPT !.epoch = epoch[r.key],
                          !.at = IF r.job = "warm" THEN "ensure" ELSE "check"]
<1>1. r \in Proc /\ r.at = "mint" /\ epoch[r.key] \in Nat
  BY DEF Mint, TypeOK, KeyInv, Ending
<1>2. m \in Proc /\ m.job = r.job /\ m.key = r.key /\ m.digest = r.digest
      /\ m.at = IF r.job = "warm" THEN "ensure" ELSE "check"
  BY <1>1 DEF Proc, Stages
<1>3. Goes(p, m)
  BY DEF Mint
<1> HIDE DEF m
<1>4. QED
  BY <1>1, <1>2, <1>3, GoesOne DEF Mint, map, SameTask, Keeps, Moves, TypeOK

\* What Check does to its process, and to the map.
LEMMA CheckFacts ==
  ASSUME TypeOK, NEW p \in Procs, Check(p)
  PROVE  /\ TypeOK' /\ Moves(p) /\ UNCHANGED <<entry, starting, up>>
         /\ proc[p].at = "check"
         /\ Idles(p) \/ (proc'[p].at = "ensure" /\ SameTask(p))
<1> DEFINE r == proc[p]
           m == [r EXCEPT !.at = "ensure", !.epoch = 0]
<1>1. r \in Proc /\ r.at = "check"
  BY DEF Check, TypeOK
<1>2. m \in Proc /\ m.job = r.job /\ m.key = r.key /\ m.digest = r.digest /\ m.at = "ensure"
  BY <1>1 DEF Proc, Stages
<1>3. Ends(p) \/ Goes(p, m)
  BY DEF Check
<1> HIDE DEF m
<1>4. QED
  BY <1>1, <1>2, <1>3, GoesOne, EndsOne DEF Check, map, SameTask, Keeps, Idles, Moves, TypeOK

\* On to the command, or done.
Proceeds(p) == \/ Idles(p)
               \/ proc'[p].at = "run" /\ proc'[p].job = "command" /\ Keeps(p)

\* What Ready does to its process, and to the map.
LEMMA ReadyFacts ==
  ASSUME TypeOK, NEW p \in Procs, NEW r \in Proc, r.job = proc[p].job, r.key = proc[p].key,
         Goes(p, Ready(r))
  PROVE  Moves(p) /\ Proceeds(p)
<1>1. CASE r.job = "command"
  BY <1>1, ReadyShape, GoesOne DEF Proceeds, Keeps
<1>2. CASE r.job # "command"
  <2>1. Ends(p)
    BY <1>2 DEF Ready, Ends
  <2>2. QED
    BY <2>1, EndsOne DEF Proceeds, Idles
<1>3. QED
  BY <1>1, <1>2

\* What Ensure does to its process, and to the map.
LEMMA EnsureFacts ==
  ASSUME TypeOK, NEW p \in Procs, Ensure(p)
  PROVE  /\ TypeOK' /\ Moves(p) /\ UNCHANGED <<entry, starting, up>>
         /\ proc[p].at = "ensure"
         /\ \/ Proceeds(p)
            \/ proc'[p].at = "lock" /\ Keeps(p) /\ proc'[p].digest \in Digests
<1> DEFINE r == proc[p]
           m == [r EXCEPT !.digest = def]
           l == [r EXCEPT !.digest = def, !.at = "lock"]
<1>1. r \in Proc /\ r.at = "ensure"
  BY DEF Ensure, TypeOK
<1>2. /\ m \in Proc /\ m.job = r.job /\ m.key = r.key
      /\ l \in Proc /\ l.job = r.job /\ l.key = r.key /\ l.at = "lock" /\ l.digest = def
  BY <1>1 DEF Proc, Stages, TypeOK
<1>3. Ends(p) \/ Goes(p, Ready(m)) \/ (Goes(p, l) /\ def \in Digests)
  BY DEF Ensure, TypeOK
<1> HIDE DEF m, l
<1>4. CASE Ends(p)
  BY <1>1, <1>4, EndsOne DEF Ensure, map, Idles, Proceeds, Moves, TypeOK
<1>5. CASE Goes(p, Ready(m))
  BY <1>1, <1>2, <1>5, ReadyFacts DEF Ensure, map, Moves, TypeOK
<1>6. CASE Goes(p, l) /\ def \in Digests
  BY <1>1, <1>2, <1>6, GoesOne DEF Ensure, map, Keeps, Moves, TypeOK
<1>7. QED
  BY <1>3, <1>4, <1>5, <1>6

\* What Lock does to its process, and to the map.
LEMMA LockFacts ==
  ASSUME TypeOK, KeyInv, NEW p \in Procs, Lock(p)
  PROVE  /\ TypeOK' /\ Moves(p) /\ UNCHANGED <<entry, up>>
         /\ proc[p].at = "lock" /\ proc[p].key \in Keys /\ starting = None
         /\ \/ Proceeds(p) /\ UNCHANGED starting
            \/ /\ entry[proc[p].key] = None /\ starting' = p
               /\ Toward(p, "room") /\ SameTask(p)
<1> DEFINE r == proc[p]
<1>1. r \in Proc /\ r.at = "lock" /\ r.key \in Keys
  BY DEF Lock, TypeOK, KeyInv
<1>2. IdlePlaces \in SUBSET Keys
  BY DEF IdlePlaces, Live
<1>3. CASE entry[r.key] # None
  BY <1>1, <1>3, ReadyFacts DEF Lock, map, Moves, TypeOK
<1>4. CASE entry[r.key] = None
  <2>1. Goes(p, Dropping(r, IdlePlaces, "idle", "room")) /\ starting' = p
    BY <1>4 DEF Lock
  <2>2. QED
    BY <1>1, <1>2, <1>4, <2>1, DropsOne DEF Lock, map, Toward, SameTask, Keeps, Moves, TypeOK, Stages, Whys
<1>5. QED
  BY <1>3, <1>4

\* What Room does to its process, and to the map.
LEMMA RoomFacts ==
  ASSUME TypeOK, NEW p \in Procs, Room(p)
  PROVE  /\ TypeOK' /\ Moves(p) /\ UNCHANGED <<entry, up>>
         /\ proc[p].at = "room"
         /\ \/ /\ ~Full /\ proc'[p].at = "start" /\ SameTask(p) /\ UNCHANGED starting
            \/ /\ \E k \in Live : proc'[p].doomed = {k}
               /\ proc'[p].at = "drop" /\ proc'[p].next = "start"
               /\ SameTask(p) /\ UNCHANGED starting
            \/ Idles(p) /\ starting' = None
<1> DEFINE r == proc[p]
           m == [r EXCEPT !.at = "start"]
<1>1. r \in Proc /\ r.at = "room"
  BY DEF Room, TypeOK
<1>2. m \in Proc /\ m.job = r.job /\ m.key = r.key /\ m.digest = r.digest /\ m.at = "start"
  BY <1>1 DEF Proc, Stages
<1>3. \/ ~Full /\ Goes(p, m) /\ UNCHANGED starting
      \/ (\E k \in Victims : Goes(p, Dropping(r, {k}, "room", "start"))) /\ UNCHANGED starting
      \/ Ends(p) /\ starting' = None
  BY DEF Room
<1> HIDE DEF m
<1>4. CASE ~Full /\ Goes(p, m) /\ UNCHANGED starting
  BY <1>1, <1>2, <1>4, GoesOne DEF Room, map, SameTask, Keeps, Moves, TypeOK
<1>5. CASE (\E k \in Victims : Goes(p, Dropping(r, {k}, "room", "start"))) /\ UNCHANGED starting
  <2>1. PICK k \in Victims : Goes(p, Dropping(r, {k}, "room", "start"))
    BY <1>5
  <2>2. k \in Live /\ {k} \in SUBSET Keys /\ {k} # {}
    BY DEF Victims, Spare, Live
  <2>3. /\ Moves(p) /\ SameTask(p) /\ proc'[p].doomed = {k}
        /\ proc'[p].at = "drop" /\ proc'[p].next = "start"
    BY <1>1, <2>1, <2>2, DropsOne DEF SameTask, Keeps, Stages, Whys
  <2>4. QED
    BY <1>1, <1>5, <2>2, <2>3 DEF Room, map, SameTask, Keeps, Moves, TypeOK, Stages, Whys
<1>6. CASE Ends(p) /\ starting' = None
  BY <1>1, <1>6, EndsOne DEF Room, map, Idles, Moves, TypeOK
<1>7. QED
  BY <1>3, <1>4, <1>5, <1>6

\* What Start does to its process, and to the map.
LEMMA StartFacts ==
  ASSUME TypeOK, KeyInv, NEW p \in Procs, Start(p)
  PROVE  /\ TypeOK' /\ Moves(p) /\ UNCHANGED <<entry, starting>>
         /\ proc[p].at = "start" /\ proc'[p].at = "insert" /\ SameTask(p)
         /\ proc'[p].hand \in Fresh /\ proc'[p].hand \in Names
         /\ up' = [up EXCEPT ![proc'[p].hand] = proc[p].key]
<1> DEFINE r == proc[p]
           n == CHOOSE n \in Fresh : TRUE
           m == [r EXCEPT !.at = "insert", !.hand = n]
<1>1. r \in Proc /\ r.at = "start" /\ r.key \in Keys
  BY DEF Start, TypeOK, KeyInv, Ending
<1>2. n \in Fresh /\ n \in Names
  BY DEF Start, Fresh
<1>3. up' = [up EXCEPT ![n] = r.key] /\ Goes(p, m)
  BY DEF Start
<1> HIDE DEF n
<1>4. m \in Proc /\ m.job = r.job /\ m.key = r.key /\ m.digest = r.digest /\ m.at = "insert" /\ m.hand = n
  BY <1>1, <1>2 DEF Proc, Stages
<1> HIDE DEF m
<1>5. QED
  BY <1>1, <1>2, <1>3, <1>4, GoesOne DEF Start, map, SameTask, Keeps, Moves, TypeOK

\* What StartFails does to its process, and to the map.
LEMMA StartFailsFacts ==
  ASSUME TypeOK, NEW p \in Procs, StartFails(p)
  PROVE  /\ TypeOK' /\ Moves(p) /\ UNCHANGED <<entry, up>>
         /\ proc[p].at = "start" /\ Idles(p) /\ starting' = None
BY EndsOne, PoolAssumption DEF StartFails, Event, map, Idles, Moves, TypeOK

\* What Insert does to its process, and to the map.
LEMMA InsertFacts ==
  ASSUME TypeOK, KeyInv, MakingInv, NamesInv, NEW p \in Procs, Insert(p)
  PROVE  /\ TypeOK' /\ Moves(p) /\ UNCHANGED up
         /\ proc[p].at = "insert" /\ Proceeds(p) /\ starting' = None
         /\ proc[p].key \in Keys /\ entry[proc[p].key] = None
         /\ \A j \in Keys \ {proc[p].key} : entry'[j] = entry[j]
         /\ entry'[proc[p].key] # None
         /\ entry'[proc[p].key].name = proc[p].hand /\ entry'[proc[p].key].busy = 0
<1> DEFINE r == proc[p]
           e == [name |-> r.hand, digest |-> r.digest, busy |-> 0, idle |-> FALSE]
<1>1. r \in Proc /\ r.at = "insert" /\ r.key \in Keys /\ entry[r.key] = None
  BY DEF Insert, TypeOK, MakingInv, Making
<1>2. r.hand \in Names
  BY <1>1 DEF NamesInv, Holding
<1>3. r.digest \in Digests
  BY <1>1 DEF KeyInv, Making
<1>4. e \in Entry /\ e # None /\ e.name = r.hand /\ e.busy = 0
  <2>1. e \in Entry /\ e.name = r.hand /\ e.busy = 0
    BY <1>2, <1>3 DEF Entry
  <2>2. QED
    BY <2>1, NoneIsNoEntry
<1>5. entry' = [entry EXCEPT ![r.key] = e] /\ Goes(p, Ready(r))
  BY DEF Insert
<1> HIDE DEF e
<1>6. entry' \in [Keys -> Entry \cup {None}] /\ entry'[r.key] = e
      /\ \A j \in Keys \ {r.key} : entry'[j] = entry[j]
  BY <1>1, <1>4, <1>5 DEF TypeOK
<1>7. Moves(p) /\ Proceeds(p)
  BY <1>1, <1>5, ReadyFacts
<1>8. older' \in SUBSET (Keys \X Keys)
  BY <1>1 DEF Insert, Newest, Without, Live, TypeOK
<1>9. TypeOK'
  BY <1>6, <1>7, <1>8 DEF Insert, Moves, TypeOK
<1>10. QED
  BY <1>1, <1>4, <1>6, <1>7, <1>9 DEF Insert

\* What Run does to its process, and to the map.
LEMMA RunFacts ==
  ASSUME TypeOK, KeyInv, NEW p \in Procs, Run(p)
  PROVE  /\ TypeOK' /\ Moves(p) /\ UNCHANGED <<starting, up>>
         /\ proc[p].at = "run" /\ proc[p].key \in Keys
         /\ \/ Idles(p) /\ UNCHANGED entry
            \/ /\ proc'[p].at = "inside" /\ SameTask(p) /\ entry[proc[p].key] # None
               /\ proc'[p].hand = entry[proc[p].key].name
               /\ \A j \in Keys \ {proc[p].key} : entry'[j] = entry[j]
               /\ entry'[proc[p].key] # None
               /\ entry'[proc[p].key].name = entry[proc[p].key].name
               /\ entry'[proc[p].key].busy = entry[proc[p].key].busy + 1
<1> DEFINE r == proc[p]
           k == r.key
           m == [r EXCEPT !.at = "inside", !.hand = entry[k].name,
                          !.gone = entry[k].name \notin Up]
           e == [entry[k] EXCEPT !.busy = @ + 1]
<1>1. r \in Proc /\ r.at = "run" /\ k \in Keys
  BY DEF Run, TypeOK, KeyInv
<1>2. CASE entry[k] = None
  BY <1>1, <1>2, EndsOne DEF Run, Idles, Moves, TypeOK
<1>3. CASE entry[k] # None
  <2>1. entry[k] \in Entry
    BY <1>1, <1>3 DEF TypeOK
  <2>2. e \in Entry /\ e.name = entry[k].name /\ e.busy = entry[k].busy + 1
    BY <2>1 DEF Entry
  <2>3. e # None
    BY <2>2, NoneIsNoEntry
  <2>4. entry[k].name \in Names
    BY <2>1 DEF Entry
  <2>5. /\ m \in Proc /\ m.at = "inside" /\ m.job = r.job /\ m.key = r.key
        /\ m.digest = r.digest /\ m.hand = entry[k].name
    BY <1>1, <2>4 DEF Proc, Stages
  <2>6. Goes(p, m) /\ entry' = [entry EXCEPT ![k] = e]
    BY <1>1, <1>3 DEF Run, TypeOK
  <2> HIDE DEF m, e
  <2>7. entry' \in [Keys -> Entry \cup {None}] /\ entry'[k] = e
        /\ \A j \in Keys \ {k} : entry'[j] = entry[j]
    BY <1>1, <2>2, <2>6 DEF TypeOK
  <2>8. Moves(p) /\ proc'[p] = m
    BY <2>5, <2>6, GoesOne
  <2>9. QED
    BY <1>1, <1>3, <2>2, <2>3, <2>5, <2>7, <2>8 DEF Run, SameTask, Keeps, Moves, TypeOK
<1>4. QED
  BY <1>2, <1>3

\* What comes out of a container leaves whatever has the place.
LEMMA ExitFacts ==
  ASSUME TypeOK, KeyInv, NEW p \in Procs, Exit(p)
  PROVE  /\ TypeOK' /\ Moves(p) /\ UNCHANGED <<starting, up>>
         /\ proc[p].at = "inside" /\ proc[p].key \in Keys
         /\ Idles(p) \/ (proc'[p].at = "stale" /\ Keeps(p))
         /\ \A j \in Keys :
              /\ entry'[j] = None <=> entry[j] = None
              /\ entry[j] # None =>
                   /\ entry'[j].name = entry[j].name
                   /\ entry'[j].busy = IF j = proc[p].key /\ entry[j].busy # 0
                                       THEN entry[j].busy - 1 ELSE entry[j].busy
<1> DEFINE r == proc[p]
           k == r.key
           m == [r EXCEPT !.at = "stale", !.hand = None, !.gone = FALSE, !.again = TRUE]
           e == [entry[k] EXCEPT !.busy = IF @ = 0 THEN 0 ELSE @ - 1, !.idle = FALSE]
<1>1. r \in Proc /\ r.at = "inside" /\ k \in Keys
  BY DEF Exit, TypeOK, KeyInv
<1>2. m \in Proc /\ m.at = "stale" /\ m.job = r.job /\ m.key = r.key
  BY <1>1 DEF Proc, Stages
<1>3. Ends(p) \/ Goes(p, m)
  BY DEF Exit
<1> HIDE DEF m
<1>4. Moves(p) /\ (Idles(p) \/ (proc'[p].at = "stale" /\ Keeps(p)))
  BY <1>1, <1>2, <1>3, GoesOne, EndsOne DEF Idles, Keeps
<1>5. CASE entry[k] = None
  <2>1. entry' = entry
    BY <1>5 DEF Exit, Released
  <2>2. QED
    BY <1>1, <1>4, <1>5, <2>1 DEF Exit, Moves, TypeOK
<1>6. CASE entry[k] # None
  <2>1. entry[k] \in Entry
    BY <1>1, <1>6 DEF TypeOK
  <2> DEFINE b == IF entry[k].busy = 0 THEN 0 ELSE entry[k].busy - 1
  <2>b. b \in Nat /\ b = IF entry[k].busy # 0 THEN entry[k].busy - 1 ELSE entry[k].busy
    BY <2>1 DEF Entry
  <2>e. e = [entry[k] EXCEPT !.busy = b, !.idle = FALSE]
    BY <2>1 DEF Entry
  <2> HIDE DEF b
  <2>2. e \in Entry /\ e.name = entry[k].name
        /\ e.busy = IF entry[k].busy # 0 THEN entry[k].busy - 1 ELSE entry[k].busy
    BY <2>1, <2>b, <2>e DEF Entry
  <2>3. e # None
    BY <2>2, NoneIsNoEntry
  <2>4. entry' = [entry EXCEPT ![k] = e]
    BY <1>1, <1>6 DEF Exit, Released, TypeOK
  <2> HIDE DEF e
  <2>5. entry' \in [Keys -> Entry \cup {None}] /\ entry'[k] = e
        /\ \A j \in Keys \ {k} : entry'[j] = entry[j]
    BY <1>1, <2>2, <2>4 DEF TypeOK
  <2>6. TypeOK'
    BY <1>4, <2>5 DEF Exit, Moves, TypeOK
  <2>7. QED
    BY <1>1, <1>4, <1>6, <2>2, <2>3, <2>5, <2>6 DEF Exit
<1>7. QED
  BY <1>5, <1>6

\* What Rebuild does to its process, and to the map.
LEMMA RebuildFacts ==
  ASSUME TypeOK, KeyInv, NEW p \in Procs, Rebuild(p)
  PROVE  /\ TypeOK' /\ Moves(p) /\ UNCHANGED <<entry, starting, up>>
         /\ proc[p].at = "stale"
         /\ Idles(p) \/ (Toward(p, "ensure") /\ Keeps(p))
<1> DEFINE r == proc[p]
<1>1. r \in Proc /\ r.at = "stale" /\ r.key \in Keys
  BY DEF Rebuild, TypeOK, KeyInv
<1>2. CASE Ends(p)
  BY <1>1, <1>2, EndsOne DEF Rebuild, map, Idles, Moves, TypeOK
<1>3. CASE Goes(p, Dropping(r, {r.key}, "gone", "ensure"))
  <2>1. {r.key} \in SUBSET Keys /\ {r.key} # {}
    BY <1>1
  <2>2. Moves(p) /\ Toward(p, "ensure") /\ Keeps(p)
    BY <1>1, <1>3, <2>1, DropsOne DEF Toward, Keeps, Stages, Whys
  <2>3. QED
    BY <1>1, <2>2 DEF Rebuild, map, Moves, TypeOK
<1>4. QED
  BY <1>2, <1>3 DEF Rebuild

\* One place emptied, or found empty.
LEMMA DropFacts ==
  ASSUME TypeOK, NEW p \in Procs, Drop(p)
  PROVE  /\ TypeOK' /\ Moves(p) /\ UNCHANGED <<starting, up>>
         /\ proc[p].at = "drop" /\ SameTask(p)
         /\ proc'[p].at \in {"drop", "stop"} \/ proc'[p].doomed = {}
         /\ \E k \in proc[p].doomed \cap Keys :
              /\ proc'[p].doomed = proc[p].doomed \ {k}
              /\ \/ /\ entry[k] = None /\ UNCHANGED entry /\ Toward(p, proc[p].next)
                 \/ /\ entry[k] # None /\ proc'[p].at = "stop" /\ proc'[p].next = proc[p].next
                    /\ proc'[p].hand = entry[k].name /\ proc'[p].hand \in Names
                    /\ entry' = [entry EXCEPT ![k] = None]
<1> DEFINE r == proc[p]
<1>1. r \in Proc /\ r.at = "drop" /\ r.doomed \in SUBSET Keys /\ r.next \in Stages /\ r.why \in Whys
  BY DEF Drop, TypeOK, Proc
<1>2. PICK k \in r.doomed :
        IF entry[k] = None
        THEN Goes(p, Dropping(r, r.doomed \ {k}, r.why, r.next)) /\ UNCHANGED <<entry, older>>
        ELSE /\ Goes(p, [r EXCEPT !.at = "stop", !.doomed = @ \ {k}, !.hand = entry[k].name])
             /\ entry' = [entry EXCEPT ![k] = None] /\ older' = Without(k)
  BY DEF Drop, map
<1>3. k \in Keys
  BY <1>1
<1>4. CASE entry[k] = None
  <2>1. r.doomed \ {k} \in SUBSET Keys
    BY <1>1
  <2>2. /\ Moves(p) /\ SameTask(p) /\ Toward(p, r.next) /\ proc'[p].doomed = r.doomed \ {k}
        /\ proc'[p].at = "drop" \/ proc'[p].doomed = {}
    BY <1>1, <1>2, <1>4, <2>1, DropsOne DEF Toward, SameTask, Keeps
  <2>3. QED
    BY <1>1, <1>2, <1>3, <1>4, <2>2 DEF Drop, Moves, TypeOK
<1>5. CASE entry[k] # None
  <2> DEFINE m == [r EXCEPT !.at = "stop", !.doomed = @ \ {k}, !.hand = entry[k].name]
  <2>1. entry[k] \in Entry /\ entry[k].name \in Names
    BY <1>3, <1>5 DEF TypeOK, Entry
  <2>2. /\ m \in Proc /\ m.at = "stop" /\ m.doomed = r.doomed \ {k} /\ m.hand = entry[k].name
        /\ m.job = r.job /\ m.key = r.key /\ m.digest = r.digest /\ m.next = r.next
    BY <1>1, <2>1 DEF Proc, Stages
  <2>3. Goes(p, m) /\ entry' = [entry EXCEPT ![k] = None] /\ older' = Without(k)
    BY <1>2, <1>5
  <2> HIDE DEF m
  <2>4. Moves(p) /\ proc'[p] = m
    BY <2>2, <2>3, GoesOne
  <2>5. TypeOK'
    BY <2>3, <2>4 DEF Drop, Without, Moves, TypeOK
  <2>6. QED
    BY <1>1, <1>3, <1>5, <2>1, <2>2, <2>3, <2>4, <2>5 DEF Drop, SameTask, Keeps
<1>6. QED
  BY <1>4, <1>5

\* What Stop does to its process, and to the map.
LEMMA StopFacts ==
  ASSUME TypeOK, NEW p \in Procs, Stop(p)
  PROVE  /\ TypeOK' /\ Moves(p) /\ UNCHANGED <<entry, starting>>
         /\ proc[p].at = "stop" /\ SameTask(p) /\ Toward(p, proc[p].next)
         /\ proc'[p].doomed = proc[p].doomed
         /\ proc'[p].at = "drop" \/ proc'[p].doomed = {}
         /\ up' = [up EXCEPT ![proc[p].hand] = None]
<1> DEFINE r == proc[p]
           m == [r EXCEPT !.hand = None]
<1>1. r \in Proc /\ r.at = "stop"
  BY DEF Stop, TypeOK
<1>2. /\ m \in Proc /\ m.job = r.job /\ m.key = r.key /\ m.digest = r.digest
      /\ r.doomed \in SUBSET Keys /\ r.next \in Stages /\ r.why \in Whys
  BY <1>1 DEF Proc
<1>3. Goes(p, Dropping(m, r.doomed, r.why, r.next))
  BY DEF Stop
<1> HIDE DEF m
<1>4. /\ Moves(p) /\ SameTask(p) /\ Toward(p, r.next) /\ proc'[p].doomed = r.doomed
      /\ proc'[p].at = "drop" \/ proc'[p].doomed = {}
  BY <1>2, <1>3, DropsOne DEF Toward, SameTask, Keeps
<1>5. QED
  BY <1>1, <1>4 DEF Stop, map, Moves, TypeOK

\* What Over does to its process, and to the map.
LEMMA OverFacts ==
  ASSUME TypeOK, NEW p \in Procs, Over(p)
  PROVE  /\ TypeOK' /\ Moves(p) /\ UNCHANGED <<entry, starting, up>>
         /\ proc[p].at = "over" /\ Idles(p)
BY EndsOne DEF Over, map, Idles, Moves, TypeOK

\* The operator and the keeper are processes.
LEMMA OperatorIsNoCommand == Operator \in Procs /\ Keeper \in Procs
BY DEF Procs

\* What Warm does to its process, and to the map.
LEMMA WarmFacts ==
  ASSUME TypeOK, NEW k \in Keys, Warm(k)
  PROVE  /\ TypeOK' /\ Moves(Operator) /\ UNCHANGED <<entry, starting, up>>
         /\ proc[Operator].at = "idle" /\ Toward(Operator, "resolve")
         /\ proc'[Operator].job = "warm" /\ proc'[Operator].key = k
<1>1. Opens(Operator, k, "warm") /\ events < MaxEvents /\ events' = events + 1 /\ "warm" \in Jobs
  BY DEF Warm, Event, Jobs
<1>2. QED
  BY <1>1, OpensFacts, OperatorIsNoCommand, PoolAssumption DEF Moves, TypeOK

\* What Resolve does to its process, and to the map.
LEMMA ResolveFacts ==
  ASSUME TypeOK, NEW c \in Commands, NEW k \in Keys, Resolve(c, k)
  PROVE  /\ TypeOK' /\ Moves(c) /\ UNCHANGED <<entry, starting, up>>
         /\ proc[c].at = "idle" /\ Toward(c, "resolve")
         /\ proc'[c].job = "command" /\ proc'[c].key = k
<1>1. Opens(c, k, "command") /\ events' = events /\ "command" \in Jobs /\ c \in Procs
  BY DEF Resolve, Jobs, Procs
<1>2. QED
  BY <1>1, OpensFacts DEF Moves, TypeOK

\* What Ask does to its process, and to the map.
LEMMA AskFacts ==
  ASSUME TypeOK, NEW job \in {"stop", "restart"}, NEW n \in Names, Ask(job, n)
  PROVE  /\ TypeOK' /\ Moves(Operator) /\ UNCHANGED <<entry, starting, up>>
         /\ proc[Operator].at = "idle" /\ proc'[Operator].at = "halt"
         /\ proc'[Operator].job = job /\ proc'[Operator].key \in Keys
<1> DEFINE k == CHOOSE k \in Live : entry[k].name = n
           m == [Rest EXCEPT !.job = job, !.at = "halt", !.hand = n, !.key = k]
<1>1. k \in Keys
  BY DEF Ask, Live
<1>2. Goes(Operator, m) /\ events < MaxEvents /\ events' = events + 1
  BY DEF Ask, Event
<1> HIDE DEF k
<1>3. m \in Proc /\ m.at = "halt" /\ m.job = job /\ m.key = k
  BY <1>1 DEF Rest, Proc, Stages, Jobs, Whys
<1> HIDE DEF m
<1>4. QED
  BY <1>1, <1>2, <1>3, GoesOne, OperatorIsNoCommand, PoolAssumption DEF Ask, map, Moves, TypeOK

\* What Halt does to its process, and to the map.
LEMMA HaltFacts ==
  ASSUME TypeOK, KeyInv, Halt
  PROVE  /\ TypeOK' /\ Moves(Operator) /\ UNCHANGED <<entry, up>>
         /\ proc[Operator].at = "halt" /\ proc[Operator].key \in Keys /\ starting = None
         /\ \/ Idles(Operator) /\ UNCHANGED starting
            \/ starting' = Operator /\ Toward(Operator, "halted") /\ Keeps(Operator)
<1> DEFINE r == proc[Operator]
           m == [r EXCEPT !.hand = None]
<1>1. r \in Proc /\ r.at = "halt" /\ r.key \in Keys
  BY OperatorIsNoCommand DEF Halt, TypeOK, KeyInv
<1>2. m \in Proc /\ m.job = r.job /\ m.key = r.key
  BY <1>1 DEF Proc
<1>3. \/ Ends(Operator) /\ UNCHANGED <<epoch, starting>>
      \/ /\ Goes(Operator, Dropping(m, {r.key}, "asked", "halted"))
         /\ epoch' = [epoch EXCEPT ![r.key] = @ + 1] /\ starting' = Operator
  BY DEF Halt
<1> HIDE DEF m
<1>4. CASE Ends(Operator) /\ UNCHANGED <<epoch, starting>>
  BY <1>1, <1>4, EndsOne, OperatorIsNoCommand DEF Halt, map, Idles, Moves, TypeOK
<1>5. CASE /\ Goes(Operator, Dropping(m, {r.key}, "asked", "halted"))
           /\ epoch' = [epoch EXCEPT ![r.key] = @ + 1] /\ starting' = Operator
  <2>1. Moves(Operator) /\ Toward(Operator, "halted") /\ Keeps(Operator)
    BY <1>1, <1>2, <1>5, DropsOne, OperatorIsNoCommand DEF Toward, Keeps, Stages, Whys
  <2>2. epoch' \in [Keys -> Nat]
    BY <1>1, <1>5 DEF TypeOK
  <2>3. QED
    BY <1>1, <1>5, <2>1, <2>2, OperatorIsNoCommand DEF Halt, map, Moves, TypeOK
<1>6. QED
  BY <1>3, <1>4, <1>5

\* What Halted does to its process, and to the map.
LEMMA HaltedFacts ==
  ASSUME TypeOK, Halted
  PROVE  /\ TypeOK' /\ Moves(Operator) /\ UNCHANGED <<entry, up>>
         /\ proc[Operator].at = "halted" /\ starting' = None
         /\ Idles(Operator) \/ (proc'[Operator].at = "ensure" /\ Keeps(Operator))
<1> DEFINE r == proc[Operator]
           m == [r EXCEPT !.at = "ensure"]
<1>1. r \in Proc /\ r.at = "halted"
  BY OperatorIsNoCommand DEF Halted, TypeOK
<1>2. m \in Proc /\ m.job = r.job /\ m.key = r.key /\ m.at = "ensure"
  BY <1>1 DEF Proc, Stages
<1>3. Ends(Operator) \/ Goes(Operator, m)
  BY DEF Halted
<1> HIDE DEF m
<1>4. QED
  BY <1>1, <1>2, <1>3, GoesOne, EndsOne, OperatorIsNoCommand
     DEF Halted, map, Keeps, Idles, Moves, TypeOK

\* The sweep and the close, which hold nothing.
LEMMA KeeperFacts ==
  ASSUME TypeOK, Sweep \/ SweepInvalid \/ Close
  PROVE  /\ TypeOK' /\ Moves(Keeper) /\ UNCHANGED <<entry, starting, up>>
         /\ proc[Keeper].at \in {"idle", "invalid"}
         /\ \/ Idles(Keeper)
            \/ /\ Toward(Keeper, "invalid") \/ Toward(Keeper, "over")
               /\ \/ proc'[Keeper].job \in {"sweep", "close"}
                  \/ proc[Keeper].at = "invalid" /\ proc'[Keeper].job = proc[Keeper].job
<1> DEFINE s == [Rest EXCEPT !.job = "sweep"]
           c == [Rest EXCEPT !.job = "close"]
           r == proc[Keeper]
<1>1. s \in Proc /\ c \in Proc /\ s.job = "sweep" /\ c.job = "close" /\ r \in Proc
  BY OperatorIsNoCommand DEF Rest, Proc, Stages, Jobs, Whys, TypeOK
<1>2. IdlePlaces \in SUBSET Keys /\ Invalid \in SUBSET Keys /\ Live \in SUBSET Keys
  BY DEF IdlePlaces, Invalid, Live
<1>3. UNCHANGED <<entry, older, epoch, starting, up, def>> /\ r.at \in {"idle", "invalid"}
  BY DEF Sweep, SweepInvalid, Close, map
<1>4. events' \in 0..MaxEvents
  BY PoolAssumption DEF Sweep, SweepInvalid, Close, Event, TypeOK
<1>5. \/ Goes(Keeper, Dropping(s, IdlePlaces, "idle", "invalid"))
      \/ Ends(Keeper) \/ (r.at = "invalid" /\ Goes(Keeper, Dropping(r, Invalid, "changed", "over")))
      \/ Goes(Keeper, Dropping(c, Live, "asked", "over"))
  BY DEF Sweep, SweepInvalid, Close
<1> HIDE DEF s, c
<1>6. CASE Goes(Keeper, Dropping(s, IdlePlaces, "idle", "invalid"))
  BY <1>1, <1>2, <1>3, <1>4, <1>6, DropsOne, OperatorIsNoCommand
     DEF Toward, Moves, TypeOK, Stages, Whys
<1>7. CASE r.at = "invalid" /\ Goes(Keeper, Dropping(r, Invalid, "changed", "over"))
  BY <1>1, <1>2, <1>3, <1>4, <1>7, DropsOne, OperatorIsNoCommand
     DEF Toward, Moves, TypeOK, Stages, Whys
<1>8. CASE Goes(Keeper, Dropping(c, Live, "asked", "over"))
  BY <1>1, <1>2, <1>3, <1>4, <1>8, DropsOne, OperatorIsNoCommand
     DEF Toward, Moves, TypeOK, Stages, Whys
<1>9. CASE Ends(Keeper)
  BY <1>3, <1>4, <1>9, EndsOne, OperatorIsNoCommand DEF Idles, Moves, TypeOK
<1>10. QED
  BY <1>5, <1>6, <1>7, <1>8, <1>9

\* What Age does to its process, and to the map.
LEMMA AgeFacts ==
  ASSUME TypeOK, NEW k \in Keys, Age(k)
  PROVE  TypeOK' /\ KeepsMap /\ UNCHANGED <<proc, starting, up>>
<1> DEFINE e == [entry[k] EXCEPT !.idle = TRUE]
<1>1. entry[k] # None /\ entry[k] \in Entry
  BY DEF Age, Live, TypeOK
<1>2. e \in Entry /\ e.name = entry[k].name /\ e.busy = entry[k].busy
  BY <1>1 DEF Entry
<1>3. e # None
  BY <1>2, NoneIsNoEntry
<1>4. entry' = [entry EXCEPT ![k] = e]
  BY DEF Age, TypeOK
<1> HIDE DEF e
<1>5. entry' \in [Keys -> Entry \cup {None}] /\ KeepsMap
  BY <1>1, <1>2, <1>3, <1>4 DEF KeepsMap, TypeOK
<1>6. QED
  BY <1>5, PoolAssumption DEF Age, Event, TypeOK

\* What Lose does to its process, and to the map.
LEMMA LoseFacts ==
  ASSUME TypeOK, NEW n \in Names, Lose(n)
  PROVE  TypeOK' /\ UNCHANGED <<entry, proc, starting>> /\ up' = [up EXCEPT ![n] = None]
BY PoolAssumption DEF Lose, Event, map, TypeOK

\* What Edit does to its process, and to the map.
LEMMA EditFacts ==
  ASSUME TypeOK, NEW d \in Digests \cup {None}, Edit(d)
  PROVE  TypeOK' /\ UNCHANGED <<entry, proc, starting, up>>
BY PoolAssumption DEF Edit, Event, map, TypeOK

-----------------------------------------------------------------------------
(* Tasks: every step keeps them in shape. *)

\* A step keeps the jobs and keys of the processes when its own process ends with what its place needs.
LEMMA TaskMoves ==
  ASSUME JobInv, KeyInv, NEW p \in Procs, Moves(p),
         proc'[p].at # "idle" /\ proc'[p].job = "command" => p \in Commands,
         proc'[p].at \in {"check", "run", "inside", "stale"} => proc'[p].job = "command",
         Ending(p, {"resolve", "mint"})' => proc'[p].job \in {"command", "warm"},
         proc'[p].at \in {"check", "lock", "run", "inside", "stale", "halt", "insert"}
           => proc'[p].key \in Keys,
         Ending(p, {"resolve", "mint", "ensure", "room", "start", "halted"})'
           => proc'[p].key \in Keys,
         proc'[p].at = "lock" \/ Making(p)' => proc'[p].digest \in Digests,
         proc'[p].at \in {"drop", "stop"} => proc'[p].next \in Goals
  PROVE  JobInv' /\ KeyInv'
<1>1. \A q \in Procs : q # p => /\ proc'[q] = proc[q]
                                /\ \A g : Ending(q, g)' = Ending(q, g)
                                /\ Making(q)' = Making(q)
  BY DEF Moves, Ending, Making
<1>2. JobInv'
  BY <1>1 DEF JobInv
<1>3. KeyInv'
  BY <1>1 DEF KeyInv
<1>4. QED
  BY <1>2, <1>3

\* Every step of a process keeps the types, the jobs and the keys.
LEMMA TaskStep ==
  ASSUME TypeOK, JobInv, KeyInv, LockInv, MakingInv, NamesInv, NEW p \in Procs, Step(p)
  PROVE  TypeOK' /\ JobInv' /\ KeyInv'
<1> USE DEF Ending, Making, Goals
<1>1. CASE Resolved(p)
  BY <1>1, ResolvedFacts, TaskMoves DEF Toward, SameTask, Keeps, JobInv, KeyInv
<1>2. CASE Mint(p)
  BY <1>2, MintFacts, TaskMoves DEF SameTask, Keeps, JobInv, KeyInv
<1>3. CASE Check(p)
  BY <1>3, CheckFacts, TaskMoves DEF Idles, SameTask, Keeps, JobInv, KeyInv
<1>4. CASE Ensure(p)
  BY <1>4, EnsureFacts, TaskMoves DEF Proceeds, Idles, Keeps, JobInv, KeyInv
<1>5. CASE Lock(p)
  BY <1>5, LockFacts, TaskMoves DEF Proceeds, Idles, Toward, SameTask, Keeps, JobInv, KeyInv
<1>6. CASE Room(p)
  BY <1>6, RoomFacts, TaskMoves DEF Idles, SameTask, Keeps, JobInv, KeyInv
<1>7. CASE Start(p)
  BY <1>7, StartFacts, TaskMoves DEF SameTask, Keeps, JobInv, KeyInv
<1>8. CASE StartFails(p)
  BY <1>8, StartFailsFacts, TaskMoves DEF Idles, JobInv, KeyInv
<1>9. CASE Insert(p)
  BY <1>9, InsertFacts, TaskMoves DEF Proceeds, Idles, Keeps, JobInv, KeyInv
<1>10. CASE Run(p)
  BY <1>10, RunFacts, TaskMoves DEF Idles, SameTask, Keeps, JobInv, KeyInv
<1>11. CASE Exit(p)
  BY <1>11, ExitFacts, TaskMoves DEF Idles, Keeps, JobInv, KeyInv
<1>12. CASE Rebuild(p)
  BY <1>12, RebuildFacts, TaskMoves DEF Idles, Toward, Keeps, JobInv, KeyInv
<1>13. CASE Drop(p)
  BY <1>13, DropFacts, TaskMoves DEF Toward, SameTask, Keeps, JobInv, KeyInv
<1>14. CASE Stop(p)
  BY <1>14, StopFacts, TaskMoves DEF Toward, SameTask, Keeps, JobInv, KeyInv
<1>15. CASE Over(p)
  BY <1>15, OverFacts, TaskMoves DEF Idles, JobInv, KeyInv
<1>16. QED
  BY <1>1, <1>2, <1>3, <1>4, <1>5, <1>6, <1>7, <1>8, <1>9, <1>10, <1>11, <1>12, <1>13,
     <1>14, <1>15 DEF Step

-----------------------------------------------------------------------------
(* The start lock, the empty place and the room. *)

UnderLock(p) == Making(p) \/ Ending(p, {"halted"})

\* One process at a time is under the lock.
LEMMA OneUnderLock ==
  ASSUME LockInv, NEW p \in Procs, NEW q \in Procs, UnderLock(p), UnderLock(q)
  PROVE  p = q
BY DEF LockInv, UnderLock

\* A step keeps the lock when it stays outside, takes it free, or leaves it.
LEMMA LockMoves ==
  ASSUME LockInv, NEW p \in Procs, Moves(p),
         \/ starting' = starting /\ (UnderLock(p)' => UnderLock(p))
         \/ starting = None /\ starting' = p
         \/ UnderLock(p) /\ starting' = None /\ ~UnderLock(p)'
  PROVE  LockInv'
<1>1. \A q \in Procs : q # p => UnderLock(q)' = UnderLock(q)
  BY DEF Moves, UnderLock, Making, Ending
<1>2. \A q \in Procs : UnderLock(q) => starting = q
  BY DEF LockInv, UnderLock
<1>3. None \notin Procs
  BY PoolAssumption
<1>4. \A q \in Procs : UnderLock(q)' => starting' = q
  BY <1>1, <1>2, <1>3
<1>5. QED
  BY <1>4 DEF LockInv, UnderLock

\* No place is filled.
EmptyStays == \A j \in Keys : entry[j] = None => entry'[j] = None

\* A finite set without one of its members has one fewer.
LEMMA CardinalityOfLess ==
  ASSUME NEW S \in SUBSET Keys, NEW T \in SUBSET S
  PROVE  /\ Cardinality(S) \in Nat /\ Cardinality(T) \in Nat
         /\ Cardinality(T) <= Cardinality(S)
BY PoolAssumption, FS_Subset, FS_CardinalityType

\* A step keeps the room: what is made has a free key, and place under the cap.
LEMMA MakingMoves ==
  ASSUME LockInv, MakingInv, RoomInv, CapHolds, NEW p \in Procs, Moves(p),
         EmptyStays,
         Making(p)' => proc'[p].key \in Keys /\ entry'[proc'[p].key] = None,
         MaxLive # 0 /\ (Ending(p, {"start"}) \/ proc[p].at = "insert")'
           => Cardinality(Left(p)') < MaxLive
  PROVE  MakingInv' /\ RoomInv' /\ CapHolds'
<1>1. Live' \subseteq Live /\ Live \in SUBSET Keys
  BY DEF EmptyStays, Live
<1>2. \A q \in Procs : q # p => /\ Making(q)' = Making(q) /\ proc'[q] = proc[q]
                                /\ Ending(q, {"start"})' = Ending(q, {"start"})
  BY DEF Moves, Making, Ending
<1>3. MakingInv'
  BY <1>2 DEF MakingInv, EmptyStays
<1>4. CapHolds'
  BY <1>1, CardinalityOfLess, PoolAssumption DEF CapHolds
<1>5. ASSUME NEW q \in Procs, q # p
      PROVE  Left(q)' \subseteq Left(q) /\ Left(q) \in SUBSET Keys
  BY <1>1, <1>2, <1>5 DEF Left
<1>6. RoomInv'
  <2>1. SUFFICES ASSUME MaxLive # 0, NEW q \in Procs, q # p,
                        (Ending(q, {"start"}) \/ proc[q].at = "insert")'
                 PROVE  Cardinality(Left(q)') < MaxLive
    BY DEF RoomInv
  <2>2. Cardinality(Left(q)) < MaxLive
    BY <1>2, <2>1 DEF RoomInv
  <2>3. QED
    BY <1>5, <2>1, <2>2, CardinalityOfLess, PoolAssumption
<1>7. QED
  BY <1>3, <1>4, <1>6

LockInvs == LockInv /\ MakingInv /\ RoomInv /\ CapHolds

\* A process that is neither under the lock nor about to be disturbs nothing.
LEMMA FreeMoves ==
  ASSUME LockInvs, NEW p \in Procs, Moves(p), EmptyStays, starting' = starting, ~UnderLock(p)'
  PROVE  LockInvs'
<1>1. LockInv'
  BY LockMoves DEF LockInvs
<1>2. ~Making(p)' /\ ~(Ending(p, {"start"}) \/ proc[p].at = "insert")'
  BY DEF UnderLock, Making, Ending
<1>3. QED
  BY <1>1, <1>2, MakingMoves DEF LockInvs

\* Every step of a process keeps what is true of the lock and the cap.
LEMMA LockStep ==
  ASSUME TypeOK, JobInv, KeyInv, LockInvs, NamesInv, NEW p \in Procs, Step(p)
  PROVE  LockInvs'
<1> USE DEF Goals
<1>e. UNCHANGED entry \/ KeepsMap => EmptyStays
  BY DEF KeepsMap, EmptyStays
<1>1. CASE Resolved(p)
  BY <1>1, <1>e, ResolvedFacts, FreeMoves DEF Toward, UnderLock, Making, Ending
<1>2. CASE Mint(p)
  BY <1>2, <1>e, MintFacts, FreeMoves DEF UnderLock, Making, Ending
<1>3. CASE Check(p)
  BY <1>3, <1>e, CheckFacts, FreeMoves DEF Idles, UnderLock, Making, Ending
<1>4. CASE Ensure(p)
  BY <1>4, <1>e, EnsureFacts, FreeMoves DEF Proceeds, Idles, UnderLock, Making, Ending
<1>5. CASE Lock(p)
  <2>1. CASE Proceeds(p) /\ UNCHANGED starting
    BY <1>5, <1>e, <2>1, LockFacts, FreeMoves DEF Proceeds, Idles, UnderLock, Making, Ending
  <2>2. CASE entry[proc[p].key] = None /\ starting' = p /\ Toward(p, "room") /\ SameTask(p)
    <3>1. LockInv'
      BY <1>5, <2>2, LockFacts, LockMoves DEF LockInvs
    <3>2. ~(Ending(p, {"start"}) \/ proc[p].at = "insert")'
      BY <2>2 DEF Toward, Ending
    <3>3. Making(p)' => proc'[p].key \in Keys /\ entry'[proc'[p].key] = None
      BY <1>5, <2>2, LockFacts DEF SameTask, Keeps
    <3>4. QED
      BY <1>5, <1>e, <3>1, <3>2, <3>3, LockFacts, MakingMoves DEF LockInvs
  <2>3. QED
    BY <1>5, <2>1, <2>2, LockFacts
<1>6. CASE Room(p)
  <2>1. CASE Idles(p) /\ starting' = None
    <3>1. UnderLock(p) /\ ~UnderLock(p)'
      BY <1>6, <2>1, RoomFacts DEF Idles, UnderLock, Making, Ending
    <3>2. ~Making(p)' /\ ~(Ending(p, {"start"}) \/ proc[p].at = "insert")'
      BY <2>1 DEF Idles, Making, Ending
    <3>3. QED
      BY <1>6, <1>e, <2>1, <3>1, <3>2, RoomFacts, LockMoves, MakingMoves DEF LockInvs
  <2>2. CASE ~(Idles(p) /\ starting' = None)
    <3>1. UnderLock(p) /\ Making(p) /\ starting' = starting /\ SameTask(p)
      BY <1>6, <2>2, RoomFacts DEF UnderLock, Making, Ending
    <3>2. LockInv'
      BY <1>6, <3>1, RoomFacts, LockMoves DEF LockInvs
    <3>3. proc'[p].key \in Keys /\ entry'[proc'[p].key] = None
      BY <1>6, <3>1, RoomFacts DEF LockInvs, MakingInv, SameTask, Keeps
    <3>4. MaxLive # 0 => Cardinality(Left(p)') < MaxLive
      <4>1. Live \in SUBSET Keys /\ Live' = Live
        BY <1>6, RoomFacts DEF Live
      <4>2. CASE ~Full /\ proc'[p].at = "start"
        BY <4>1, <4>2, CardinalityOfLess, PoolAssumption DEF Full, Left
      <4>3. ASSUME NEW k \in Live, proc'[p].doomed = {k}, proc'[p].at = "drop"
            PROVE  MaxLive # 0 => Cardinality(Left(p)') < MaxLive
        <5>1. Left(p)' = Live \ {k}
          BY <4>1, <4>3 DEF Left
        <5>2. IsFiniteSet(Live)
          BY <4>1, PoolAssumption, FS_Subset
        <5>3. Cardinality(Live \ {k}) = Cardinality(Live) - 1
          BY <4>3, <5>2, FS_RemoveElement
        <5>4. QED
          BY <4>1, <5>1, <5>3, CardinalityOfLess, PoolAssumption DEF LockInvs, CapHolds
      <4>4. QED
        BY <1>6, <2>2, <4>2, <4>3, RoomFacts
    <3>5. QED
      BY <1>6, <1>e, <3>2, <3>3, <3>4, RoomFacts, MakingMoves DEF LockInvs
  <2>3. QED
    BY <2>1, <2>2
<1>7. CASE Start(p)
  <2>1. UnderLock(p) /\ Making(p) /\ Ending(p, {"start"}) /\ Left(p) = Live
    BY <1>7, StartFacts DEF UnderLock, Making, Ending, Left
  <2>2. proc'[p].key \in Keys /\ entry'[proc'[p].key] = None
    BY <1>7, <2>1, StartFacts DEF LockInvs, MakingInv, SameTask, Keeps
  <2>3. Left(p)' = Left(p)
    BY <1>7, <2>1, StartFacts DEF Left, Live
  <2>4. MaxLive # 0 => Cardinality(Left(p)') < MaxLive
    BY <2>1, <2>3 DEF LockInvs, RoomInv
  <2>5. LockInv'
    BY <1>7, <2>1, StartFacts, LockMoves DEF LockInvs
  <2>6. QED
    BY <1>7, <1>e, <2>2, <2>4, <2>5, StartFacts, MakingMoves DEF LockInvs
<1>8. CASE StartFails(p)
  <2>1. UnderLock(p) /\ ~UnderLock(p)'
    BY <1>8, StartFailsFacts DEF Idles, UnderLock, Making, Ending
  <2>2. ~Making(p)' /\ ~(Ending(p, {"start"}) \/ proc[p].at = "insert")'
    BY <1>8, StartFailsFacts DEF Idles, Making, Ending
  <2>3. QED
    BY <1>8, <1>e, <2>1, <2>2, StartFailsFacts, LockMoves, MakingMoves DEF LockInvs
<1>9. CASE Insert(p)
  <2> DEFINE k == proc[p].key
  <2>1. UnderLock(p) /\ Making(p) /\ ~UnderLock(p)' /\ Left(p) = Live
    BY <1>9, InsertFacts DEF LockInvs, Proceeds, Idles, UnderLock, Making, Ending, Left
  <2>2. LockInv'
    BY <1>9, <2>1, InsertFacts, LockMoves DEF LockInvs
  <2>3. \A q \in Procs : ~UnderLock(q)'
    <3>1. \A q \in Procs : q # p => ~UnderLock(q) /\ UnderLock(q)' = UnderLock(q)
      BY <1>9, <2>1, OneUnderLock, InsertFacts DEF LockInvs, Moves, UnderLock, Making, Ending
    <3>2. QED
      BY <2>1, <3>1
  <2>4. \A q \in Procs : /\ ~Making(q)'
                         /\ ~(Ending(q, {"start"}) \/ proc[q].at = "insert")'
    BY <2>3 DEF UnderLock, Making, Ending
  <2>5. MakingInv' /\ RoomInv'
    BY <2>4 DEF MakingInv, RoomInv
  <2>6. Live' = Live \cup {k} /\ k \notin Live /\ Live \in SUBSET Keys
    BY <1>9, InsertFacts DEF LockInvs, Live
  <2>7. IsFiniteSet(Live)
    BY <2>6, PoolAssumption, FS_Subset
  <2>8. Cardinality(Live') = Cardinality(Live) + 1
    BY <2>6, <2>7, FS_AddElement
  <2>9. MaxLive # 0 => Cardinality(Live) < MaxLive
    BY <1>9, <2>1, InsertFacts DEF LockInvs, RoomInv
  <2>10. CapHolds'
    BY <2>6, <2>8, <2>9, CardinalityOfLess, PoolAssumption DEF CapHolds
  <2>11. QED
    BY <2>2, <2>5, <2>10 DEF LockInvs
<1>10. CASE Run(p)
  <2>1. EmptyStays
    BY <1>10, RunFacts DEF EmptyStays
  <2>2. QED
    BY <1>10, <2>1, RunFacts, FreeMoves DEF Idles, UnderLock, Making, Ending
<1>11. CASE Exit(p)
  <2>1. EmptyStays
    BY <1>11, ExitFacts DEF EmptyStays
  <2>2. QED
    BY <1>11, <2>1, ExitFacts, FreeMoves DEF Idles, UnderLock, Making, Ending
<1>12. CASE Rebuild(p)
  BY <1>12, <1>e, RebuildFacts, FreeMoves DEF Idles, Toward, UnderLock, Making, Ending
<1>13. CASE Drop(p)
  <2>1. PICK k \in proc[p].doomed \cap Keys :
          /\ proc'[p].doomed = proc[p].doomed \ {k}
          /\ \/ /\ entry[k] = None /\ UNCHANGED entry /\ Toward(p, proc[p].next)
             \/ /\ entry[k] # None /\ proc'[p].at = "stop" /\ proc'[p].next = proc[p].next
                /\ entry' = [entry EXCEPT ![k] = None]
    BY <1>13, DropFacts
  <2>2. EmptyStays
    BY <2>1 DEF EmptyStays, TypeOK
  <2>3. proc[p].next \in Goals /\ proc[p].at = "drop"
    BY <1>13, DropFacts DEF KeyInv
  <2>4. /\ UnderLock(p)' => UnderLock(p)
        /\ Making(p)' => Making(p)
        /\ (Ending(p, {"start"}) \/ proc[p].at = "insert")' => Ending(p, {"start"})
    BY <2>1, <2>3 DEF Toward, UnderLock, Making, Ending
  <2>5. Left(p)' \subseteq Left(p)
    <3>1. CASE entry[k] = None /\ UNCHANGED entry
      <4>1. Live' = Live /\ k \notin Live
        BY <3>1 DEF Live
      <4>2. Left(p) = Live \ proc[p].doomed
        BY <2>3 DEF Left
      <4>3. Left(p)' \subseteq Live \ proc'[p].doomed
        BY <1>13, <4>1, DropFacts DEF Left
      <4>4. QED
        BY <2>1, <4>1, <4>2, <4>3
    <3>2. CASE entry[k] # None /\ entry' = [entry EXCEPT ![k] = None] /\ proc'[p].at = "stop"
      <4>1. Live' = Live \ {k}
        BY <3>2 DEF Live, TypeOK
      <4>2. QED
        BY <2>1, <2>3, <3>2, <4>1 DEF Left
    <3>3. QED
      BY <2>1, <3>1, <3>2
  <2>6. Left(p) \in SUBSET Keys
    BY DEF Left, Live
  <2>7. Making(p)' => proc'[p].key \in Keys /\ entry'[proc'[p].key] = None
    BY <1>13, <2>2, <2>4, DropFacts DEF LockInvs, MakingInv, SameTask, Keeps, EmptyStays
  <2>8. MaxLive # 0 /\ (Ending(p, {"start"}) \/ proc[p].at = "insert")'
          => Cardinality(Left(p)') < MaxLive
    <3>1. MaxLive # 0 /\ Ending(p, {"start"}) => Cardinality(Left(p)) < MaxLive
      BY DEF LockInvs, RoomInv
    <3>2. QED
      BY <2>4, <2>5, <2>6, <3>1, CardinalityOfLess, PoolAssumption
  <2>9. LockInv'
    BY <1>13, <2>4, DropFacts, LockMoves DEF LockInvs
  <2>10. QED
    BY <1>13, <2>2, <2>7, <2>8, <2>9, DropFacts, MakingMoves DEF LockInvs
<1>14. CASE Stop(p)
  <2>1. proc[p].next \in Goals /\ proc[p].at = "stop" /\ Toward(p, proc[p].next)
    BY <1>14, StopFacts DEF KeyInv
  <2>2. /\ UnderLock(p)' => UnderLock(p)
        /\ Making(p)' => Making(p)
        /\ (Ending(p, {"start"}) \/ proc[p].at = "insert")' => Ending(p, {"start"})
    BY <2>1 DEF Toward, UnderLock, Making, Ending
  <2>3. Left(p)' \subseteq Left(p) /\ Left(p) \in SUBSET Keys
    <3>1. Live' = Live /\ Left(p) = Live \ proc[p].doomed
      BY <1>14, <2>1, StopFacts DEF Live, Left
    <3>2. QED
      BY <1>14, <2>1, <3>1, StopFacts DEF Left, Live
  <2>4. Making(p)' => proc'[p].key \in Keys /\ entry'[proc'[p].key] = None
    BY <1>14, <2>2, StopFacts DEF LockInvs, MakingInv, SameTask, Keeps
  <2>5. MaxLive # 0 /\ (Ending(p, {"start"}) \/ proc[p].at = "insert")'
          => Cardinality(Left(p)') < MaxLive
    <3>1. MaxLive # 0 /\ Ending(p, {"start"}) => Cardinality(Left(p)) < MaxLive
      BY DEF LockInvs, RoomInv
    <3>2. QED
      BY <2>2, <2>3, <3>1, CardinalityOfLess, PoolAssumption
  <2>6. LockInv'
    BY <1>14, <2>2, StopFacts, LockMoves DEF LockInvs
  <2>7. QED
    BY <1>14, <1>e, <2>4, <2>5, <2>6, StopFacts, MakingMoves DEF LockInvs
<1>15. CASE Over(p)
  BY <1>15, <1>e, OverFacts, FreeMoves DEF Idles, UnderLock, Making, Ending
<1>16. QED
  BY <1>1, <1>2, <1>3, <1>4, <1>5, <1>6, <1>7, <1>8, <1>9, <1>10, <1>11, <1>12, <1>13,
     <1>14, <1>15 DEF Step

-----------------------------------------------------------------------------
(* Names, what the daemon runs, and the count of commands. *)

NameInvs == NamesInv /\ InsideInv /\ NothingOrphaned /\ BusyIsReleased

\* The commands inside a container are finitely many.
LEMMA InsideIsFinite ==
  ASSUME NEW n
  PROVE  IsFiniteSet(Inside(n)) /\ Cardinality(Inside(n)) \in Nat
<1>1. Inside(n) \in SUBSET Commands
  BY DEF Inside
<1>2. QED
  BY <1>1, PoolAssumption, FS_Subset, FS_CardinalityType

\* A process that holds no container before or after disturbs nothing.
LEMMA PlainMoves ==
  ASSUME NameInvs, NEW p \in Procs, Moves(p), KeepsMap, up' = up,
         \/ proc'[p] = proc[p]
         \/ /\ proc[p].at \notin {"insert", "stop", "inside"}
            /\ proc'[p].at \notin {"insert", "stop", "inside"}
  PROVE  NameInvs'
<1>1. Live' = Live /\ Live \in SUBSET Keys
  BY DEF KeepsMap, Live
<1>2. \A k \in Live : entry'[k].name = entry[k].name /\ entry'[k].busy = entry[k].busy
  BY <1>1 DEF KeepsMap, Live
<1>3. \A q \in Procs : /\ proc'[q].at \in {"insert", "stop", "inside"} \/ proc[q].at \in {"insert", "stop", "inside"}
                            => proc'[q] = proc[q]
  BY DEF Moves
<1>4. NamesInv'
  BY <1>1, <1>2, <1>3 DEF NameInvs, NamesInv, Holding
<1>5. InsideInv'
  BY <1>1, <1>2, <1>3 DEF NameInvs, InsideInv
<1>6. NothingOrphaned'
  BY <1>1, <1>2, <1>3 DEF NameInvs, NothingOrphaned, Up
<1>7. \A n : Inside(n)' = Inside(n)
  BY <1>3 DEF Inside, Procs
<1>8. BusyIsReleased'
  BY <1>1, <1>2, <1>7 DEF NameInvs, BusyIsReleased
<1>9. QED
  BY <1>4, <1>5, <1>6, <1>8 DEF NameInvs

\* A container that comes up under a fresh name is nobody else's.
LEMMA StartNames ==
  ASSUME TypeOK, KeyInv, LockInvs, NameInvs, NEW p \in Procs, Start(p)
  PROVE  NameInvs'
<1> DEFINE n == proc'[p].hand
<1>1. /\ proc[p].at = "start" /\ proc'[p].at = "insert" /\ Moves(p) /\ proc[p].key \in Keys
      /\ proc'[p].key = proc[p].key /\ entry' = entry /\ n \in Names
      /\ up' = [up EXCEPT ![n] = proc[p].key]
  BY StartFacts DEF SameTask, Keeps, KeyInv, Ending
<1>2. /\ n \notin Up /\ \A k \in Live : entry[k].name # n
      /\ \A q \in Procs : proc[q].hand # n
  BY StartFacts DEF Fresh, Used
<1>3. Live' = Live
  BY <1>1 DEF Live
<1>4. \A q \in Procs : q # p => proc'[q] = proc[q]
  BY <1>1 DEF Moves
<1>5. \A m \in Names : up'[m] = IF m = n THEN proc[p].key ELSE up[m]
  BY <1>1 DEF TypeOK
<1>6. \A k \in Live : entry[k].name \in Names
  BY DEF Live, TypeOK, Entry
<1> HIDE DEF n
<1>7. NamesInv'
  <2>1. \A k \in Live : up'[entry[k].name] \in {k, None}
    BY <1>2, <1>5, <1>6 DEF NameInvs, NamesInv
  <2>2. \A q \in Procs : Holding(q)' => /\ proc'[q].hand \in Names
                                        /\ \A k \in Live : entry[k].name # proc'[q].hand
    BY <1>1, <1>2, <1>4 DEF NameInvs, NamesInv, Holding, n
  <2>3. \A q \in Procs, r \in Procs :
          Holding(q)' /\ Holding(r)' /\ proc'[r].hand = proc'[q].hand => r = q
    BY <1>1, <1>2, <1>4 DEF NameInvs, NamesInv, Holding, n
  <2>4. \A q \in Procs : proc'[q].at = "insert" => up'[proc'[q].hand] \in {proc'[q].key, None}
    BY <1>1, <1>2, <1>4, <1>5 DEF NameInvs, NamesInv, Holding, n
  <2>5. QED
    BY <1>1, <1>3, <2>1, <2>2, <2>3, <2>4 DEF NameInvs, NamesInv
<1>8. InsideInv'
  BY <1>1, <1>2, <1>3, <1>4 DEF NameInvs, InsideInv, n
<1>9. NothingOrphaned'
  <2>1. ASSUME NEW m \in Up'
        PROVE  \/ \E k \in Live : entry[k].name = m /\ up'[m] = k
               \/ \E q \in Procs : proc'[q].hand = m /\ proc'[q].at \in {"insert", "stop"}
    <3>1. CASE m = n
      BY <1>1, <3>1 DEF n
    <3>2. CASE m # n
      <4>1. m \in Up /\ up'[m] = up[m]
        BY <1>5, <2>1, <3>2 DEF Up
      <4>2. QED
        BY <1>1, <1>4, <4>1 DEF NameInvs, NothingOrphaned
    <3>3. QED
      BY <3>1, <3>2
  <2>2. QED
    BY <1>1, <1>3, <2>1 DEF NothingOrphaned
<1>10. BusyIsReleased'
  <2>1. \A m : Inside(m)' = Inside(m)
    BY <1>1, <1>4 DEF Inside, Procs
  <2>2. QED
    BY <1>1, <1>3, <2>1 DEF NameInvs, BusyIsReleased
<1>11. QED
  BY <1>7, <1>8, <1>9, <1>10 DEF NameInvs

\* An entry put in place takes over the name that was being made.
LEMMA InsertNames ==
  ASSUME TypeOK, KeyInv, LockInvs, NameInvs, NEW p \in Procs, Insert(p)
  PROVE  NameInvs'
<1> DEFINE k == proc[p].key
           n == proc[p].hand
<1>1. /\ proc[p].at = "insert" /\ proc'[p].at \in {"idle", "run"} /\ Moves(p) /\ up' = up
      /\ k \in Keys /\ entry[k] = None /\ \A j \in Keys \ {k} : entry'[j] = entry[j]
      /\ entry'[k] # None /\ entry'[k].name = n /\ entry'[k].busy = 0
  BY InsertFacts DEF LockInvs, NameInvs, Proceeds, Idles
<1>2. Live' = Live \cup {k} /\ k \notin Live /\ Live \in SUBSET Keys
  BY <1>1 DEF Live
<1>3. /\ n \in Names /\ up[n] \in {k, None} /\ \A j \in Live : entry[j].name # n
      /\ \A q \in Procs : q # p /\ Holding(q) => proc[q].hand # n
      /\ \A q \in Procs : proc[q].at = "inside" => proc[q].hand # n
  BY <1>1 DEF NameInvs, NamesInv, InsideInv, Holding
<1>4. \A q \in Procs : q # p => proc'[q] = proc[q]
  BY <1>1 DEF Moves
<1>5. \A j \in Live : entry'[j] = entry[j]
  BY <1>1, <1>2
<1> HIDE DEF k, n
<1>6. NamesInv'
  BY <1>1, <1>2, <1>3, <1>4, <1>5 DEF NameInvs, NamesInv, Holding
<1>7. InsideInv'
  BY <1>1, <1>2, <1>3, <1>4, <1>5 DEF NameInvs, InsideInv
<1>8. NothingOrphaned'
  <2>1. ASSUME NEW m \in Up
        PROVE  \/ \E j \in Live' : entry'[j].name = m /\ up[m] = j
               \/ \E q \in Procs : proc'[q].hand = m /\ proc'[q].at \in {"insert", "stop"}
    <3>1. CASE \E j \in Live : entry[j].name = m /\ up[m] = j
      BY <1>2, <1>5, <3>1
    <3>2. CASE \E q \in Procs : proc[q].hand = m /\ proc[q].at \in {"insert", "stop"}
      <4>1. PICK q \in Procs : proc[q].hand = m /\ proc[q].at \in {"insert", "stop"}
        BY <3>2
      <4>2. CASE q = p
        <5>1. m = n /\ up[n] = k
          BY <1>3, <2>1, <4>1, <4>2 DEF Up, n
        <5>2. QED
          BY <1>1, <1>2, <5>1
      <4>3. CASE q # p
        BY <1>4, <4>1, <4>3
      <4>4. QED
        BY <4>2, <4>3
    <3>3. QED
      BY <3>1, <3>2 DEF NameInvs, NothingOrphaned
  <2>2. Up' = Up
    BY <1>1 DEF Up
  <2>3. QED
    BY <1>1, <2>1, <2>2 DEF NothingOrphaned
<1>9. BusyIsReleased'
  <2>1. \A m : Inside(m)' = Inside(m)
    BY <1>1, <1>4 DEF Inside, Procs
  <2>2. QED
    BY <1>1, <1>2, <1>5, <2>1, InsideIsFinite DEF NameInvs, BusyIsReleased
<1>10. QED
  BY <1>6, <1>7, <1>8, <1>9 DEF NameInvs

\* A container of a place, in a command's hands from now on.
LEMMA RunNames ==
  ASSUME TypeOK, JobInv, KeyInv, LockInvs, NameInvs, NEW p \in Procs, Run(p)
  PROVE  NameInvs'
<1>1. CASE Idles(p) /\ UNCHANGED entry
  BY <1>1, RunFacts, PlainMoves DEF Idles, KeepsMap
<1>2. CASE ~(Idles(p) /\ UNCHANGED entry)
  <2>0. PICK k \in Keys, n \in Names :
          /\ proc[p].at = "run" /\ proc'[p].at = "inside" /\ proc[p].key = k /\ proc'[p].key = k
          /\ proc'[p].hand = n /\ entry[k] # None /\ entry[k].name = n /\ entry[k].busy \in Nat
          /\ entry'[k] # None /\ entry'[k].name = n /\ entry'[k].busy = entry[k].busy + 1
    BY <1>2, RunFacts DEF SameTask, Keeps, TypeOK, Entry
  <2>1. Moves(p) /\ up' = up /\ \A j \in Keys \ {k} : entry'[j] = entry[j]
    BY <1>2, <2>0, RunFacts
  <2>2. Live' = Live /\ k \in Live /\ Live \in SUBSET Keys
    BY <2>0, <2>1 DEF Live
  <2>3. \A j \in Live : entry'[j].name = entry[j].name
    BY <2>0, <2>1, <2>2
  <2>4. \A q \in Procs : q # p => proc'[q] = proc[q]
    BY <2>1 DEF Moves
  <2>5. p \in Commands
    BY <2>0 DEF JobInv
  <2>7. NamesInv'
    BY <2>0, <2>1, <2>2, <2>3, <2>4 DEF NameInvs, NamesInv, Holding
  <2>8. InsideInv'
    <3>1. \A j \in Live : entry[j].name = n => j = k
      BY <2>0, <2>2 DEF NameInvs, NamesInv
    <3>2. \A q \in Procs : proc[q].at = "insert" => proc[q].hand # n
      BY <2>0, <2>2 DEF NameInvs, NamesInv, Holding
    <3>3. QED
      BY <2>0, <2>2, <2>3, <2>4, <3>1, <3>2 DEF NameInvs, InsideInv
  <2>9. NothingOrphaned'
    BY <2>0, <2>1, <2>2, <2>3, <2>4 DEF NameInvs, NothingOrphaned, Up
  <2>10. BusyIsReleased'
    <3>1. Inside(n)' = Inside(n) \cup {p} /\ p \notin Inside(n)
      BY <2>0, <2>4, <2>5 DEF Inside, Procs
    <3>2. \A m : m # n => Inside(m)' = Inside(m)
      BY <2>0, <2>4 DEF Inside, Procs
    <3>3. Cardinality(Inside(n)') = Cardinality(Inside(n)) + 1
      BY <3>1, InsideIsFinite, FS_AddElement
    <3>4. entry'[k].busy <= Cardinality(Inside(n)')
      <4>1. entry[k].busy <= Cardinality(Inside(n))
        BY <2>0, <2>2 DEF NameInvs, BusyIsReleased
      <4>2. QED
        BY <2>0, <3>3, <4>1, InsideIsFinite
    <3>5. ASSUME NEW j \in Live, j # k
          PROVE  entry'[j].busy <= Cardinality(Inside(entry[j].name)')
      <4>1. entry[j].name # n
        BY <2>0, <2>2, <3>5 DEF NameInvs, NamesInv
      <4>2. PICK m : m = entry[j].name
        OBVIOUS
      <4>3. entry'[j] = entry[j] /\ Inside(m)' = Inside(m)
        BY <2>1, <2>2, <3>2, <3>5, <4>1, <4>2
      <4>4. entry'[j].name = m /\ entry'[j].busy <= Cardinality(Inside(m)')
        BY <3>5, <4>2, <4>3 DEF NameInvs, BusyIsReleased
      <4>5. QED
        BY <4>2, <4>3, <4>4
    <3>6. QED
      BY <2>0, <2>2, <2>3, <3>4, <3>5 DEF BusyIsReleased
  <2>11. QED
    BY <2>7, <2>8, <2>9, <2>10 DEF NameInvs
<1>3. QED
  BY <1>1, <1>2

\* A command comes out, and one less is counted for whatever has the place.
LEMMA ExitNames ==
  ASSUME TypeOK, JobInv, KeyInv, LockInvs, NameInvs, NEW p \in Procs, Exit(p)
  PROVE  NameInvs'
<1>0. PICK k \in Keys, n \in Names :
        /\ proc[p].at = "inside" /\ proc[p].key = k /\ proc[p].hand = n
        /\ proc'[p].at \in {"idle", "stale"} /\ Moves(p) /\ up' = up
        /\ \A j \in Keys :
             /\ entry'[j] = None <=> entry[j] = None
             /\ entry[j] # None =>
                  /\ entry'[j].name = entry[j].name
                  /\ entry'[j].busy = IF j = k /\ entry[j].busy # 0
                                      THEN entry[j].busy - 1 ELSE entry[j].busy
  BY ExitFacts DEF Idles, NameInvs, InsideInv
<1>2. Live' = Live /\ Live \in SUBSET Keys /\ \A j \in Live : entry[j] # None
  BY <1>0 DEF Live
<1>3. \A j \in Live : entry'[j].name = entry[j].name /\ entry[j].busy \in Nat
  BY <1>0, <1>2 DEF TypeOK, Entry
<1>4. \A q \in Procs : q # p => proc'[q] = proc[q]
  BY <1>0 DEF Moves
<1>5. p \in Commands
  BY <1>0 DEF JobInv
<1>6. NamesInv'
  BY <1>0, <1>2, <1>3, <1>4 DEF NameInvs, NamesInv, Holding
<1>7. InsideInv'
  BY <1>0, <1>2, <1>3, <1>4 DEF NameInvs, InsideInv
<1>8. NothingOrphaned'
  BY <1>0, <1>2, <1>3, <1>4 DEF NameInvs, NothingOrphaned, Up
<1>9. BusyIsReleased'
  <2>1. Inside(n)' = Inside(n) \ {p} /\ p \in Inside(n)
    BY <1>0, <1>4, <1>5 DEF Inside, Procs
  <2>2. \A m : m # n => Inside(m)' = Inside(m)
    BY <1>0, <1>4 DEF Inside, Procs
  <2>3. Cardinality(Inside(n)') = Cardinality(Inside(n)) - 1
    BY <2>1, InsideIsFinite, FS_RemoveElement
  <2>4. ASSUME NEW j \in Live PROVE entry'[j].busy <= Cardinality(Inside(entry[j].name)')
    <3>1. PICK m : m = entry[j].name
      OBVIOUS
    <3>2. entry[j].busy <= Cardinality(Inside(m)) /\ entry[j].busy \in Nat
      BY <1>3, <3>1 DEF NameInvs, BusyIsReleased
    <3>3. entry'[j].name = m
      BY <1>3, <3>1
    <3>4. CASE m = n
      <4>1. j = k
        BY <1>0, <3>1, <3>4 DEF NameInvs, InsideInv
      <4>2. entry'[j].busy = IF entry[j].busy # 0 THEN entry[j].busy - 1 ELSE entry[j].busy
        BY <1>0, <1>2, <4>1
      <4>3. Cardinality(Inside(n)) \in Nat /\ Cardinality(Inside(n)') \in Nat
        <5>1. IsFiniteSet(Inside(n)) /\ Inside(n)' \subseteq Inside(n)
          BY <2>1, InsideIsFinite
        <5>2. QED
          BY <5>1, FS_Subset, FS_CardinalityType
      <4>4. entry'[j].busy <= Cardinality(Inside(n)')
        BY <2>3, <3>2, <3>4, <4>2, <4>3
      <4>5. QED
        BY <3>1, <3>3, <3>4, <4>4
    <3>5. CASE m # n
      <4>1. entry'[j].busy <= entry[j].busy /\ entry'[j].busy \in Nat
        BY <1>0, <1>2, <3>2
      <4>2. entry'[j].busy <= Cardinality(Inside(m)')
        BY <2>2, <3>2, <3>5, <4>1, InsideIsFinite
      <4>3. QED
        BY <3>1, <3>3, <4>2
    <3>6. QED
      BY <3>4, <3>5
  <2>5. QED
    BY <1>2, <1>3, <2>4 DEF BusyIsReleased
<1>10. QED
  BY <1>6, <1>7, <1>8, <1>9 DEF NameInvs

\* A container goes from the map to the hands of the one that will stop it.
LEMMA DropNames ==
  ASSUME TypeOK, KeyInv, LockInvs, NameInvs, NEW p \in Procs, Drop(p)
  PROVE  NameInvs'
<1>0. PICK k \in proc[p].doomed \cap Keys :
        /\ proc'[p].doomed = proc[p].doomed \ {k}
        /\ \/ /\ entry[k] = None /\ UNCHANGED entry /\ Toward(p, proc[p].next)
           \/ /\ entry[k] # None /\ proc'[p].at = "stop" /\ proc'[p].next = proc[p].next
              /\ proc'[p].hand = entry[k].name /\ proc'[p].hand \in Names
              /\ entry' = [entry EXCEPT ![k] = None]
  BY DropFacts
<1>1. Moves(p) /\ up' = up /\ proc[p].at = "drop" /\ proc[p].next \in Goals
  BY DropFacts DEF KeyInv
<1>2. CASE entry[k] = None /\ UNCHANGED entry /\ Toward(p, proc[p].next)
  <2>1. KeepsMap
    BY <1>2 DEF KeepsMap
  <2>2. proc'[p].at \notin {"insert", "stop", "inside"}
    BY <1>1, <1>2 DEF Toward, Goals
  <2>3. QED
    BY <1>1, <2>1, <2>2, PlainMoves
<1>3. CASE /\ entry[k] # None /\ proc'[p].at = "stop"
           /\ proc'[p].hand = entry[k].name /\ proc'[p].hand \in Names
           /\ entry' = [entry EXCEPT ![k] = None]
  <2>0. PICK n \in Names : n = entry[k].name /\ proc'[p].hand = n
    BY <1>3
  <2>1. Live' = Live \ {k} /\ k \in Live /\ Live \in SUBSET Keys
    BY <1>3 DEF Live, TypeOK
  <2>2. \A j \in Live' : entry'[j] = entry[j] /\ j \in Live
    BY <1>3, <2>1 DEF TypeOK
  <2>3. \A q \in Procs : q # p => proc'[q] = proc[q]
    BY <1>1 DEF Moves
  <2>4. \A j \in Live' : entry[j].name # n
    BY <2>0, <2>1 DEF NameInvs, NamesInv
  <2>5. \A q \in Procs : Holding(q) => proc[q].hand # n
    BY <2>0, <2>1 DEF NameInvs, NamesInv
  <2>6. NamesInv'
    <3>1. \A i \in Live', j \in Live' : entry'[i].name = entry'[j].name => i = j
      BY <2>2 DEF NameInvs, NamesInv
    <3>2. \A j \in Live' : up'[entry'[j].name] \in {j, None}
      BY <1>1, <2>2 DEF NameInvs, NamesInv
    <3>3. \A q \in Procs : q # p /\ Holding(q)' =>
             /\ Holding(q) /\ proc'[q].hand = proc[q].hand
             /\ \A j \in Live' : entry'[j].name # proc'[q].hand
      BY <2>2, <2>3 DEF NameInvs, NamesInv, Holding
    <3>4. \A j \in Live' : entry'[j].name # n
      BY <2>2, <2>4
    <3>5. \A q \in Procs, r \in Procs :
            Holding(q)' /\ Holding(r)' /\ proc'[r].hand = proc'[q].hand => r = q
      BY <2>0, <2>3, <2>5, <3>3 DEF NameInvs, NamesInv
    <3>6. \A q \in Procs : proc'[q].at = "insert" => up'[proc'[q].hand] \in {proc'[q].key, None}
      BY <1>1, <1>3, <2>3 DEF NameInvs, NamesInv
    <3>7. \A q \in Procs : Holding(q)' => /\ proc'[q].hand \in Names
                                          /\ \A j \in Live' : entry'[j].name # proc'[q].hand
      BY <2>0, <3>3, <3>4 DEF NameInvs, NamesInv
    <3>8. QED
      BY <3>1, <3>2, <3>5, <3>6, <3>7 DEF NamesInv
  <2>7. InsideInv'
    BY <1>3, <2>2, <2>3 DEF NameInvs, InsideInv
  <2>8. NothingOrphaned'
    <3>1. ASSUME NEW m \in Up
          PROVE  \/ \E j \in Live' : entry'[j].name = m /\ up[m] = j
                 \/ \E q \in Procs : proc'[q].hand = m /\ proc'[q].at \in {"insert", "stop"}
      <4>1. CASE \E j \in Live : entry[j].name = m /\ up[m] = j
        BY <1>3, <2>0, <2>1, <2>2, <4>1
      <4>2. CASE \E q \in Procs : proc[q].hand = m /\ proc[q].at \in {"insert", "stop"}
        BY <1>1, <2>3, <4>2
      <4>3. QED
        BY <4>1, <4>2 DEF NameInvs, NothingOrphaned
    <3>2. Up' = Up
      BY <1>1 DEF Up
    <3>3. QED
      BY <1>1, <3>1, <3>2 DEF NothingOrphaned
  <2>9. BusyIsReleased'
    <3>1. \A m : Inside(m)' = Inside(m)
      BY <1>1, <1>3, <2>3 DEF Inside, Procs
    <3>2. QED
      BY <2>2, <3>1 DEF NameInvs, BusyIsReleased
  <2>10. QED
    BY <2>6, <2>7, <2>8, <2>9 DEF NameInvs
<1>4. QED
  BY <1>0, <1>2, <1>3

\* A container that ends is nowhere.
LEMMA StopNames ==
  ASSUME TypeOK, KeyInv, LockInvs, NameInvs, NEW p \in Procs, Stop(p)
  PROVE  NameInvs'
<1>0. PICK n \in Names : n = proc[p].hand
  BY StopFacts DEF NameInvs, NamesInv, Holding
<1>1. /\ proc[p].at = "stop" /\ Moves(p) /\ entry' = entry /\ up' = [up EXCEPT ![n] = None]
      /\ proc'[p].at \notin {"insert", "stop", "inside"}
  BY <1>0, StopFacts DEF KeyInv, Toward, Goals
<1>2. \A m \in Names : up'[m] = IF m = n THEN None ELSE up[m]
  BY <1>1 DEF TypeOK
<1>3. \A q \in Procs : q # p => proc'[q] = proc[q]
  BY <1>1 DEF Moves
<1>4. Live' = Live /\ \A k \in Live : entry[k].name \in Names
  BY <1>1 DEF Live, TypeOK, Entry
<1>5. NamesInv'
  BY <1>1, <1>2, <1>3, <1>4 DEF NameInvs, NamesInv, Holding
<1>6. InsideInv'
  BY <1>1, <1>3, <1>4 DEF NameInvs, InsideInv
<1>7. NothingOrphaned'
  <2>1. ASSUME NEW m \in Up'
        PROVE  \/ \E j \in Live : entry[j].name = m /\ up'[m] = j
               \/ \E q \in Procs : proc'[q].hand = m /\ proc'[q].at \in {"insert", "stop"}
    <3>1. m \in Up /\ up'[m] = up[m] /\ m # n
      BY <1>2, <2>1 DEF Up
    <3>2. QED
      BY <1>0, <1>3, <3>1 DEF NameInvs, NothingOrphaned
  <2>2. QED
    BY <1>1, <1>4, <2>1 DEF NothingOrphaned
<1>8. BusyIsReleased'
  <2>1. \A m : Inside(m)' = Inside(m)
    BY <1>1, <1>3 DEF Inside, Procs
  <2>2. QED
    BY <1>1, <1>4, <2>1 DEF NameInvs, BusyIsReleased
<1>9. QED
  BY <1>5, <1>6, <1>7, <1>8 DEF NameInvs

\* So is one that ends by itself, whatever still names it.
LEMMA LoseNames ==
  ASSUME TypeOK, NameInvs, NEW n \in Names, Lose(n)
  PROVE  NameInvs'
<1>1. entry' = entry /\ proc' = proc /\ up' = [up EXCEPT ![n] = None]
  BY LoseFacts
<1>2. \A m \in Names : up'[m] = IF m = n THEN None ELSE up[m]
  BY <1>1 DEF TypeOK
<1>3. Live' = Live /\ \A k \in Live : entry[k].name \in Names
  BY <1>1 DEF Live, TypeOK, Entry
<1>4. NamesInv'
  BY <1>1, <1>2, <1>3 DEF NameInvs, NamesInv, Holding
<1>5. InsideInv'
  BY <1>1, <1>3 DEF NameInvs, InsideInv
<1>6. NothingOrphaned'
  <2>1. \A m \in Up' : m \in Up /\ up'[m] = up[m]
    BY <1>2 DEF Up
  <2>2. QED
    BY <1>1, <1>3, <2>1 DEF NameInvs, NothingOrphaned
<1>7. BusyIsReleased'
  BY <1>1, <1>3 DEF NameInvs, BusyIsReleased, Inside
<1>8. QED
  BY <1>4, <1>5, <1>6, <1>7 DEF NameInvs

\* Every step of a process keeps what is true of names and busy counts.
LEMMA NamesStep ==
  ASSUME TypeOK, JobInv, KeyInv, LockInvs, NameInvs, NEW p \in Procs, Step(p)
  PROVE  NameInvs'
<1> USE DEF Goals
<1>e. UNCHANGED entry => KeepsMap
  BY DEF KeepsMap
<1>i. LockInv /\ MakingInv /\ NamesInv
  BY DEF LockInvs, NameInvs
<1>1. CASE Resolved(p)
  BY <1>1, <1>e, ResolvedFacts, PlainMoves DEF Toward
<1>2. CASE Mint(p)
  BY <1>2, <1>e, MintFacts, PlainMoves
<1>3. CASE Check(p)
  BY <1>3, <1>e, CheckFacts, PlainMoves DEF Idles
<1>4. CASE Ensure(p)
  BY <1>4, <1>e, EnsureFacts, PlainMoves DEF Proceeds, Idles
<1>5. CASE Lock(p)
  BY <1>5, <1>e, LockFacts, PlainMoves DEF Proceeds, Idles, Toward
<1>6. CASE Room(p)
  BY <1>6, <1>e, <1>i, RoomFacts, PlainMoves DEF Idles
<1>7. CASE Start(p)
  BY <1>7, StartNames
<1>8. CASE StartFails(p)
  BY <1>8, <1>e, <1>i, StartFailsFacts, PlainMoves DEF Idles
<1>9. CASE Insert(p)
  BY <1>9, InsertNames
<1>10. CASE Run(p)
  BY <1>10, RunNames
<1>11. CASE Exit(p)
  BY <1>11, ExitNames
<1>12. CASE Rebuild(p)
  BY <1>12, <1>e, RebuildFacts, PlainMoves DEF Idles, Toward
<1>13. CASE Drop(p)
  BY <1>13, DropNames
<1>14. CASE Stop(p)
  BY <1>14, StopNames
<1>15. CASE Over(p)
  BY <1>15, <1>e, OverFacts, PlainMoves DEF Idles
<1>16. QED
  BY <1>1, <1>2, <1>3, <1>4, <1>5, <1>6, <1>7, <1>8, <1>9, <1>10, <1>11, <1>12, <1>13,
     <1>14, <1>15 DEF Step

-----------------------------------------------------------------------------
(* The operator, the keeper, and what happens by itself. *)

\* A command opens, or the operator's warm, stop or restart.
LEMMA OpensStep ==
  ASSUME PoolInv,
         \/ \E k \in Keys : Warm(k) \/ \E c \in Commands : Resolve(c, k)
         \/ \E n \in Names : Ask("stop", n) \/ Ask("restart", n)
  PROVE  PoolInv'
<1>0. TypeOK /\ JobInv /\ KeyInv /\ LockInvs /\ NameInvs
  BY DEF PoolInv, LockInvs, NameInvs
<1>1. PICK p \in Procs :
        /\ TypeOK' /\ Moves(p) /\ UNCHANGED <<entry, starting, up>>
        /\ proc[p].at = "idle" /\ proc'[p].key \in Keys
        /\ \/ /\ Toward(p, "resolve")
              /\ \/ proc'[p].job = "command" /\ p \in Commands
                 \/ proc'[p].job = "warm"
           \/ proc'[p].at = "halt" /\ proc'[p].job \in {"stop", "restart"}
  <2>1. CASE \E k \in Keys : Warm(k)
    BY <1>0, <2>1, WarmFacts, OperatorIsNoCommand
  <2>2. CASE \E k \in Keys, c \in Commands : Resolve(c, k)
    BY <1>0, <2>2, ResolveFacts DEF Procs
  <2>3. CASE \E n \in Names : Ask("stop", n)
    BY <1>0, <2>3, AskFacts, OperatorIsNoCommand
  <2>4. CASE \E n \in Names : Ask("restart", n)
    BY <1>0, <2>4, AskFacts, OperatorIsNoCommand
  <2>5. QED
    BY <2>1, <2>2, <2>3, <2>4
<1>2. KeepsMap /\ EmptyStays
  BY <1>1 DEF KeepsMap, EmptyStays
<1>3. JobInv' /\ KeyInv'
  BY <1>0, <1>1, TaskMoves DEF Toward, Ending, Making, Goals
<1>4. LockInvs'
  BY <1>0, <1>1, <1>2, FreeMoves DEF Toward, UnderLock, Making, Ending
<1>5. NameInvs'
  BY <1>0, <1>1, <1>2, PlainMoves DEF Toward
<1>6. QED
  BY <1>1, <1>3, <1>4, <1>5 DEF PoolInv, LockInvs, NameInvs

\* An explicit stop, under the start lock.
LEMMA HaltStep ==
  ASSUME PoolInv, Halt \/ Halted
  PROVE  PoolInv'
<1>0. TypeOK /\ JobInv /\ KeyInv /\ LockInvs /\ NameInvs /\ Operator \in Procs /\ Operator \notin Commands
  BY PoolAssumption, OperatorIsNoCommand DEF PoolInv, LockInvs, NameInvs
<1> DEFINE p == Operator
<1>1. CASE Halt
  <2>1. /\ TypeOK' /\ Moves(p) /\ UNCHANGED <<entry, up>>
        /\ proc[p].at = "halt" /\ proc[p].key \in Keys /\ starting = None
        /\ \/ Idles(p) /\ UNCHANGED starting
           \/ starting' = p /\ Toward(p, "halted") /\ Keeps(p)
    BY <1>0, <1>1, HaltFacts
  <2>2. KeepsMap /\ EmptyStays
    BY <2>1 DEF KeepsMap, EmptyStays
  <2>3. JobInv' /\ KeyInv'
    BY <1>0, <2>1, TaskMoves DEF Toward, Idles, Keeps, Ending, Making, Goals, JobInv
  <2>4. ~Making(p)' /\ ~(Ending(p, {"start"}) \/ proc[p].at = "insert")'
    BY <2>1 DEF Idles, Toward, Making, Ending
  <2>5. LockInv'
    <3>1. Idles(p) => ~UnderLock(p)'
      BY DEF Idles, UnderLock, Making, Ending
    <3>2. QED
      BY <1>0, <2>1, <3>1, LockMoves DEF LockInvs
  <2>6. MakingInv' /\ RoomInv' /\ CapHolds'
    BY <1>0, <2>1, <2>2, <2>4, MakingMoves DEF LockInvs
  <2>7. NameInvs'
    BY <1>0, <2>1, <2>2, PlainMoves DEF Idles, Toward
  <2>8. QED
    BY <2>1, <2>3, <2>5, <2>6, <2>7 DEF PoolInv, NameInvs
<1>2. CASE Halted
  <2>1. /\ TypeOK' /\ Moves(p) /\ UNCHANGED <<entry, up>>
        /\ proc[p].at = "halted" /\ starting' = None
        /\ Idles(p) \/ (proc'[p].at = "ensure" /\ Keeps(p))
    BY <1>0, <1>2, HaltedFacts
  <2>2. KeepsMap /\ EmptyStays
    BY <2>1 DEF KeepsMap, EmptyStays
  <2>3. JobInv' /\ KeyInv'
    <3>1. proc[p].key \in Keys /\ (proc[p].job = "command" => p \in Commands)
      BY <1>0, <2>1 DEF KeyInv, JobInv, Ending
    <3>2. QED
      BY <1>0, <2>1, <3>1, TaskMoves DEF Idles, Keeps, Ending, Making, Goals
  <2>4. ~Making(p)' /\ ~(Ending(p, {"start"}) \/ proc[p].at = "insert")' /\ ~UnderLock(p)'
    BY <2>1 DEF Idles, UnderLock, Making, Ending
  <2>5. LockInv'
    <3>1. UnderLock(p)
      BY <2>1 DEF UnderLock, Ending
    <3>2. QED
      BY <1>0, <2>1, <2>4, <3>1, LockMoves DEF LockInvs
  <2>6. MakingInv' /\ RoomInv' /\ CapHolds'
    BY <1>0, <2>1, <2>2, <2>4, MakingMoves DEF LockInvs
  <2>7. NameInvs'
    BY <1>0, <2>1, <2>2, PlainMoves DEF Idles
  <2>8. QED
    BY <2>1, <2>3, <2>5, <2>6, <2>7 DEF PoolInv, NameInvs
<1>3. QED
  BY <1>1, <1>2

\* The sweep and the close.
LEMMA KeeperStep ==
  ASSUME PoolInv, Sweep \/ SweepInvalid \/ Close
  PROVE  PoolInv'
<1>0. TypeOK /\ JobInv /\ KeyInv /\ LockInvs /\ NameInvs /\ Keeper \in Procs /\ Keeper \notin Commands
  BY PoolAssumption, OperatorIsNoCommand DEF PoolInv, LockInvs, NameInvs
<1> DEFINE p == Keeper
<1>1. /\ TypeOK' /\ Moves(p) /\ UNCHANGED <<entry, starting, up>>
      /\ proc[p].at \in {"idle", "invalid"}
      /\ \/ Idles(p)
         \/ /\ Toward(p, "invalid") \/ Toward(p, "over")
            /\ \/ proc'[p].job \in {"sweep", "close"}
               \/ proc[p].at = "invalid" /\ proc'[p].job = proc[p].job
  BY <1>0, KeeperFacts
<1>2. KeepsMap /\ EmptyStays
  BY <1>1 DEF KeepsMap, EmptyStays
<1>3. JobInv' /\ KeyInv'
  BY <1>0, <1>1, TaskMoves DEF Toward, Idles, Ending, Making, Goals, JobInv
<1>4. LockInvs'
  BY <1>0, <1>1, <1>2, FreeMoves DEF Toward, Idles, UnderLock, Making, Ending
<1>5. NameInvs'
  BY <1>0, <1>1, <1>2, PlainMoves DEF Toward, Idles
<1>6. QED
  BY <1>1, <1>3, <1>4, <1>5 DEF PoolInv, LockInvs, NameInvs

\* No process moves: a container ages, ends by itself, or its definition changes.
LEMMA EventStep ==
  ASSUME PoolInv,
         \/ \E k \in Keys : Age(k)
         \/ \E n \in Names : Lose(n)
         \/ \E d \in Digests \cup {None} : Edit(d)
  PROVE  PoolInv'
<1>0. TypeOK /\ JobInv /\ KeyInv /\ LockInvs /\ NameInvs
  BY DEF PoolInv, LockInvs, NameInvs
<1>1. TypeOK' /\ proc' = proc /\ starting' = starting /\ KeepsMap
  <2>1. UNCHANGED entry => KeepsMap
    BY DEF KeepsMap
  <2>2. QED
    BY <1>0, <2>1, AgeFacts, LoseFacts, EditFacts
<1>2. JobInv' /\ KeyInv'
  BY <1>0, <1>1 DEF JobInv, KeyInv, Ending, Making
<1>3. Live' = Live
  BY <1>1 DEF KeepsMap, Live
<1>4. LockInvs'
  <2>1. LockInv' /\ RoomInv' /\ CapHolds'
    BY <1>0, <1>1, <1>3 DEF LockInvs, LockInv, RoomInv, CapHolds, Left, Ending, Making
  <2>2. MakingInv'
    BY <1>0, <1>1 DEF LockInvs, MakingInv, Ending, Making, KeepsMap
  <2>3. QED
    BY <2>1, <2>2 DEF LockInvs
<1>5. NameInvs'
  <2>1. CASE \E n \in Names : Lose(n)
    BY <1>0, <2>1, LoseNames
  <2>2. CASE (\E k \in Keys : Age(k)) \/ \E d \in Digests \cup {None} : Edit(d)
    <3>1. up' = up
      BY <1>0, <2>2, AgeFacts, EditFacts
    <3>2. Moves(Keeper) /\ Keeper \in Procs
      BY <1>0, <1>1, OperatorIsNoCommand DEF Moves, TypeOK
    <3>3. QED
      BY <1>0, <1>1, <3>1, <3>2, PlainMoves
  <2>3. QED
    BY <2>1, <2>2
<1>6. QED
  BY <1>1, <1>2, <1>4, <1>5 DEF PoolInv, LockInvs, NameInvs

-----------------------------------------------------------------------------
(* The theorems. *)

\* The invariant holds in every initial state.
LEMMA PoolInit == Init => PoolInv
<1> SUFFICES ASSUME Init PROVE PoolInv
  OBVIOUS
<1>1. Live = {} /\ Up = {}
  BY DEF Init, Live, Up
<1>2. \A p \in Procs : proc[p] = Rest /\ proc[p].at = "idle"
  BY RestShape DEF Init
<1>3. TypeOK
  BY PoolAssumption, RestShape DEF Init, TypeOK
<1>4. JobInv /\ KeyInv /\ LockInv /\ MakingInv
  BY <1>2 DEF JobInv, KeyInv, LockInv, MakingInv, Ending, Making
<1>5. RoomInv
  BY <1>2 DEF RoomInv, Ending
<1>6. CapHolds
  BY <1>1, FS_EmptySet, PoolAssumption DEF CapHolds
<1>7. NamesInv /\ InsideInv /\ NothingOrphaned /\ BusyIsReleased
  BY <1>1, <1>2 DEF NamesInv, InsideInv, NothingOrphaned, BusyIsReleased, Holding
<1>8. QED
  BY <1>3, <1>4, <1>5, <1>6, <1>7 DEF PoolInv

\* Every step preserves the invariant.
LEMMA PoolStep == PoolInv /\ [Next]_vars => PoolInv'
<1> SUFFICES ASSUME PoolInv, [Next]_vars PROVE PoolInv'
  OBVIOUS
<1>1. ASSUME NEW p \in Procs, Step(p) PROVE PoolInv'
  <2>1. TypeOK /\ JobInv /\ KeyInv /\ LockInvs /\ NameInvs
    BY DEF PoolInv, LockInvs, NameInvs
  <2>2. TypeOK' /\ JobInv' /\ KeyInv'
    BY <1>1, <2>1, TaskStep DEF LockInvs, NameInvs
  <2>3. LockInvs' /\ NameInvs'
    BY <1>1, <2>1, LockStep, NamesStep DEF NameInvs
  <2>4. QED
    BY <2>2, <2>3 DEF PoolInv, LockInvs, NameInvs
<1>2. CASE UNCHANGED vars
  <2>0. TypeOK /\ JobInv /\ KeyInv /\ LockInvs /\ NameInvs
    BY DEF PoolInv, LockInvs, NameInvs
  <2>1. TypeOK' /\ proc' = proc /\ starting' = starting /\ entry' = entry /\ up' = up
    BY <1>2, <2>0 DEF vars, map, TypeOK
  <2>2. JobInv' /\ KeyInv'
    BY <2>0, <2>1 DEF JobInv, KeyInv, Ending, Making
  <2>3. Live' = Live
    BY <2>1 DEF Live
  <2>4. LockInvs'
    BY <2>0, <2>1, <2>3
       DEF LockInvs, LockInv, MakingInv, RoomInv, CapHolds, Left, Ending, Making
  <2>5. KeepsMap /\ Moves(Keeper) /\ Keeper \in Procs
    BY <2>0, <2>1, OperatorIsNoCommand DEF KeepsMap, Moves, TypeOK
  <2>6. NameInvs'
    BY <2>0, <2>1, <2>5, PlainMoves
  <2>7. QED
    BY <2>1, <2>2, <2>4, <2>6 DEF PoolInv, LockInvs, NameInvs
<1>3. QED
  BY <1>1, <1>2, OpensStep, HaltStep, KeeperStep, EventStep DEF Next

\* The invariant holds throughout.
THEOREM PoolInvariant == Spec => []PoolInv
<1>1. QED
  BY PoolInit, PoolStep, PTL DEF Spec

\* Types: a place's container, a process and a name of the daemon's are what they are declared.
THEOREM PoolTypes == Spec => []TypeOK
<1>1. PoolInv => TypeOK
  BY DEF PoolInv
<1>2. QED
  BY <1>1, PoolInvariant, PTL

\* Every container the daemon runs is in the map under its place, or in the hands
\* of the task that starts or stops it.
THEOREM NoContainerForgotten == Spec => []NothingOrphaned
<1>1. PoolInv => NothingOrphaned
  BY DEF PoolInv
<1>2. QED
  BY <1>1, PoolInvariant, PTL

\* A container counts no more commands than are in it.
THEOREM PlacesAreGivenBack == Spec => []BusyIsReleased
<1>1. PoolInv => BusyIsReleased
  BY DEF PoolInv
<1>2. QED
  BY <1>1, PoolInvariant, PTL

-----------------------------------------------------------------------------
(* The pool implements Places. *)

InStart(p) == proc[p].at \in {"start", "insert"}

\* At most one process starts a container, and its place is the one coming.
ComingHolds == /\ \A p \in Procs : InStart(p) => Starter = {p} /\ Coming = proc[p].key
               /\ (\A p \in Procs : ~InStart(p)) => Starter = {} /\ Coming = None
\* Under the invariant at most one container is being made.
LEMMA ComingIs == PoolInv => ComingHolds
<1> SUFFICES ASSUME PoolInv PROVE ComingHolds
  OBVIOUS
<1>1. ASSUME NEW p \in Procs, InStart(p)
      PROVE  Starter = {p} /\ Coming = proc[p].key
  <2>1. \A q \in Procs : InStart(q) => UnderLock(q)
    BY DEF InStart, UnderLock, Making, Ending
  <2>2. Starter = {p}
    BY <1>1, <2>1, OneUnderLock DEF Starter, InStart, PoolInv
  <2>3. QED
    BY <2>2 DEF Coming
<1>2. (\A p \in Procs : ~InStart(p)) => Starter = {} /\ Coming = None
  BY DEF Starter, Coming, InStart
<1>3. QED
  BY <1>1, <1>2 DEF ComingHolds

\* Places counts as this module does.
LEMMA SameCardinality == Held!Cardinality(Live) = Cardinality(Live)
BY DEF Held!Cardinality, Cardinality

\* What one process does to the places, as Places sees it.
LEMMA HeldMoves ==
  ASSUME PoolInv, PoolInv', NEW p \in Procs, Moves(p),
         \/ /\ Live' = Live /\ (InStart(p)' <=> InStart(p))
            /\ InStart(p) => proc'[p].key = proc[p].key
         \/ Live' = Live /\ Making(p) /\ ~InStart(p) /\ proc'[p].at = "start"
         \/ /\ Live' = Live \/ Live' = Live \cup {proc[p].key}
            /\ InStart(p) /\ ~InStart(p)'
         \/ (\E k \in Live : Live' = Live \ {k}) /\ ~InStart(p) /\ ~InStart(p)'
  PROVE  [Held!Next]_<<Live, Coming>>
<1>0. /\ \A q \in Procs : InStart(q) => Coming = proc[q].key
      /\ (\A q \in Procs : ~InStart(q)) => Coming = None
  BY ComingIs DEF ComingHolds
<1>0p. /\ \A q \in Procs : InStart(q)' => Coming' = proc'[q].key
       /\ (\A q \in Procs : ~InStart(q)') => Coming' = None
  <2>1. ComingHolds'
    BY ComingIs, PTL
  <2>2. QED
    BY <2>1 DEF ComingHolds
<1>1. \A q \in Procs : q # p => proc'[q] = proc[q] /\ (InStart(q)' <=> InStart(q))
  BY DEF Moves, InStart
<1>2. \A q \in Procs : q # p /\ UnderLock(p) => ~InStart(q)
  BY OneUnderLock DEF PoolInv, InStart, UnderLock, Making, Ending
<1>3. /\ InStart(p) => UnderLock(p) /\ proc[p].key \in Keys
      /\ Live \in SUBSET Keys /\ None \notin Keys
  BY PoolAssumption DEF InStart, UnderLock, Making, Ending, PoolInv, KeyInv, MakingInv, Live
<1>4. CASE /\ InStart(p)' <=> InStart(p)
           /\ InStart(p) => proc'[p].key = proc[p].key
           /\ Live' = Live \/ \E k \in Live : Live' = Live \ {k}
  <2>1. Coming' = Coming
    <3>1. CASE \E q \in Procs : InStart(q)
      BY <1>0, <1>0p, <1>1, <1>4, <3>1
    <3>2. CASE \A q \in Procs : ~InStart(q)
      BY <1>0, <1>0p, <1>1, <1>4, <3>2
    <3>3. QED
      BY <3>1, <3>2
  <2>2. CASE Live' = Live
    BY <2>1, <2>2
  <2>3. CASE \E k \in Live : Live' = Live \ {k}
    BY <1>3, <2>1, <2>3 DEF Held!Next, Held!Leave
  <2>4. QED
    BY <1>4, <2>2, <2>3
<1>5. CASE Live' = Live /\ Making(p) /\ ~InStart(p) /\ proc'[p].at = "start"
  <2>1. Coming = None
    BY <1>0, <1>2, <1>5 DEF UnderLock
  <2>2. InStart(p)' /\ Making(p)' /\ Ending(p, {"start"})' /\ Left(p)' = Live'
    BY <1>5 DEF InStart, Making, Ending, Left
  <2>3. Coming' = proc'[p].key /\ proc'[p].key \in Keys /\ proc'[p].key \notin Live'
    BY <1>0p, <2>2 DEF PoolInv, MakingInv, Live
  <2>4. MaxLive # 0 => Cardinality(Live') < MaxLive
    BY <2>2 DEF PoolInv, RoomInv
  <2>5. PICK k \in Keys : k = proc'[p].key
    BY <2>3
  <2>6. Held!Begin(k)
    BY <1>5, <2>1, <2>3, <2>4, <2>5, SameCardinality DEF Held!Begin, Held!Room
  <2>7. QED
    BY <2>6 DEF Held!Next
<1>6. CASE /\ Live' = Live \/ Live' = Live \cup {proc[p].key}
           /\ InStart(p) /\ ~InStart(p)'
  <2>1. Coming = proc[p].key /\ Coming # None
    BY <1>0, <1>3, <1>6
  <2>2. Coming' = None
    BY <1>0p, <1>1, <1>2, <1>3, <1>6
  <2>3. QED
    BY <1>6, <2>1, <2>2 DEF Held!Next, Held!Arrive, Held!Fail
<1>7. QED
  BY <1>4, <1>5, <1>6

\* The initial states are initial states of Places.
LEMMA HeldInit == Init => Held!Init
<1> SUFFICES ASSUME Init PROVE Held!Init
  OBVIOUS
<1>1. Live = {}
  BY DEF Init, Live
<1>2. Starter = {}
  BY RestShape DEF Init, Starter
<1>3. QED
  BY <1>1, <1>2 DEF Held!Init, Coming

\* A process's own steps.
LEMMA HeldStep ==
  ASSUME PoolInv, PoolInv', NEW p \in Procs, Step(p)
  PROVE  [Held!Next]_<<Live, Coming>>
<1>0. TypeOK /\ JobInv /\ KeyInv /\ LockInvs /\ NameInvs /\ LockInv /\ MakingInv /\ NamesInv
  BY DEF PoolInv, LockInvs, NameInvs
<1>e. /\ UNCHANGED entry => Live' = Live
      /\ KeepsMap => Live' = Live
  BY DEF Live, KeepsMap
<1>1. CASE Resolved(p)
  BY <1>0, <1>1, <1>e, ResolvedFacts, HeldMoves DEF Toward, InStart
<1>2. CASE Mint(p)
  BY <1>0, <1>2, <1>e, MintFacts, HeldMoves DEF InStart
<1>3. CASE Check(p)
  BY <1>0, <1>3, <1>e, CheckFacts, HeldMoves DEF Idles, InStart
<1>4. CASE Ensure(p)
  BY <1>0, <1>4, <1>e, EnsureFacts, HeldMoves DEF Proceeds, Idles, InStart
<1>5. CASE Lock(p)
  BY <1>0, <1>5, <1>e, LockFacts, HeldMoves DEF Proceeds, Idles, Toward, InStart
<1>6. CASE Room(p)
  BY <1>0, <1>6, <1>e, RoomFacts, HeldMoves DEF Idles, InStart, Making, Ending
<1>7. CASE Start(p)
  BY <1>0, <1>7, <1>e, StartFacts, HeldMoves DEF SameTask, Keeps, InStart
<1>8. CASE StartFails(p)
  BY <1>0, <1>8, <1>e, StartFailsFacts, HeldMoves DEF Idles, InStart
<1>9. CASE Insert(p)
  <2>1. Live' = Live \cup {proc[p].key}
    BY <1>0, <1>9, InsertFacts DEF Live
  <2>2. QED
    BY <1>0, <1>9, <2>1, InsertFacts, HeldMoves DEF Proceeds, Idles, InStart
<1>10. CASE Run(p)
  <2>1. Live' = Live
    BY <1>0, <1>10, RunFacts DEF Live
  <2>2. QED
    BY <1>0, <1>10, <2>1, RunFacts, HeldMoves DEF Idles, InStart
<1>11. CASE Exit(p)
  <2>1. Live' = Live
    BY <1>0, <1>11, ExitFacts DEF Live
  <2>2. QED
    BY <1>0, <1>11, <2>1, ExitFacts, HeldMoves DEF Idles, InStart
<1>12. CASE Rebuild(p)
  BY <1>0, <1>12, <1>e, RebuildFacts, HeldMoves DEF Idles, Toward, InStart
<1>13. CASE Drop(p)
  <2>0. Moves(p) /\ proc[p].at = "drop" /\ ~InStart(p) /\ proc[p].next \in Goals
    BY <1>0, <1>13, DropFacts DEF InStart, KeyInv
  <2>1. CASE UNCHANGED entry /\ Toward(p, proc[p].next)
    <3>1. proc[p].next = "start" => Making(p)
      BY <2>0 DEF Making, Ending
    <3>2. InStart(p)' => proc'[p].at = "start" /\ proc[p].next = "start"
      BY <2>0, <2>1 DEF Toward, InStart, Goals
    <3>3. QED
      BY <1>e, <2>0, <2>1, <3>1, <3>2, HeldMoves
  <2>2. CASE \E k \in Keys : /\ entry[k] # None /\ proc'[p].at = "stop"
                             /\ entry' = [entry EXCEPT ![k] = None]
    <3>1. \E k \in Live : Live' = Live \ {k}
      BY <1>0, <2>2 DEF Live, TypeOK
    <3>2. QED
      BY <2>0, <2>2, <3>1, HeldMoves DEF InStart
  <2>3. QED
    BY <1>0, <1>13, <2>1, <2>2, DropFacts
<1>14. CASE Stop(p)
  <2>0. Moves(p) /\ proc[p].at = "stop" /\ ~InStart(p) /\ proc[p].next \in Goals
        /\ Toward(p, proc[p].next) /\ Live' = Live
    BY <1>0, <1>14, <1>e, StopFacts DEF InStart, KeyInv
  <2>1. proc[p].next = "start" => Making(p)
    BY <2>0 DEF Making, Ending
  <2>2. InStart(p)' => proc'[p].at = "start" /\ proc[p].next = "start"
    BY <2>0 DEF Toward, InStart, Goals
  <2>3. QED
    BY <2>0, <2>1, <2>2, HeldMoves
<1>15. CASE Over(p)
  BY <1>0, <1>15, <1>e, OverFacts, HeldMoves DEF Idles, InStart
<1>16. QED
  BY <1>1, <1>2, <1>3, <1>4, <1>5, <1>6, <1>7, <1>8, <1>9, <1>10, <1>11, <1>12, <1>13,
     <1>14, <1>15 DEF Step

\* What others do leaves the places as they are.
LEMMA HeldStays ==
  ASSUME PoolInv, PoolInv', NEW p \in Procs, Moves(p), KeepsMap, ~InStart(p), ~InStart(p)'
  PROVE  [Held!Next]_<<Live, Coming>>
<1>1. Live' = Live
  BY DEF KeepsMap, Live
<1>2. QED
  BY <1>1, HeldMoves

\* Every step is a step of Places, or leaves its places alone.
LEMMA HeldNext == PoolInv /\ PoolInv' /\ [Next]_vars => [Held!Next]_<<Live, Coming>>
<1> SUFFICES ASSUME PoolInv, PoolInv', [Next]_vars
             PROVE  [Held!Next]_<<Live, Coming>>
  OBVIOUS
<1>0. TypeOK /\ KeyInv /\ Operator \in Procs /\ Keeper \in Procs
  BY OperatorIsNoCommand DEF PoolInv
<1>e. UNCHANGED entry => KeepsMap
  BY DEF KeepsMap
<1>1. ASSUME NEW k \in Keys, Warm(k) PROVE [Held!Next]_<<Live, Coming>>
  BY <1>0, <1>1, <1>e, WarmFacts, HeldStays DEF Toward, InStart
<1>2. ASSUME NEW k \in Keys, NEW c \in Commands, Resolve(c, k)
      PROVE  [Held!Next]_<<Live, Coming>>
  BY <1>0, <1>2, <1>e, ResolveFacts, HeldStays DEF Toward, InStart, Procs
<1>3. ASSUME NEW n \in Names, NEW job \in {"stop", "restart"}, Ask(job, n)
      PROVE  [Held!Next]_<<Live, Coming>>
  BY <1>0, <1>3, <1>e, AskFacts, HeldStays DEF InStart
<1>4. CASE Halt
  BY <1>0, <1>4, <1>e, HaltFacts, HeldStays DEF Toward, Idles, InStart
<1>5. CASE Halted
  BY <1>0, <1>5, <1>e, HaltedFacts, HeldStays DEF Idles, InStart
<1>6. CASE Sweep \/ SweepInvalid \/ Close
  BY <1>0, <1>6, <1>e, KeeperFacts, HeldStays DEF Toward, Idles, InStart
<1>7. CASE \/ \E k \in Keys : Age(k)
           \/ \E n \in Names : Lose(n)
           \/ \E d \in Digests \cup {None} : Edit(d)
           \/ UNCHANGED vars
  <2>1. proc' = proc /\ KeepsMap
    BY <1>0, <1>7, <1>e, AgeFacts, LoseFacts, EditFacts DEF vars, map
  <2>2. Live' = Live /\ Coming' = Coming
    BY <2>1 DEF KeepsMap, Live, Coming, Starter
  <2>3. QED
    BY <2>2
<1>8. QED
  BY <1>1, <1>2, <1>3, <1>4, <1>5, <1>6, <1>7, HeldStep DEF Next

\* The pool implements Places: within the cap, one start at a time, and never one
\* for a place that has a container.
THEOREM PoolImplementsPlaces == Spec => PlacesHold
<1>1. QED
  BY HeldInit, HeldNext, PoolInvariant, PTL DEF Spec, PlacesHold, Held!Spec

\* With the container that is coming, the map stays within max_live.
THEOREM WarmAndComingFit == Spec => []Held!WithinCap
<1>1. PoolInv => Held!WithinCap
  <2> SUFFICES ASSUME PoolInv PROVE Held!WithinCap
    OBVIOUS
  <2>1. Live \in SUBSET Keys /\ Cardinality(Live) \in Nat
    BY CardinalityOfLess DEF Live
  <2>2. CASE \A p \in Procs : ~InStart(p)
    <3>1. Coming = None
      BY <2>2, ComingIs DEF ComingHolds
    <3>2. QED
      BY <2>1, <3>1, SameCardinality, PoolAssumption DEF Held!WithinCap, PoolInv, CapHolds
  <2>3. ASSUME NEW p \in Procs, InStart(p) PROVE Held!WithinCap
    <3>1. Coming = proc[p].key /\ Making(p) /\ Left(p) = Live
      BY <2>3, ComingIs DEF ComingHolds, InStart, Making, Ending, Left
    <3>2. Coming \in Keys /\ Coming \notin Live
      BY <3>1 DEF PoolInv, MakingInv, Live
    <3>3. MaxLive # 0 => Cardinality(Live) < MaxLive
      BY <2>3, <3>1 DEF PoolInv, RoomInv, InStart, Ending
    <3>4. QED
      BY <2>1, <3>2, <3>3, SameCardinality, PoolAssumption DEF Held!WithinCap
  <2>4. QED
    BY <2>2, <2>3
<1>2. QED
  BY <1>1, PoolInvariant, PTL
=============================================================================
