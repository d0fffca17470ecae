-------------------------------- MODULE Places --------------------------------
(***************************************************************************)
(* What the container pool promises of its places                          *)
(* (src/crates/environment/src/container_pool.rs): a place is warm or not, *)
(* one place at a time is being warmed, a warm one is never warmed again,  *)
(* and the warm ones and the one coming stay within the cap.  Who asks,    *)
(* which place makes room, what fails and what a sweep reads is not said.  *)
(***************************************************************************)
EXTENDS Naturals, FiniteSets

CONSTANTS Keys, MaxLive, None

VARIABLES
  warm,   \* places with a container
  coming  \* the place a container is being started for, or None

Init == warm = {} /\ coming = None

Room == MaxLive = 0 \/ Cardinality(warm) < MaxLive

Begin(k) == /\ coming = None /\ k \notin warm /\ Room
            /\ coming' = k /\ UNCHANGED warm
Arrive   == /\ coming # None
            /\ warm' = warm \cup {coming} /\ coming' = None
Fail     == coming # None /\ coming' = None /\ UNCHANGED warm
Leave(k) == k \in warm /\ warm' = warm \ {k} /\ UNCHANGED coming

Next == \/ \E k \in Keys : Begin(k) \/ Leave(k)
        \/ Arrive \/ Fail

Spec == Init /\ [][Next]_<<warm, coming>>

-----------------------------------------------------------------------------
\* The places with a container, and the one that will have one, are within the
\* cap (max_live), and what is coming is not there.
WithinCap ==
  /\ warm \subseteq Keys /\ coming \in Keys \cup {None}
  /\ coming \notin warm
  /\ MaxLive # 0 =>
       Cardinality(warm) + (IF coming = None THEN 0 ELSE 1) <= MaxLive
=============================================================================
