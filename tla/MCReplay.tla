------------------------------ MODULE MCReplay ------------------------------
(* Instances of Replay for TLC: two turns of a few frames, a ring that keeps
   fewer frames than one turn has, a log that overruns on a long turn, and a
   socket that can hold a few live frames. *)
EXTENDS Replay

\* Two deltas that merge; a call that overruns the log.
TwoTurns == <<<<"text", "text">>, <<"call">>>>
=============================================================================
