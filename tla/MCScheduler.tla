----------------------------- MODULE MCScheduler -----------------------------
(* Instances of Scheduler for TLC: an interval of one tick of the clock, and a *)
(* one-shot that is due at its first.                                          *)
EXTENDS Scheduler

CONSTANTS j1, j2

Every == [kind |-> "every", when |-> 1]
At    == [kind |-> "at", when |-> 1]

TheSchedules == {Every, At}
BothOn  == [j \in Jobs |-> IF j = j1 THEN [sched |-> Every, on |-> TRUE, once |-> FALSE]
                                     ELSE [sched |-> At, on |-> TRUE, once |-> TRUE]]
Twice   == [j \in Jobs |-> [sched |-> Every, on |-> TRUE, once |-> FALSE]]
JustOff == [j \in Jobs |-> [sched |-> Every, on |-> FALSE, once |-> FALSE]]
NewSchedule(sched) == [job |-> j1, given |-> {"sched"}, sched |-> sched, enabled |-> TRUE]
Switched(on)       == [job |-> j1, given |-> {"enabled"}, sched |-> Every, enabled |-> on]

\* A recurring job made a one-shot, or disabled.
TheEdits == {NewSchedule(At), Switched(FALSE)}
NoEdits  == {}
TurnOn   == {Switched(TRUE)}

=============================================================================
