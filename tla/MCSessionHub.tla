---------------------------- MODULE MCSessionHub ----------------------------
(* Small instances of SessionHub for TLC: see the .cfg files.              *)
EXTENDS SessionHub, TLC
CONSTANTS k1, k2, c1, c2, u1, m1, m2, st1, p1, s1, s2

NoInput == {}
OneKey == {k1}
TwoKeys == {k1, k2}
OneConn == {c1}
TwoConns == {c1, c2}
RunConns == {c1, u1}
JustRun == {u1}
OneMsg == {m1}
TwoMsgs == {m1, m2}
OneSteer == {st1}
OnePost == {p1}
OneSlot == {s1}
TwoSlots == {s1, s2}

TurnInputs == {"rewind", "stop"}
SummaryInputs == {"compact", "switch", "rewind"}
ShutdownInputs == {"stop", "leave", "evict", "close"}
MovedInputs == {"compact"}
OverlapInputs == {"overlap"}

\* Sound for invariants: no action and no invariant names a member.
Alike == Permutations(Conns) \cup Permutations(Msgs) \cup Permutations(Slots)
SlotsAlike == Permutations(Slots) \cup Permutations(Msgs)

=============================================================================
