--------------------------- MODULE MCApprovalGate ---------------------------
(* Instances of ApprovalGate for TLC: two calls of one conversation that    *)
(* carry the same id and key, and a third with that id in another.          *)
EXTENDS ApprovalGate, TLC

CONSTANTS a1, a2, a3, s1, s2, i1, k1

TheScopes  == [a \in Calls |-> IF a = a3 THEN s2 ELSE s1]
TheIds     == [a \in Calls |-> i1]
TheKeys    == [a \in Calls |-> k1]
TheAnswers == {<<"no", "session">>}
Alike      == Permutations({a1, a2})

=============================================================================
