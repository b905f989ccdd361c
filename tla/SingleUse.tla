------------------------------- MODULE SingleUse -------------------------------
(* What a single-use token promises, whatever it is for and however the     *)
(* requests that present it interleave: one request, at most, takes it.     *)
EXTENDS FiniteSets

CONSTANTS Token, Attempt

VARIABLE takers             \* the requests that went on with each token

Init == takers = [t \in Token |-> {}]

Take(t, a) == takers[t] = {} /\ takers' = [takers EXCEPT ![t] = {a}]

Next == \E t \in Token, a \in Attempt : Take(t, a)

Spec == Init /\ [][Next]_takers
=============================================================================
