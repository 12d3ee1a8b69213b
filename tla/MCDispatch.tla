----------------------------- MODULE MCDispatch -----------------------------
(* Small instances of Dispatch.                                            *)
EXTENDS Dispatch

CONSTANTS r1, r2, c1, c2, c3, k1, k2, p1, p2

Requests2 == {r1, r2}
Conversations3 == {c1, c2, c3}
Keys2 == {k1, k2}
KeyOf3 == [c \in Conversations3 |-> IF c = c3 THEN k2 ELSE k1]
Providers2 == {p1, p2}
Interval2 == [p \in Providers2 |-> IF p = p1 THEN 1 ELSE 2]
=============================================================================
