------------------------------ MODULE MCTokens ------------------------------
(* Small instances of Tokens.                                              *)
EXTENDS Tokens

CONSTANTS r1, r2, s1, s2

Requests2 == {r1, r2}
Sessions2 == {s1, s2}
Rotating1 == {s1}
=============================================================================
