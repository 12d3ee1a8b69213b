------------------------------ MODULE MCLogin -------------------------------
(* Small instances of Login.                                               *)
EXTENDS Login

CONSTANTS p1, p2

Providers2 == {p1, p2}
=============================================================================
