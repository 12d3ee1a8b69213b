---------------------------- MODULE MCUserConfigs ----------------------------
(* Small instances of UserConfigs.                                         *)
EXTENDS UserConfigs

CONSTANTS r1, r2, u1, d1, d2

Requests2 == {r1, r2}
Users1 == {u1}
Documents2 == {d1, d2}
=============================================================================
