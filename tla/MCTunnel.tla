------------------------------ MODULE MCTunnel ------------------------------
(* Small instances of Tunnel.                                              *)
EXTENDS Tunnel

CONSTANTS r1, r2, p1, p2

Requests2 == {r1, r2}
Ports2 == {p1, p2}
=============================================================================
