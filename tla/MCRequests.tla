----------------------------- MODULE MCRequests -----------------------------
(* Small instances of Requests.                                           *)
EXTENDS Requests

=============================================================================
