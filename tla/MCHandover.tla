----------------------------- MODULE MCHandover -----------------------------
(* Small instances of Handover.                                            *)
EXTENDS Handover

CONSTANTS w1, w2, w3

Workers == {w1, w2, w3}

\* Two binaries; one is asked for with either of two config files or without
\* naming one, so that a reload without can follow a start with another file.
Specs ==
  {[target |-> "old", config |-> "file", idle |-> TRUE],
   [target |-> "old", config |-> "other", idle |-> TRUE],
   [target |-> "old", config |-> "-", idle |-> TRUE],
   [target |-> "new", config |-> "-", idle |-> TRUE]}
=============================================================================
