-------------------------- MODULE MCResponsesTurn --------------------------
(* Small instances of ResponsesTurn, and what the sources say of a turn    *)
(* that the code does not do.                                              *)
EXTENDS ResponsesTurn

CONSTANTS o1, o2

Outputs == {o1, o2}

\* mod.rs 146-148: the provider is asked again when "a round ends [...] without
\* the configured done phrase"; a round that is the phrase alone ends the turn.
DonePhraseEndsTheTurn ==
  [][pc = "reading" /\ pc' = "sending" => said # "phrase"]_vars
=============================================================================
