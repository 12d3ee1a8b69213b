\* Every file of two models whose names are of six kinds.
SPECIFICATION Spec
CONSTANTS
  Token <- Tokens9
  None = None
  File <- Files2
  Requested <- Requested48
INVARIANTS OfferedNamesRoute RequestsGoWhereMeant
