\* Two tool calls, four blocks.
SPECIFICATION Spec
CONSTANTS
  c1 = c1
  c2 = c2
  NoCall = NoCall
  CallIndex <- Calls
  MaxBlocks = 4
INVARIANTS ArgumentsReachTheirCall
PROPERTIES ImplementsTurn
CHECK_DEADLOCK FALSE
