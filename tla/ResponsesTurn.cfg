\* Two continuations, two concurrent output items, three blocks.
SPECIFICATION FairSpec
CONSTANTS
  o1 = o1
  o2 = o2
  OutputIndex <- Outputs
  MaxRounds = 2
  MaxBlocks = 3
INVARIANTS ToolCallsAreReported EndedTurnsAreTerminated
PROPERTIES NoAskAfterToolCall ImplementsTurn TurnEnds
CHECK_DEADLOCK FALSE
