\* Expected to be violated.
SPECIFICATION Spec
CONSTANTS
  o1 = o1
  o2 = o2
  OutputIndex <- Outputs
  MaxRounds = 2
  MaxBlocks = 3
PROPERTIES DonePhraseEndsTheTurn
CHECK_DEADLOCK FALSE
