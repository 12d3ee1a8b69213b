\* Two requests, one permit, a drain and all three waiting tasks.
SPECIFICATION FairIdleSpec
CONSTANTS
  Request = {r1, r2}
  Limit = 1
  Timeout = 1
  Frac = 2
  Tasks = {"quiet", "draining", "idle"}
INVARIANTS CountIsBounded PermitsAreExact
PROPERTIES IdleIsNotEarly NoWakeUpIsLost IdleIsNoticed
CHECK_DEADLOCK FALSE
