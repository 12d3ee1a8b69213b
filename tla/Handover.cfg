\* Two binaries, two config files and none, three process ids, one response at a time, one crash.
SPECIFICATION FairSpec
CONSTANTS
  w1 = w1
  w2 = w2
  w3 = w3
  None = None
  Worker <- Workers
  WorkerSpec <- Specs
  MaxLoad = 1
  MaxCrashes = 1
INVARIANTS OneWorkerServes NoOrphans SpecIsLive
PROPERTIES ResponsesAreNotCut RequestsAreAnswered DrainingEnds
PROPERTIES ServiceReturns WorkersFollow
CHECK_DEADLOCK FALSE
