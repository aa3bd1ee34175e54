SPECIFICATION FairSpec
CONSTANTS
  MaxEpochs = 2
  MaxPackets = 2
  MaxFilters = 2
  MaxBeats = 1
  MaxBreaks = 1
  MaxInputs = 2
  PktCap = 1
  BatchSize = 2
  FilterCap = 1
  SessionCap = 1
INVARIANTS AtMostOnceInOrder UpdateAppliedOnce
PROPERTIES CancelEnds
CHECK_DEADLOCK FALSE
