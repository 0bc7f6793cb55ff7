SPECIFICATION FairSpec
CONSTANTS
  Callers = {c1, c2}
  BusThreads = {b1}
  Workers = {w1, w2}
  NoThread = nobody
  MaxAttempts = 2
  MaxEpoch = 2
  AttemptBound = 2
  RetriesOutlastScheduling = TRUE
  PublishMayRaise = FALSE
INVARIANTS
  LiveCycleIsDriven
  StoredTokenIsPending
PROPERTIES
  CycleEnds
  CallsReturn
