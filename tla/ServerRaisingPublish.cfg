SPECIFICATION Spec
CONSTANTS
  Callers = {c1}
  BusThreads = {b1}
  Workers = {w1, w2}
  NoThread = nobody
  MaxAttempts = 2
  MaxEpoch = 1
  AttemptBound = 2
  RetriesOutlastScheduling = TRUE
  PublishMayRaise = TRUE
INVARIANTS
  LiveCycleIsDriven
