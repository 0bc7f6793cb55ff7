SPECIFICATION Spec
CONSTANTS
  Callers = {c1}
  BusThreads = {b1}
  Workers = {w1, w2}
  NoThread = nobody
  MaxAttempts = 3
  MaxEpoch = 1
  AttemptBound = 3
  RetriesOutlastScheduling = FALSE
  PublishMayRaise = FALSE
INVARIANTS
  LiveCycleIsDriven
