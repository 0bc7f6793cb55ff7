SPECIFICATION FairSpec
CONSTANTS
  Clients = {c1, c2}
  BusThreads = {b1}
  Workers = {w1, w2}
  NoThread = nobody
  MaxGeneration = 1
  MaxAttempts = 2
  AttemptBound = 2
  PublishMayRaise = FALSE
  RetriesOutlastScheduling = TRUE
  SessionsOutliveAdoption = TRUE
INVARIANTS
  LiveCycleIsDriven
  FailureIsAnswered
PROPERTIES
  CycleEnds
  CallsReturn
