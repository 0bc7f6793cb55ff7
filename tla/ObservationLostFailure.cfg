SPECIFICATION Spec
CONSTANTS
  Clients = {c1}
  BusThreads = {b1}
  Workers = {w1}
  NoThread = nobody
  MaxGeneration = 1
  MaxAttempts = 2
  AttemptBound = 2
  PublishMayRaise = FALSE
  RetriesOutlastScheduling = TRUE
  SessionsOutliveAdoption = FALSE
INVARIANTS
  FailureIsAnswered
