SPECIFICATION Spec
CONSTANTS
  Callers = {c1, c2}
  BusThreads = {b1}
  Workers = {w1, w2}
  NoThread = nobody
  MaxAttempts = 2
  MaxEpoch = 3
  AttemptBound = 2
  RetriesOutlastScheduling = FALSE
  PublishMayRaise = TRUE
SYMMETRY Interchangeable
INVARIANTS
  TypeOK
  OneEpisode
  AttemptsOnlyWhileWanted
  OneDriver
  ExhaustedTruthfully
  LiveCycleIsArmed
  ClosedIsQuiet
PROPERTIES
  StopSticks
  ImplementsIntent
