SPECIFICATION Spec
CONSTANTS
  Clients = {c1, c2}
  BusThreads = {b1}
  Workers = {w1, w2}
  NoThread = nobody
  MaxGeneration = 2
  MaxAttempts = 2
  AttemptBound = 2
  PublishMayRaise = TRUE
  RetriesOutlastScheduling = FALSE
  SessionsOutliveAdoption = FALSE
SYMMETRY Interchangeable
INVARIANTS
  TypeOK
  OneGeneration
  StoppedSessionsEnd
  OneDriver
  SlotIsFree
  CloseEndsObservation
PROPERTIES
  AdoptionAdvances
