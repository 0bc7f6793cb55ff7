SPECIFICATION Spec
CONSTANTS
  Serials = {s1}
  Callers = {c1}
  Tracker = tracker
  Workers = {w1}
  NoThread = nobody
  MaxVersion = 2
  MaxGeneration = 1
  MaxRegistrations = 1
  PublishMayRaise = FALSE
INVARIANTS
  ResolutionIsLatest
