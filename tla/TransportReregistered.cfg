SPECIFICATION Spec
CONSTANTS
  Serials = {s1}
  Callers = {c1}
  Tracker = tracker
  Workers = {w1, w2}
  NoThread = nobody
  MaxVersion = 2
  MaxGeneration = 1
  MaxRegistrations = 2
  PublishMayRaise = FALSE
INVARIANTS
  OneRecoveryPerAbsence
