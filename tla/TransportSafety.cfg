SPECIFICATION Spec
CONSTANTS
  Serials = {s1}
  Callers = {c1, c2}
  Tracker = tracker
  Workers = {w1, w2}
  NoThread = nobody
  MaxVersion = 3
  MaxGeneration = 2
  MaxRegistrations = 1
  PublishMayRaise = TRUE
SYMMETRY Interchangeable
INVARIANTS
  TypeOK
  SlotHolderIsAlive
  AbsenceIsAttempted
  OneRecoveryPerAbsence
