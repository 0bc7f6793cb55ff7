SPECIFICATION FairSpec
CONSTANTS
  MaxVersion = 2
  MaxGeneration = 2
  HasAddress = TRUE
  PublishMayRaise = TRUE
INVARIANTS
  TypeOK
  ConnectsOnce
  SatisfiedByEvidence
  NothingIsMissed
  SessionEndIsNoticed
PROPERTIES
  PreparationEnds
