SPECIFICATION FairSpec
CONSTANTS
  Openers = {r1, r2}
  NoOpener = nobody
  Addresses = 2
  HeaderBytes = 2
  MaxLength = 1
  MaxFrames = 1
  MaxItems <- MCMaxItems
  MaxPackets = 4
INVARIANTS
  TypeOK
  SessionIsOwned
  AttemptIsTruthful
  SnapshotIsWhole
PROPERTIES
  ImplementsContract
  SourceCallsEnd
CHECK_DEADLOCK FALSE
