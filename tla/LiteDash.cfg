SPECIFICATION FairSpec
CONSTANTS
  Plays <- MCPlays
  MaxTx = 1
  MaxRows = 2
INVARIANTS
  LiteTypeOK
  SampleClosed
  CountsHonest
PROPERTIES
  RecoverySound
  RecoveryEnds
  GpsdataOnIdle
CHECK_DEADLOCK FALSE
