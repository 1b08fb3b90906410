SPECIFICATION FairSpec
CONSTANTS
  Plays <- SamplePlays
  MaxTx = 1
  MaxRows = 1
PROPERTIES
  NothingDuringScan
CHECK_DEADLOCK FALSE
