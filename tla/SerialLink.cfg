SPECIFICATION FairSpec
CONSTANTS
  Cap = 3
  Chunk = 2
  MaxBytes = 6
INVARIANTS
  GivenBack
  NoUseAfterRelease
  SaidIsApplied
PROPERTIES
  ExitEnds
CHECK_DEADLOCK FALSE
