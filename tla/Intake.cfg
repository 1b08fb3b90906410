SPECIFICATION Spec
CONSTANTS
  Plays <- MCPlays
  MaxText = 4
  CapMax = 5
  PullMax = 3
INVARIANTS
  LinesIntact
  FixOfOneAnswer
  IdentitySound
  CaptureTrue
CHECK_DEADLOCK FALSE
