SPECIFICATION Spec
CONSTANTS
  Plays <- HastyPlays
  MaxTx = 1
  MaxRx = 2
INVARIANTS
  PressAgainSends
