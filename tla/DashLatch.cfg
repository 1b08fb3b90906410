SPECIFICATION Spec
CONSTANTS
  Plays <- IdlePlays
  MaxTx = 1
  MaxRx = 2
INVARIANTS
  LatchHolds
