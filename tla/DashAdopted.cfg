SPECIFICATION Spec
CONSTANTS
  Plays <- PromptPlays
  MaxTx = 1
  MaxRx = 3
INVARIANTS
  Adopted
