SPECIFICATION Spec
CONSTANTS
  Plays <- SafetyPlays
  MaxTx = 1
  MaxRx = 2
INVARIANTS
  SettledAgree
PROPERTIES
  NotSwallowed
  ConfirmedStartRuns
  ConfirmedStopStopped
  NoBlindStop
