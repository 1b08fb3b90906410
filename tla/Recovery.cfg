SPECIFICATION FairRecoverySpec
CONSTANTS
  Plays <- MCPlays
  MaxTx = 1
  MaxRx = 2
  MaxTries = 2
  MaxOutages = 2
INVARIANTS
  RecoveryTypeOK
  RenewalSeen
PROPERTIES
  RestartSound
  LegacyOff
  RunningIsTrue
  RecoveryEnds
