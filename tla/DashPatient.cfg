SPECIFICATION FairSpec
CONSTANTS
  Plays <- PatientPlays
  MaxTx = 1
  MaxRx = 3
PROPERTIES
  StartResolved
  SavingEnds
