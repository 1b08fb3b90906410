SPECIFICATION FairSpec
CONSTANTS
  wardrive = wardrive
  info = info
  tooLong = tooLong
  Cmd <- MCCmd
  Fits <- MCFits
  Wiped = Wiped
  Torn = Torn
  NoLen = NoLen
  MaxSends = 4
INVARIANTS
  ExactDelivery
  NoOverlap
  NoResidue
PROPERTIES
  MailboxSpec
  AcceptedIsSent
  StopEnds
CHECK_DEADLOCK FALSE
