SPECIFICATION FairSpec
CONSTANTS
  Plays <- MCPlays
  MaxTx = 1
  Causes = {"noReply", "noFile"}
  LogNames = {"a", "b", "c"}
  LogSlots = 2
  MaxMatches = 4
  Ssids = {"home", "cafe"}
  Indices = {0}
  IgnoreMax = 2
  Sizes = {"1024"}
INVARIANTS
  TypeOK
  FlightKnown
  VerdictTrue
  RemovesConfirmed
PROPERTIES
  ListingTrue
  JoinedIsChosen
  AskedEnds
CHECK_DEADLOCK FALSE
