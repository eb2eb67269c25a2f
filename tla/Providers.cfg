\* Three versions of the document, one failure, a channel of one.
CONSTANTS
  MaxVer = 3
  MaxFails = 1
  Cap = 1
  MaxTokens = 2
SPECIFICATION FairSpec
INVARIANTS SignalsExact
PROPERTIES ChangesLoaded WatchersStop
CHECK_DEADLOCK FALSE
