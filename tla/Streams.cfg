SPECIFICATION AllSpec
CONSTANTS
  c1 = c1
  c2 = c2
  NoCall = NoCall
  Calls <- TwoCalls
  Filters <- AllOnly
  MaxFeeds = 2
  MaxStreams = 2
  MaxPid = 0
  Delays = 1
INVARIANTS
  OneLiveFeed
  LiveIsRegistered
  LinesOfOneFeed
  NoSilentFeed
PROPERTIES
  FeedsEnd
  SessionsEnd
CHECK_DEADLOCK FALSE
