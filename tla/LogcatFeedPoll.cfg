SPECIFICATION Spec
CONSTANTS
  c1 = c1
  c2 = c2
  NoCall = NoCall
  Calls <- OneCall
  Filters <- AppOnly
  MaxFeeds = 1
  MaxStreams = 1
  MaxPid = 1
  Delays = 1
INVARIANTS
  PollPicksUp
CHECK_DEADLOCK FALSE
