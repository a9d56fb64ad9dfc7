SPECIFICATION AllSpec
CONSTANTS
  m1 = m1
  page = page
  home = home
  cafe = cafe
  cmd = cmd
  User = User
  NoData = NoData
  Page <- page
  Mutators <- OneMutator
  Readers <- PageOnly
  Links <- TwoLinks
  Strategies <- Two
  Needs <- SSIDNeeds
  Costly <- Two
  CapBins <- OnlyCmd
  Bins <- OnlyCmd
  Refusable <- First
  MaxWrites = 1
  MaxCalls = 1
  MaxRoams = 1
INVARIANTS
  ShownIsTrue
  PreferredWhenItWorks
PROPERTIES
  CacheSettles
  TaskSettles
CHECK_DEADLOCK FALSE
