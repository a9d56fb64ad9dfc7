SPECIFICATION AllSpec
CONSTANTS
  m1 = m1
  page = page
  other = other
  home = home
  cmd = cmd
  NoData = NoData
  Page <- page
  Mutators <- OneMutator
  Readers <- TwoReaders
  Links <- OneLink
  Strategies <- Two
  Needs <- SSIDNeeds
  Costly <- Two
  CapBins <- OnlyCmd
  Bins <- OnlyCmd
  Refusable <- First
  MaxWrites = 1
  MaxCalls = 1
  MaxRoams = 0
  Jobs = {1, 2}
  MaxCrashes = 1
  MaxFaults = 1
  MaxReboots = 1
  MaxCaptures = 2
  MaxRecs = 2
  ABIList <- TwoABIs
  Pinned = {"arm"}
  Askers = {1}
  MaxDumps = 2
  Certs = {"a", "b"}
  Suffixes = {0, 1}
  MaxCerts = 2
  Texts = {"x", "y"}
  MaxInodes = 2
  MaxHosts = 3
  MaxProbes = 3
  MaxChanges = 2
  Keys = {"k"}
  Rooted = {}
  Contents <- TwoContents
  MaxIds = 2
  MaxSaves = 4
  Families = {"v4", "v6"}
  Rulesets = {"open", "rule", "drop"}
  Drops = {"drop"}
  OpenTable = "open"
  Watched = "v4"
  Depth = 2
  MaxTables = 3
  MaxTogether = 2
INVARIANTS
  ServedIsTrue
  DeviceIsKnown
  NothingLost
PROPERTIES
  UndoIsALog
CHECK_DEADLOCK FALSE
