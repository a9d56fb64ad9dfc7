SPECIFICATION AllSpec
CONSTANTS
  c1 = c1
  NoCall = NoCall
  Calls <- OneCall
  Filters <- AppOnly
  MaxFeeds = 1
  MaxStreams = 2
  MaxPid = 2
  Delays = 1
  MirrorCalls <- Two
  MaxStarts = 2
  MaxMirrorCalls = 3
  MaxSwaps = 1
  Jobs <- Two
  MaxCrashes = 1
  Bodies <- TwoBodies
  Slugs <- OneSlug
  Apps <- OneApp
  MaxIds = 2
  MaxLibraryCalls = 4
  HistoryMax = 1
  PaneFilters <- AnyOrApp
  MaxPaneCalls = 4
  MaxLines = 2
  Sessions <- One
  Ring = 2
  MaxMsgs = 3
  MaxTurns = 1
  Readers <- One
  OutCap = 1
  BufCap = 2
  Cap = 1
  MaxChunks = 3
  MaxBatch = 1
INVARIANTS
  TypeOK
  NoOrphanStream
  NoDoubleForward
  NoSilentFeed
  MirrorIsTrue
  FridaFits
  PicksFit
  FridaKept
  ShellKeeps
  PaneHolds
CHECK_DEADLOCK FALSE
