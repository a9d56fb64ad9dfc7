SPECIFICATION AllSpec
CONSTANTS
  User = User
  Starts <- Two
  Cancelled <- One
  MaxLists = 0
  MaxStops = 0
  Jobs <- Two
  MaxCalls = 3
  MaxCrashes = 1
  Edits <- TheEdits
  Specs <- TheSpecs
  Images <- TheImages
  HostABIs <- ArmABIs
  Listers <- Two
  MaxImageCalls = 4
  Callers <- Two
  Roots <- Folders
  Layouts <- TwoLayouts
  MaxToolCalls = 2
  MaxMoves = 1
  MaxBuilds = 2
INVARIANTS
  TypeOK
  NoneLeftBehind
  TookDown
  NoFalseEnd
  AvdKeeps
  ToolsAreTrue
PROPERTIES
  ReapsOwn
CHECK_DEADLOCK FALSE
