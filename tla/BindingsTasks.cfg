SPECIFICATION Spec
CONSTANTS
  MaxCalls = 2
  MaxSteps = 1
INVARIANTS
  UninstallIsShown
CHECK_DEADLOCK FALSE
