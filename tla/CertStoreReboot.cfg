SPECIFICATION Spec
CONSTANTS
  Certs = {"a", "b"}
  Jobs = {1}
  Suffixes = {0, 1}
  MaxCalls = 2
  MaxReboots = 1
INVARIANTS
  PersistentIsKept
CHECK_DEADLOCK FALSE
