SPECIFICATION Spec
CONSTANTS
  Starts <- OneStart
  RingCap = 2
  BatchCap = 2
  MirrorCap = 4
  BodySizes <- Either
  MaxPackets = 2
  MaxShared = 0
  MaxSaves = 0
INVARIANTS
  MirrorIsPcap
CHECK_DEADLOCK FALSE
