SPECIFICATION FairSpec
CONSTANTS
  Starts <- TwoStarts
  RingCap = 2
  BatchCap = 2
  MirrorCap = 4
  BodySizes <- Either
  MaxPackets = 3
  MaxShared = 0
  MaxSaves = 1
INVARIANTS
  PacketsAreWhole
  MirrorIsSound
  ReadsAreSound
PROPERTIES
  ReadIsShown
  StopReturns
CHECK_DEADLOCK FALSE
