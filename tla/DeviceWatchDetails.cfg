SPECIFICATION FairSpec
CONSTANTS
  d1 = d1
  d2 = d2
  Serials <- OneDevice
  Slots = 1
  Worlds <- JustStill
PROPERTIES
  DetailsConverge
CHECK_DEADLOCK FALSE
