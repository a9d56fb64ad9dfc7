SPECIFICATION FairSpec
CONSTANTS
  d1 = d1
  d2 = d2
  Serials <- TwoDevices
  Slots = 1
  Worlds <- PushOrPoll
INVARIANTS
  ListsAreSound
PROPERTIES
  ToldWhatWas
  TopicConverges
  QuitEnds
CHECK_DEADLOCK FALSE
