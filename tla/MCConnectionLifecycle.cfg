SPECIFICATION FairSpec
CONSTANTS
  Joins = {j1}
  Lifecycle = life
  MaxChannel = 2
  MaxFrames = 1
  MaxQueue = 1
  MaxFailures = 2
INVARIANTS
  StatusHasSession
  OldChannelsRetired
  EndedStaysEnded
  ProbeIsForTheAbsent
PROPERTIES
  CallsEnd
CHECK_DEADLOCK FALSE
