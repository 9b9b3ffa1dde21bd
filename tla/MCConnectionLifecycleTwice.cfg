SPECIFICATION Spec
CONSTANTS
  Joins = {j1, j2}
  Lifecycle = life
  MaxChannel = 1
  MaxFrames = 2
  MaxQueue = 1
  MaxFailures = 2
INVARIANTS
  HealthyStreamSurvives
CHECK_DEADLOCK FALSE
