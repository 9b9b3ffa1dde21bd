SPECIFICATION FairSpec
CONSTANTS
  Tabs = {t1}
  Keys = {k1}
  Jobs = {j1, j2}
  None = None
  MaxSeq = 3
INVARIANTS
  NonceNeverReused
  GapFree
PROPERTIES
  BrokenSessionEnds
  WorkFinishes
CHECK_DEADLOCK FALSE
