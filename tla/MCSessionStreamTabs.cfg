SPECIFICATION Spec
CONSTANTS
  Tabs = {t1, t2}
  Keys = {k1}
  Jobs = {j1}
  None = None
  MaxSeq = 3
INVARIANTS
  CheckpointAhead
  SingleRunner
  NoResurrection
PROPERTIES
  RefinesOutbound
  RefinesInbound
SYMMETRY Symmetry
CHECK_DEADLOCK FALSE
