SPECIFICATION FairSpec
CONSTANTS
  t1 = t1
  t2 = t2
  Tabs = {t1, t2}
  Callers = {c1, c2}
  None = None
  MaxReleases <- Releases
INVARIANTS
  HonestGrant
  NoLateOwner
PROPERTIES
  RefinesHolder
  EveryCallIsAnswered
CHECK_DEADLOCK FALSE
