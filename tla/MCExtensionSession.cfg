SPECIFICATION FairSpec
CONSTANTS
  Calls = {c1, c2, c3}
  Accounts = {a, b}
  None = None
  MaxEvents = 1
INVARIANTS
  NoGhostSession
  ShownIsCurrent
PROPERTIES
  CallsSettle
CHECK_DEADLOCK FALSE
