SPECIFICATION Spec
CONSTANTS
  Pages = {p1, p2}
  MaxCalls = 1
  a1 = a1
  c1 = c1
  Accounts = {a1}
  Chains = {c1}
  None = None
  Methods <- OneSwitch
  MaxPairings = 1
INVARIANTS
  RecordsAreKept
CHECK_DEADLOCK FALSE
