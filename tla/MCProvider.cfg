SPECIFICATION FairSpec
CONSTANTS
  Pages = {p1}
  MaxCalls = 2
  a1 = a1
  c1 = c1
  Accounts = {a1}
  Chains = {c1}
  None = None
  Methods <- OneOfEach
  MaxPairings = 2
INVARIANTS
  ApprovalsOneAtATime
  NoCrossing
  SignedForApproved
  AnswersAreKept
PROPERTIES
  NoSecondAnswer
  EveryCallSettles
CHECK_DEADLOCK FALSE
