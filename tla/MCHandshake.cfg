SPECIFICATION FairSpec
CONSTANTS
  Tasks = {h1, h2}
  None = None
  MaxPairings = 2
  MaxScans = 2
INVARIANTS
  SecretsWiped
  SessionIsCurrent
  CompletionIsConfirmed
  Agreement
PROPERTIES
  Converges
CHECK_DEADLOCK FALSE
