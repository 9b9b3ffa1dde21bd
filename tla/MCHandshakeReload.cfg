SPECIFICATION FairSpec
CONSTANTS
  Tasks = {h1, h2}
  None = None
  MaxPairings = 1
  MaxScans = 1
PROPERTIES
  ReloadStrandsNoWallet
CHECK_DEADLOCK FALSE
