SPECIFICATION FairSpec
CONSTANTS
  Reqs = {"r1"}
  MaxLogins = 2
  MaxTokens = 3
  MaxReloads = 1
INVARIANTS SharedRefresh SessionCoherent
PROPERTIES OnlyLoginSignsIn WaitsEnd
CHECK_DEADLOCK FALSE
