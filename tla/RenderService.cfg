SPECIFICATION FairSpec
CONSTANTS
  Clients = {r1, r2, r3}
  Prompt = {r1, r2}
  Nobody = Nobody
  Burst = 1
  UnitsPerToken = 2
  RefillPerTick = 1
  MaxClock = 3
  MaxFaults = 3
INVARIANTS
  RateBound
  RefusedOnlyAtCeiling
  SpendRecorded
PROPERTIES
  NobodyBlocks
CHECK_DEADLOCK FALSE
