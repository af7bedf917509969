SPECIFICATION FairSpec
CONSTANTS
  Garments = {g1}
  Uploads = {u1}
  Removals = {}
  Deletes = {}
  Clears = {c1}
  Renders = {r1}
  Legacy = {l1}
  LegacySnapshots = {}
  None = None
  MaxSupplemental = 1
  MaxFaults = 0
PROPERTIES
  GarbageIsReclaimed
CHECK_DEADLOCK FALSE
