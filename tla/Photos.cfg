SPECIFICATION Spec
CONSTANTS
  Garments = {g1}
  Uploads = {u1, u2}
  Removals = {m1}
  Deletes = {d1}
  Clears = {c1}
  Renders = {r1, r2}
  Legacy = {l1}
  LegacySnapshots = {s1}
  None = None
  MaxSupplemental = 1
  MaxFaults = 1
SYMMETRY Symmetry
CONSTRAINT OneMix
INVARIANTS
  AttachedPhotosStored
  EvidencePhotosStored
PROPERTIES
  SettledNeverReattached
CHECK_DEADLOCK FALSE
