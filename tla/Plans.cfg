SPECIFICATION Spec
CONSTANTS
  Creates = {c1, c2, c3}
  Moves = {m1, m2}
  Removals = {r1}
  Ids = {p1, p2, p3}
  Outfits = {o1}
  Days = {d1, d2}
  Operations = {k1}
  None = None
  MaxActive = 2
  MaxIdentities = 3
  MaxAttempts = 2
  MaxRevision = 2
  MaxFaults = 1
SYMMETRY Symmetry
CONSTRAINT OneMix
INVARIANTS
  AppliedOnce
  AcknowledgedKept
  BusyIsContention
  ListKept
PROPERTIES
  ImplementsLedger
CHECK_DEADLOCK FALSE
