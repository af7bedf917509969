SPECIFICATION Races
CONSTANTS
  Writers = {w1}
  Erasers = {e1,e2}
  SignIns = {s1,s2}
  First = o1
  None = None
  MaxFaults = 1
INVARIANTS
  ErasureComplete
  RedactedFirst
  AcknowledgedRowsKept
PROPERTIES
  NoResurrection
  BarrierHolds
  ContinuationSucceeds
CHECK_DEADLOCK FALSE
