SPECIFICATION Spec
CONSTANTS
  Creates = {c1, c2}
  Revises = {}
  Retracts = {t1}
  Erases = {e1}
  Renders = {}
  Memories = {m1, m2}
  Operations = {o1, o2}
  None = None
  MaxRevisions = 1
  MaxExperiences = 1
  MaxFaults = 1
SYMMETRY Symmetry
INVARIANTS
  RevisionKept
  StorageBounded
  SweptStaysEmpty
PROPERTIES
  ErasedIsFinal
CHECK_DEADLOCK FALSE
