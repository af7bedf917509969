SPECIFICATION Spec
CONSTANTS
  Creates = {c1}
  Revises = {v1}
  Retracts = {}
  Erases = {e1}
  Renders = {d1}
  Memories = {m1}
  Operations = {o1, o2}
  None = None
  MaxRevisions = 2
  MaxExperiences = 1
  MaxFaults = 2
SYMMETRY Symmetry
INVARIANTS
  SupersededRedacted
PROPERTIES
  HiddenStaysHidden
CHECK_DEADLOCK FALSE
