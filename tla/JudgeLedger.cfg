SPECIFICATION Spec
CONSTANTS
  Prefix <- OnePrefix
  Extension <- TwoMore
  K = 2
  MaxRuns = 4
  Absent = Absent
INVARIANTS
  PaidRowsKept
  OneRunPerQuestion
  EmissionInGit
PROPERTIES
  CompleteNotRepaid
CHECK_DEADLOCK FALSE
