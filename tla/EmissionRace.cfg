SPECIFICATION Spec
CONSTANTS
  Prefix <- OnePrefix
  Extension <- TwoMore
  K = 2
  MaxRuns = 2
  Absent = Absent
INVARIANTS
  ShaOfConsumedBytes
CHECK_DEADLOCK FALSE
