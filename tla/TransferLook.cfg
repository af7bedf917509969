SPECIFICATION FairSpec
CONSTANTS
  MaxExports = 2
  Contents <- Kinds
  None = None
INVARIANTS
  OneSamplePerLook
  LookTwoAllowed
  VerifyReproduces
PROPERTIES
  RecordStands
  InterruptedLookFinishes
