SPECIFICATION Spec
CONSTANTS
  Requests <- MCRequests
  Replies <- MCReplies
  Cap <- MCCap
  MinSignal = 5
  ScanLimit = 4
  SnapshotLimit = 1
  CooldownBuffer = 1
  DislikeWindow = 1
  RepetitionWindow = 1
  MaxCandidates = 4
  VariantCap = 1
  OveruseMinPool = 2
  K = 3
  NSurfaced = 2
  MinRescue = 2
  DailyMax = 4
INVARIANTS
  SpendOnlyWhenPossible
  EmptyOnlyWhenImpossible
  ControlsKept
  LayerOffered
  RejectedRests
  FunnelAccounted
CHECK_DEADLOCK FALSE
