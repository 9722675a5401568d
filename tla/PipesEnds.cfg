SPECIFICATION FairSpec
CONSTANTS
  Assets = {"x", "y"}
  NoKey = "none"
  Variants <- AllVariants
  MaxMessages = 5
  MaxRuns = 2
  MaxFaults = 2
INVARIANTS
  Ordered
  ClosedMeansSent
  FailureTold
PROPERTIES CloseReturns
CHECK_DEADLOCK FALSE
