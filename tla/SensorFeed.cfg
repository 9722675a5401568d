SPECIFICATION FairSpec
CONSTANTS
  r1 = r1
  r2 = r2
  Runs = {r1, r2}
  Steps = {"s"}
  Types = {"planned", "run_start", "step_start", "materialized", "step_success", "run_canceled"}
  LateEvents = FALSE
  MaxLog = 6
  IncludeAssets = TRUE
  RecordLimit = 2
  MaxRunning = 1
  Snapshot = TRUE
  Bursts = FALSE
  MaxFaults = 1
INVARIANTS
  NothingSkipped
  StepRunsMatch
  AssetsSettled
  OneNamespace
  ActiveRunsKept
PROPERTIES
  FeedKept
  CaughtUp
