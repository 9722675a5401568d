SPECIFICATION Spec
CONSTANTS
  r1 = r1
  r2 = r2
  Runs = {r1, r2}
  Steps = {"s"}
  Types = {"planned", "run_start", "step_start", "materialized", "step_success", "run_canceled"}
  LateEvents = FALSE
  MaxLog = 4
  IncludeAssets = TRUE
  RecordLimit = 2
  MaxRunning = 1
  Snapshot = FALSE
  Bursts = FALSE
  MaxFaults = 0
INVARIANT NothingSkipped
