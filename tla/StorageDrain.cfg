SPECIFICATION Spec
CONSTANTS
  r1 = r1
  r2 = r2
  s = s
  t = t
  v = v
  w = w
  p1 = p1
  p2 = p2
  Runs = {r1}
  Steps = {s, t}
  Types = {"planned", "run_start", "step_start", "materialized", "step_failure"}
  LateEvents = FALSE
  MaxLog = 7
  Procs = {p1}
  Threads = {v}
  Home <- Together
  MaxRuns = 1
  MaxFaults = 0
INVARIANT FailedNeverMade
CHECK_DEADLOCK FALSE
