SPECIFICATION Spec
CONSTANTS
  r1 = r1
  r2 = r2
  s = s
  t = t
  v = v
  w = w
  p1 = p1
  p2 = p2
  Runs = {r1, r2}
  Steps = {s, t}
  Types = {"planned", "check_planned", "run_start", "step_start", "materialized", "step_failure", "run_failure"}
  LateEvents = FALSE
  MaxLog = 5
  Procs = {p1}
  Threads = {v, w}
  Home <- Together
  MaxRuns = 1
  MaxFaults = 1
INVARIANTS
  NoFalseFailure
  FailuresTold
  EmbeddedKnown
  NothingForgotten
SYMMETRY Symmetry
CHECK_DEADLOCK FALSE
