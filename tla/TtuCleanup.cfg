SPECIFICATION TtuSpec
CONSTANTS
  Procs = {twice, once}
  Hosts = {h}
  Local = local
  Closed = closed
  MaxCalls <- TwoAndOne
  twice = twice
  once = once
INVARIANT AutomaticCleanup
CHECK_DEADLOCK FALSE
