SPECIFICATION TtuSpec
CONSTANTS
  Procs = {twice, once}
  Hosts = {h}
  Local = local
  Closed = closed
  MaxCalls <- TwoAndOne
  twice = twice
  once = once
INVARIANT LocalByDefault
CHECK_DEADLOCK FALSE
