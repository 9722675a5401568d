SPECIFICATION Spec
CONSTANTS
  a = a
  b = b
  c = c
  Steps = {a}
  Deps <- Single
  MaxConcurrent = 1
  MaxRetries <- RetryAll
  Delayed = {a}
  Hooked = {}
  Pooled = {}
  Faults = {}
  PromptArm = FALSE
  MaxLag = 1
INVARIANT NoSilentWait
CHECK_DEADLOCK FALSE
