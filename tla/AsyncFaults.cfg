SPECIFICATION FairSpec
CONSTANTS
  a = a
  b = b
  c = c
  Steps = {a, b}
  Deps <- Pair
  MaxConcurrent = 1
  MaxRetries <- RetryOnlyA
  Delayed = {a}
  Hooked = {b}
  Pooled = {b}
  Faults = {"reraise", "badhook", "setup", "interrupt"}
  PromptArm = TRUE
  MaxLag = 1
INVARIANTS
  NoSilentWait
  ConcurrencyBound
  ErrorSurfaces
  NoOrphans
PROPERTIES Terminates
