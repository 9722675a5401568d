SPECIFICATION Spec
CONSTANTS
  a = a
  b = b
  c = c
  Steps = {a, b, c}
  Deps <- Join
  MaxConcurrent = 2
  MaxRetries <- RetryOnlyA
  Delayed = {}
  Hooked = {a}
  Pooled = {}
  Faults = {}
  PromptArm = TRUE
  MaxLag = 1
INVARIANTS
  TypeOK
  UpstreamFirst
  OneAttemptAtATime
PROPERTIES PromiseKept
