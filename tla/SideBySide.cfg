SPECIFICATION SideSpec
CONSTANTS
  OutSeq <- FourOutputs
  Checks = {"c"}
  Assets = {"x", "y"}
  Nothings = {"y"}
  Untyped = {"x"}
  Optional = {"d"}
  Children <- TwoAssets
  Blocking = {"c"}
  NoOut = "none"
  MaxRetries = 1
  MaxLog = 8
  Procs = {twice, once}
  Hosts = {h}
  Local = local
  Closed = closed
  MaxCalls <- TwoAndOne
  twice = twice
  once = once
  Writers = {u, v, w}
  Readers = {r}
  Cells <- SomeCells
  Plans <- SomePlans
  MaxTries = 1
  MaxFaults = 1
  u = u
  v = v
  w = w
  r = r
INVARIANTS
  SuccessMeansKept
  ParentsFirst
  NoForeignScript
  SuccessMeansRan
  RemoteClean
  LostOnlyToOthers
  DownstreamSees
  GapsRefused
PROPERTIES
  AttemptKept
  RunsWhereAsked
  WritesAtomic
CHECK_DEADLOCK FALSE
