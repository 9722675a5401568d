SPECIFICATION RemoteSpec
CONSTANTS
  Calls <- MCCalls
  MaxFaults = 2
  SftpDir = "d"
  SftpFiles <- MCSftpFiles
  SpFolders = {"A", "B"}
  SpFiles = {"f", "g"}
  SpSpares = {"N1", "N2", "N3"}
  SpDrives <- MCSpDrives
  SpOrder <- MCSpOrder
  SpNew = {"f"}
  HexRuns = {"r1", "r2", "r3"}
  HexRetries = 1
  CrExecutions = {"e1", "e2"}
  TdTables = {"t1", "t2"}
  TdStatements = {"s1", "s2"}
  SfRecords = {"r1", "r2", "r3"}
  EsOrder <- MCEsOrder
  EsBare = "docs"
  DfInvocations <- MCDfInvocations
  DfTicks = 3
INVARIANTS ReturnMeansDone ListingComplete NoStrays
PROPERTY CallsEnd
