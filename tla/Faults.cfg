\* Crashes, refused and wrong answers, and a failing disk.
SPECIFICATION Spec
CONSTANTS
  Block <- MCBlock
  Name <- MCName
  NameOf <- MCNameOf
  SizeOf <- MCSizeOf
  Order <- MCOrder
  MaxPending = 2
  MaxStorageArea = 2
  MaxFiles = 2
  MaxRequestId = 3
  Content <- TwoFiles
  EmptyHash = "-"
  Torn = "torn"
  Missing = Missing
  Strategy = "Remote"
  UploadsMayFail = FALSE
  DiskMayFail = TRUE
  Ageing = FALSE
  EditsWait = TRUE
  BadAnswers = {"error", "wrong"}
  MaxChunks = 2
  MaxBadAnswers = 2
  MaxIndexMessages = 3
  MaxConnections = 3
  MaxDisconnects = 0
  MaxCrashes = 2
CHECK_DEADLOCK FALSE
INVARIANTS
  TypeOK
  StoredDurable
  LocatedIntact
  ReportedIntact
  FailedConsolidationKept
PROPERTIES
  RemoteKept
