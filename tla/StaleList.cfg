\* Two index messages at once: the list of blocks to request is old when it is stored.
SPECIFICATION Spec
CONSTANTS
  Block <- MCBlock
  Name <- MCName
  NameOf <- MCNameOf
  SizeOf <- MCSizeOf
  Order <- MCOrder
  MaxPending = 2
  MaxStorageArea = 2
  MaxFiles = 2
  MaxRequestId = 4
  Content <- OneFile
  EmptyHash = "-"
  Torn = "torn"
  Missing = Missing
  Strategy = "LocalRemote"
  UploadsMayFail = FALSE
  DiskMayFail = FALSE
  Ageing = FALSE
  EditsWait = TRUE
  BadAnswers = {}
  MaxChunks = 2
  MaxBadAnswers = 0
  MaxIndexMessages = 2
  MaxConnections = 2
  MaxDisconnects = 1
  MaxCrashes = 0
CHECK_DEADLOCK FALSE
INVARIANTS
  ReportedIntact
