\* Download of three files through two slots, then a change to one of them.
SPECIFICATION FairSpec
CONSTANTS
  Block <- MCBlock
  Name <- MCName
  NameOf <- MCNameOf
  SizeOf <- MCSizeOf
  Order <- MCOrder
  MaxPending = 2
  MaxStorageArea = 2
  MaxFiles = 2
  MaxRequestId = 5
  Content <- Changing
  EmptyHash = "-"
  Torn = "torn"
  Missing = Missing
  Strategy = "LocalRemote"
  UploadsMayFail = FALSE
  DiskMayFail = FALSE
  Ageing = FALSE
  EditsWait = TRUE
  BadAnswers = {}
  MaxChunks = 2
  MaxBadAnswers = 0
  MaxIndexMessages = 2
  MaxConnections = 1
  MaxDisconnects = 0
  MaxCrashes = 0
CHECK_DEADLOCK FALSE
INVARIANTS
  ReportedIntact
PROPERTIES
  AllStored
