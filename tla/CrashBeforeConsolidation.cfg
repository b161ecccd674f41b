\* A crash after the last block was marked and before the file is put together.
SPECIFICATION FairSpec
CONSTANTS
  Block <- MCBlock
  Name <- MCName
  NameOf <- MCNameOf
  SizeOf <- MCSizeOf
  Order <- MCOrder
  MaxPending = 2
  MaxStorageArea = 2
  MaxFiles = 2
  MaxRequestId = 2
  Content <- OneFile
  EmptyHash = "-"
  Torn = "torn"
  Missing = Missing
  Strategy = "Remote"
  UploadsMayFail = FALSE
  DiskMayFail = FALSE
  Ageing = FALSE
  EditsWait = TRUE
  BadAnswers = {}
  MaxChunks = 2
  MaxBadAnswers = 0
  MaxIndexMessages = 2
  MaxConnections = 2
  MaxDisconnects = 0
  MaxCrashes = 1
CHECK_DEADLOCK FALSE
PROPERTIES
  Consolidated
