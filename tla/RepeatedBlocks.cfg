\* A file with two equal blocks.
SPECIFICATION FairSpec
CONSTANTS
  Block <- MCBlock
  Name <- MCName
  NameOf <- MCNameOf
  SizeOf <- MCSizeOf
  Order <- MCOrder
  MaxPending = 2
  MaxStorageArea = 2
  MaxFiles = 2
  MaxRequestId = 2
  Content <- Repeated
  EmptyHash = "-"
  Torn = "torn"
  Missing = Missing
  Strategy = "Remote"
  UploadsMayFail = FALSE
  DiskMayFail = FALSE
  Ageing = FALSE
  EditsWait = TRUE
  BadAnswers = {}
  MaxChunks = 2
  MaxBadAnswers = 0
  MaxIndexMessages = 1
  MaxConnections = 1
  MaxDisconnects = 0
  MaxCrashes = 0
CHECK_DEADLOCK FALSE
PROPERTIES
  AllStored
