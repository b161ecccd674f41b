\* Lost connections, a crash, expiry, a change during the download, a refused
\* request, a failing disk and rclone: the queue, its slots and the panics.
SPECIFICATION Spec
CONSTANTS
  Block <- MCBlock
  Name <- MCName
  NameOf <- MCNameOf
  SizeOf <- MCSizeOf
  Order <- MCOrder
  MaxPending = 2
  MaxStorageArea = 2
  MaxFiles = 2
  MaxRequestId = 3
  Content <- Edited
  EmptyHash = "-"
  Torn = "torn"
  Missing = Missing
  Strategy = "Remote"
  UploadsMayFail = TRUE
  DiskMayFail = TRUE
  Ageing = TRUE
  EditsWait = FALSE
  BadAnswers = {"error"}
  MaxChunks = 2
  MaxBadAnswers = 1
  MaxIndexMessages = 2
  MaxConnections = 2
  MaxDisconnects = 1
  MaxCrashes = 1
CHECK_DEADLOCK FALSE
INVARIANTS
  SlotsAccounted
PROPERTIES
  QueueUsed
  PanicExplained
