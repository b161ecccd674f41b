\* Five blocks of two files under every limit of the queue.
SPECIFICATION QueueSpec
CONSTANTS
  Block <- MCBlock
  Name <- MCName
  NameOf <- MCNameOf
  SizeOf <- MCSizeOf
  Order <- MCOrder
  MaxPending = 2
  MaxStorageArea = 3
  MaxFiles = 1
  MaxRequestId = 5
INVARIANTS
  QueueTypeOK
  IndexesAgree
  RemoveAssertsHold
  PendingWithinSlots
  SizeAccounted
  FilesWithinLimit
