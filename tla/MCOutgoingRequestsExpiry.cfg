\* Expired requests, with fair processing.
SPECIFICATION QueueFairSpec
CONSTANTS
  Block <- MCBlock
  Name <- MCName
  NameOf <- MCNameOf
  SizeOf <- MCSizeOf
  Order <- MCOrder
  MaxPending = 2
  MaxStorageArea = 3
  MaxFiles = 1
  MaxRequestId = 2
PROPERTY
  ExpiredIsResent
