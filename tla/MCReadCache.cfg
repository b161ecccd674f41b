\* Reads, changes, uploads and crashes around a cache too small for all files.
SPECIFICATION Spec
CONSTANTS
  File <- Files
  SizeOf <- Sizes
  CacheSize = 3
  Announcement = {"index", "update"}
  MaxCrashes = 1
INVARIANTS
  RowsWithinSize
  RowsBacked
