\* Calls of the kernel, renames, changes, uploads, failures and a crash.
SPECIFICATION Spec
CONSTANTS
  Folder <- MCFolder
  InitialRows <- MCRows
  Arriving <- MCArriving
  NewName = {"a", "d"}
  EntriesStart = 100
  MaxRenames = 2
  MaxEvents = 1
INVARIANTS
  TreeIsSnapshot
  DeadOnlyIfReplaced
  RowsHaveDirectory
  LocatedAtBackend
PROPERTIES
  CallsEnd
CHECK_DEADLOCK FALSE
