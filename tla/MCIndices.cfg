\* Three changes, two connections, one restart, one rename.
SPECIFICATION Spec
CONSTANTS
  Peer <- MCPeer
  Local = 0
  Name <- MCName
  Clock <- MCClock
  NotLoaded = NotLoaded
  MaxChanges = 3
  MaxConnects = 2
  MaxRestarts = 1
  MaxRenames = 1
INVARIANTS
  CacheAgrees
  NothingMissed
PROPERTIES
  NeverBack
  DeletedOnlyByIndex
CHECK_DEADLOCK FALSE
