\* Three concurrent calls, two versions of the data, one failing operation.
SPECIFICATION Spec
CONSTANTS
  t1 = t1
  t2 = t2
  t3 = t3
  a = a
  b = b
  Task <- MCTask
  Data <- MCData
  None = None
  FileSize = 3
  ChunkSize = 2
  MaxErrors = 1
INVARIANTS
  TypeOK
  ConsolidatesAlone
  WritersCounted
  OkIsKept
PROPERTIES
  ImplementsPromise
  ConsolidationEnds
CHECK_DEADLOCK FALSE
