\* Two worker threads and three blocks of one file.
SPECIFICATION Spec
CONSTANTS
  Worker = {w1, w2}
  Task = {b1, b2, b3}
  Nobody = Nobody
PROPERTY
  AllWritten
CHECK_DEADLOCK FALSE
