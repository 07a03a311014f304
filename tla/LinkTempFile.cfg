SPECIFICATION Spec
CONSTANTS
  a = a
  b = b
  c = c
  Procs <- Three
  Linked <- Link
  Rounds = 2
  MaxStarts = 3
  BIGCOUNT = 4
  SEMVMX = 4
CHECK_DEADLOCK FALSE
INVARIANT TempFileReused
