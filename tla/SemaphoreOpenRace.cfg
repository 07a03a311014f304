SPECIFICATION Spec
CONSTANTS
  a = a
  b = b
  c = c
  Procs <- TwoProcsC
  Openers <- WithOpener
  Removers <- None
  OpValues <- None
  Initval = 1
  BIGCOUNT = 4
  SEMVMX = 4
INVARIANT SetKept
