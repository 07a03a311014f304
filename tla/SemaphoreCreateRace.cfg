SPECIFICATION Spec
CONSTANTS
  a = a
  b = b
  c = c
  Procs <- ThreeProcs
  Openers <- None
  Removers <- None
  OpValues <- None
  Initval = 1
  BIGCOUNT = 4
  SEMVMX = 4
INVARIANT CreateSurvivesRemoval
