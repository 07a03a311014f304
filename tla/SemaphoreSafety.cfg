SPECIFICATION Spec
CONSTANTS
  a = a
  b = b
  c = c
  Procs <- ThreeProcs
  Openers <- WithOpener
  Removers <- JustA
  OpValues <- WaitSignalZero
  Initval = 1
  BIGCOUNT = 4
  SEMVMX = 4
INVARIANTS
  TypeOK
  LockExclusive
  CounterExact
PROPERTY NeverReinitialised
