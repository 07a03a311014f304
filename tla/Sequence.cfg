SPECIFICATION FairSpec
CONSTANTS
  a = a
  b = b
  c = c
  Procs <- Three
  Linked <- AllKinds
  Rounds = 2
  MaxStarts = 3
  BIGCOUNT = 4
  SEMVMX = 4
CHECK_DEADLOCK FALSE
INVARIANTS
  TypeOK
  OneAtATime
  NeverRemovedInUse
PROPERTIES
  NoLostUpdate
  Terminates
