SPECIFICATION FairSpec
CONSTANTS
  Programs <- Only10
  Killable <- Nobody
  BIGCOUNT = 3
  SEMVMX = 6
  NBUFF = 2
  File <- Blocks
  Name = "name"
  Message = "can't open"
CHECK_DEADLOCK FALSE
PROPERTY EmptyMessageEndsClient
