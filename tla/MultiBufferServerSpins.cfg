SPECIFICATION FairSpec
CONSTANTS
  Programs <- Only11
  Killable <- Nobody
  BIGCOUNT = 3
  SEMVMX = 6
  NBUFF = 2
  File <- Blocks
  Name = "name"
  Message = "can't open"
CHECK_DEADLOCK FALSE
PROPERTY PollEndsServer
