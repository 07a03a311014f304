SPECIFICATION FilesFair
CONSTANTS
  Pairs <- AllPairs
  File <- MCFile
  Message <- MCMessage
  Name <- MCName
  MAXBUFF = 2
  Capacity = 4
  PIPE_BUFs <- MCPipeBufs
  msg_qbytes = 3
  Killable = {"client", "server"}
  NBUFF = 2
  Blocks <- MCBlocks
  BIGCOUNT = 3
  SEMVMX = 8
CHECK_DEADLOCK FALSE
INVARIANTS
  FilesTypeOK
  ErrorsJustified
  NothingRemains
  NoSemaphoreLost
  OneOwner
  BuffersDisjoint
  BuffersConserved
PROPERTIES
  AllPrintInOrder
  AllPrint
  BothPartiesEnd
  EarlierEnds
  EndsEndOther
