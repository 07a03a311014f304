SPECIFICATION SocketsFair
CONSTANTS
  Parts = {"stream", "datagram", "library", "passfd", "copy"}
  newline = newline
  nul = nul
  quit = quit
  char1 = char1
  char2 = char2
  c1 = c1
  c2 = c2
  Clients = {c1, c2}
  NoClient = none
  Cases <- SomeCases
  Killable = {c1}
  Newline <- newline
  NUL <- nul
  Quit <- quit
  MAXLINE = 3
  MaxFaults = 1
  Senders = {c1, c2}
  NoSender = none
  Protocols = {"udp", "idp", "unix_dg", "dg_echo", "dg_dis", "dg_log"}
  Lines = 2
  MaxDgFaults = 1
  Calls <- SomeCalls
  LongBits = 8
  Low = 2
  High = 4
  Argvs <- SomeArgvs
  Contents <- FileContents
  NOFILE = 4
  MaxPassFaults = 2
  InputLines = 3
CHECK_DEADLOCK FALSE
INVARIANTS
  SocketsTypeOK
  EchoInOrder
  LagBounded
  
PROPERTIES
  EveryClientServed
  EveryEndSeen
  EveryChildReaped
  EveryMessageLogged
  EveryFilePrinted
  EveryInputCopied
