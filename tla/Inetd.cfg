SPECIFICATION FairSpec
CONSTANTS
  serv_arr <- ThreeServices
  Datagram <- TwoDatagram
  MaxRequests = 2
  MaxDeaths = 3
  Pids = {1, 2, 3, 4}
CHECK_DEADLOCK FALSE
INVARIANTS
  TypeOK
  OneServer
  CountsServers
  AcceptReady
PROPERTY StreamServed
