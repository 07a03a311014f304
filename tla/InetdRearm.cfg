SPECIFICATION FairSpec
CONSTANTS
  serv_arr <- ThreeServices
  Datagram <- TwoDatagram
  MaxRequests = 2
  MaxDeaths = 1
  Pids = {1, 2, 3, 4}
CHECK_DEADLOCK FALSE
PROPERTY Rearmed
