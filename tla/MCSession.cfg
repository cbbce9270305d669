SPECIFICATION FairSpec
CONSTANTS
  a = a
  b = b
  Conn = {a, b}
  MaxStarts = 2
  MaxClients = 2
  MaxStreams = 1
INVARIANTS TypeOK LiveMeansCurrent AbortedMeansUnheld ToldBeforeClosed
PROPERTIES SocketIsReleased ConnectReturns
CHECK_DEADLOCK FALSE
