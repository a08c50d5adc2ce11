\* One connection, both ends with the same channel id.
CONSTANTS
  a = a
  b = b
  k = k
  l = l
  None = None
  Connections = {k}
  Hosts = {a, b}
  Opener <- MCOpener
  Cids <- MCSameCids
  MaxWrites <- MCTwoWrites
  Quitters <- Ends
  MaxReconfigures = 1
SPECIFICATION FairSpec
INVARIANTS OpenAgrees NothingLost
PROPERTIES HandshakeCompletes PeerLearns DisconnectCompletes
CHECK_DEADLOCK FALSE
