\* One connection; the ends have different channel ids.
CONSTANTS
  a = a
  b = b
  k = k
  l = l
  None = None
  Connections = {k}
  Hosts = {a, b}
  Opener <- MCOpener
  Cids <- MCOtherCids
  MaxWrites <- MCTwoWrites
  Quitters <- Ends
  MaxReconfigures = 0
SPECIFICATION FairSpec
PROPERTIES DisconnectCompletes
CHECK_DEADLOCK FALSE
