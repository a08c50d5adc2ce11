CONSTANTS
  press = press
  release = release
  again = again
  title = title
  artist = artist
  track = track
  None = None
  Calls <- MCCalls
  Kind <- MCKind
  Pdu <- MCPdu
  Frame <- MCFrame
  After <- MCAfter
  PeerCommands <- MCPeerCommands
  NumLabels = 2
  CommandSlots = 1
  EventSlots = 1
  MaxVolume = 2
  MaxCommands = 3
  MaxMoves = 3
SPECIFICATION FairSpec
INVARIANTS RepliesBelong TransactionsAccounted VolumeAgrees
PROPERTIES CallsReturn ImplementsService
CHECK_DEADLOCK FALSE
