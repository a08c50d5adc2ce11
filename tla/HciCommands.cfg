\* Commands, cancellation and shutdown; no ACL traffic, no handlers.
CONSTANTS
  c1 = c1  c2 = c2  c3 = c3  s1 = s1  s2 = s2
  h1 = h1  h2 = h2  p1 = p1  p2 = p2  p3 = p3
  p4 = p4  p5 = p5  p6 = p6
  None = None
  Calls = {c1, c2, s1, s2}
  Closers = {s1, s2}
  Opcode <- MCOpcode
  Packets = {}
  Handle <- MCHandle
  Handlers = {}
  NumBuffers = 1
  MaxEvents = 0
  MaxNops = 1
  MaxFaults = 1
SPECIFICATION FairSpec
CHECK_DEADLOCK FALSE
INVARIANTS StaleOnlyAfterCancel NoOrphanedCall
PROPERTIES CallsReturn ShutdownHonoured ImplementsService
