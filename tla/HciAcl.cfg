\* ACL credits, handlers and shutdown; the loop ends with its Hci.
CONSTANTS
  c1 = c1  c2 = c2  c3 = c3  s1 = s1  s2 = s2
  h1 = h1  h2 = h2  p1 = p1  p2 = p2  p3 = p3
  p4 = p4  p5 = p5  p6 = p6
  None = None
  Calls = {}
  Closers = {}
  Opcode <- MCOpcode
  Packets = {p1, p2, p3}
  Handle <- MCHandle
  Handlers = {h1}
  NumBuffers = 2
  MaxEvents = 2
  MaxNops = 0
  MaxFaults = 1
SPECIFICATION FairSpec
CHECK_DEADLOCK FALSE
INVARIANTS TypeOK CreditsExact BuffersKept HandlersMissNothing
PROPERTIES AclDrains
