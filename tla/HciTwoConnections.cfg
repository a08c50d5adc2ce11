\* ACL traffic of two connections, and nothing else; the controller takes three packets.
CONSTANTS
  c1 = c1  c2 = c2  c3 = c3  s1 = s1  s2 = s2
  h1 = h1  h2 = h2  p1 = p1  p2 = p2  p3 = p3
  p4 = p4  p5 = p5  p6 = p6
  None = None
  Calls = {}
  Closers = {}
  Opcode <- MCOpcode
  Packets = {p1, p2, p3, p4, p5, p6}
  Handle <- MCTwoHandles
  Handlers = {}
  NumBuffers = 3
  MaxEvents = 0
  MaxNops = 0
  MaxFaults = 0
SPECIFICATION Spec
CHECK_DEADLOCK FALSE
INVARIANTS BuffersRespected
