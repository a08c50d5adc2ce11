\* Both tasks send on the same connection, nothing is lost.
CONSTANTS
  t1 = t1  t2 = t2  h1 = h1  h2 = h2
  p1 = p1  p2 = p2  p3 = p3  p4 = p4
  Tasks = {t1, t2}
  Handles = {h1}
  Pdus <- MCPdus
  Size <- MCSize
  HandleOf <- MCSharedHandle
  MaxSize = 2
  MaxLost = 0
SPECIFICATION TransferSpec
INVARIANTS NeverInterrupted
CHECK_DEADLOCK FALSE
