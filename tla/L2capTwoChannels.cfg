\* Two connections with overlapping ids; only the data and the quits that matter.
CONSTANTS
  a = a
  b = b
  k = k
  l = l
  None = None
  Connections = {k, l}
  Hosts = {a, b}
  Opener <- MCOpener
  Cids <- MCOverlappingCids
  MaxWrites <- MCFromA
  Quitters <- MCQuitters
  MaxReconfigures = 0
SPECIFICATION Spec
INVARIANTS MisdeliveredOnlyOnReuse UnregisteredOnlyByCollision
CHECK_DEADLOCK FALSE
