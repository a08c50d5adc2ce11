\* A connection with three channels of the peer's and one of connect().
CONSTANTS
  h = h
  c1 = c1  c2 = c2  c3 = c3  l1 = l1
  e = e  f = f
  None = None
  Connections = {h}
  Channels = {c1, c2, c3, l1}
  ConnectionOf <- MCConnectionOf
  Local = {l1}
  Endpoints = {e, f}
  MaxHangUps = 1
SPECIFICATION Spec
INVARIANTS EndpointsLocked ChannelsMatchStates RightChannel EntryMatchesSession PanicsExplained OpeningServable
SYMMETRY Symmetry
CHECK_DEADLOCK FALSE
