SPECIFICATION Spec
CONSTANTS
  Conns = {c1}
  Fds = {f1}
  None = None
  KeepAlive <- AllKept
  PeerMay = {"fin"}
  MaxSends = 2
  SendRoom = 1
  MaxResponse = 2
INVARIANTS
  HalfClosedFlushed
