SPECIFICATION FairSpec
CONSTANTS
  Conns = {c1, c2}
  Fds = {f1}
  None = None
  KeepAlive <- OneShort
  PeerMay = {"fin"}
  MaxSends = 2
  SendRoom = 1
  MaxResponse = 1
INVARIANTS
  FdOwnership
  EdgeInv
PROPERTIES
  ImplementsLifecycle
  ImplementsFairLifecycle
