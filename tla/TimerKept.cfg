SPECIFICATION Spec
CONSTANTS
  Conns = {c1}
  Nodes = {n1, n2}
  None = None
  Period = 7
  ExpireTime = 1
  KeepAliveTime = 3
  LoopTime = 2
INVARIANT KeptForDuration
