SPECIFICATION Spec
CONSTANTS
  Conns = {c1, c2}
  Nodes = {n1, n2, n3}
  None = None
  Period = 7
  ExpireTime = 1
  KeepAliveTime = 3
  LoopTime = 2
INVARIANTS
  NeverLate
  IInv
PROPERTY ImplementsDeadlines
SYMMETRY Symmetric
