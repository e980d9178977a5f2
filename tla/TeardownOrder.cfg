SPECIFICATION FairTeardownSpec
CONSTANTS
  Conns = {c1, c2}
  Fds = {f1, f2}
  None = None
  KeepAlive <- AllKept
  PeerMay = {"fin"}
  MaxSends = 1
  SendRoom = 1
  MaxResponse = 2
INVARIANTS
  NoAbort
  HalfClosedLast
  TInv
PROPERTY LeftReleasesAll
\* The thread ends.
CHECK_DEADLOCK FALSE
