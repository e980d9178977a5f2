SPECIFICATION FairDrainSpec
CONSTANTS
  Conns = {c1}
  Fds = {f1}
  None = None
  KeepAlive <- AllKept
  PeerMay = {"fin", "rst"}
  MaxSends = 4
  SendRoom = 2
  MaxResponse = 3
  MAX_BUF_SIZE = 2
INVARIANTS
  TypeOK
  OneDeadline
  NoLostEdge
  OutputWatched
  StaleOnlyAfterError
PROPERTIES
  ClosedForGood
  EventuallyClosed
  ImplementsWorker
  ImplementsFairWorker
\* SIGPIPE stops the process.
CHECK_DEADLOCK FALSE
