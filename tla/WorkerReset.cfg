SPECIFICATION Spec
CONSTANTS
  Conns = {c1}
  Fds = {f1}
  None = None
  KeepAlive <- AllKept
  PeerMay = {"fin", "rst"}
  MaxSends = 2
  SendRoom = 1
  MaxResponse = 2
INVARIANTS
  NoSigpipe
\* SIGPIPE stops the process.
CHECK_DEADLOCK FALSE
