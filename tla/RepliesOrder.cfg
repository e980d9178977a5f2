SPECIFICATION FairSpec
CONSTANTS
  PagePieces = 2
  SendRoom = 3
  MaxRequests = 4
INVARIANTS
  InOrder
  ErrorsWait
  IInv
PROPERTIES
  PagesSent
  RequestsRead
CHECK_DEADLOCK FALSE
