SPECIFICATION FairSpec
CONSTANTS
  ThreadNum = 2
  IdleLimit = 2
  MaxArrivals = 3
INVARIANTS
  TypeOK
  NoLostWakeup
  BacklogWatched
  NullOnlyAfterExit
  IInv
PROPERTIES
  ImplementsHandoff
  ShutdownEnds
