SPECIFICATION Spec
CONSTANTS
  ThreadNum = 2
  IdleLimit = 5
  MaxArrivals = 3
INVARIANTS
  NoneStrayed
