SPECIFICATION Spec
CONSTANTS
  Streams <- Typical
  MaxValue = 3
INVARIANTS
  WholeAnswered
  AnswersRight
  InTurn
  ImplementsHandlers
  IInv
CHECK_DEADLOCK FALSE
