SPECIFICATION Spec
CONSTANTS
  Streams <- Typical
  MaxValue = 3
INVARIANT FragmentsAgree
CHECK_DEADLOCK FALSE
