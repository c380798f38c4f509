CONSTANTS
  Programs <- MCPrograms
  Literal = "1"
  Joined = "nn"
SPECIFICATION FairSpec
INVARIANTS NotInsideItself AsInC
PROPERTY ExpansionEnds
CHECK_DEADLOCK FALSE
