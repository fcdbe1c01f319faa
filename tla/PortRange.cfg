SPECIFICATION Spec
CONSTANTS
  Lows = {1, 4}
  MaxRange <- MCRange
CHECK_DEADLOCK FALSE
INVARIANTS
  GivesUpFull
  SuccessiveDiffer
PROPERTY
  SearchEnds
