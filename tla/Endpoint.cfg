SPECIFICATION Spec
CONSTANT MaxFaults = 1
CHECK_DEADLOCK FALSE
INVARIANTS
  NoToolLeft
  ResultsFinal
  SameVerdict
  SuccessEarned
PROPERTY
  EndpointsEnd
