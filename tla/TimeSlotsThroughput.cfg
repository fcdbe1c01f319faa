SPECIFICATION Spec
CONSTANTS
  Children = {c1, c2, c3}
  TicksPerSecond = 2
  MaxReservations = 2
  EventHorizon <- NoHorizon
  Requests <- ThroughputRequests
  Zero64 = 24
  MaxTime = 2
INVARIANTS
  ThroughputExclusive
  CompletelyAllocated
SYMMETRY Symmetry
