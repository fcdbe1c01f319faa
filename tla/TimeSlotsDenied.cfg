SPECIFICATION Spec
CONSTANTS
  Children = {c1, c2, c3}
  TicksPerSecond = 2
  MaxReservations = 2
  EventHorizon <- NoHorizon
  Requests <- LatestRequests
  Zero64 = 24
  MaxTime = 1
INVARIANTS
  CompletelyAllocated
SYMMETRY Symmetry
