SPECIFICATION Spec
CONSTANTS
  Children = {c1, c2}
  TicksPerSecond = 2
  MaxReservations = 2
  EventHorizon <- NoHorizon
  Requests <- MixedRequests
  Zero64 = 24
  MaxTime = 1
INVARIANTS
  ListOrdered
PROPERTIES
  ImplementsCalendar
SYMMETRY Symmetry
