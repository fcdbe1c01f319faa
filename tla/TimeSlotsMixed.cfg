SPECIFICATION Spec
CONSTANTS
  Children = {c1, c2, c3}
  TicksPerSecond = 2
  MaxReservations = 2
  EventHorizon <- ShortHorizon
  Requests <- SharingRequests
  Zero64 = 24
  MaxTime = 0
INVARIANTS
  TypeOK
  CalendarShape
  GrantInWindow
PROPERTIES
  NothingEarlierFits
SYMMETRY Symmetry
