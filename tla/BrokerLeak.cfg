SPECIFICATION Spec
CONSTANTS
  ClassNames = {A}
  LimitNames = {"pending"}
  LimitLines <- OneLine
  DefaultClass = A
  DefaultLimits <- DefaultPending
  MaxValue = 6
  FloatExact = 4
  AsFloat <- SmallFloat
  Children = {c1, c2}
  Tests <- PlainTests
  Crashing = {}
INVARIANTS
  PendingReturned
SYMMETRY Symmetry
