SPECIFICATION Spec
CONSTANTS
  ClassNames = {A, B, C}
  LimitNames = {"pending", "duration"}
  LimitLines <- MixedLines
  DefaultClass = A
  DefaultLimits <- DefaultLine
  MaxValue = 6
  FloatExact = 4
  AsFloat <- SmallFloat
  Children = {c1, c2}
  Tests <- LongTests
  Crashing = {c1, c2}
INVARIANTS
  TypeOK
  TreeShape
  UnlimitedAbove
  PendingBounded
  ReleaseAccepted
  ParentAgrees
  AdmittedWithinLimits
SYMMETRY Symmetry
