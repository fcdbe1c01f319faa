SPECIFICATION Spec
CONSTANTS
  Children = {c1, c2, c3}
  MaxBacklog = 1
  Dieby = 5
CHECK_DEADLOCK FALSE
INVARIANTS
  EveryChildWatched
  NoChildLeft
PROPERTIES
  ShutdownEnds
  SignalObeyed
  ChildrenServed
  DeadReaped
