SPECIFICATION Spec
CONSTANTS
  MaxRequests = 3
  Nibble = 2
  Second = 4
  MaxOmit = 2
  MinMSS = 2
  MaxMSS = 12
  DefDuration = 10
  DefUDPRate = 100
  MaxExp = 3
  Given <- MCGiven
INVARIANTS
  InStep
  SessionAgreed
  ResultsComplete
  RequestArrives
PROPERTIES
  ResultsDelivered
  ConnectionEnds
