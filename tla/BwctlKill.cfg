CONSTANTS
  Tools = {1, 2}
  Latest = 1
  MaxEntries = 2
  Hours = 3
  HourLength = 2
  CommandLines <- MCCommandLines
SPECIFICATION Spec
INVARIANT SignalsOwnServer
CHECK_DEADLOCK FALSE
