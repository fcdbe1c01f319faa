CONSTANTS
  Tools = {1, 2}
  Latest = 2
  MaxEntries = 2
  Hours = 3
  HourLength = 2
  CommandLines <- MCCommandLines
SPECIFICATION Spec
INVARIANTS StartAgreed NothingLeft RequestFits StartsOnTime
PROPERTY IntervalEnds
CHECK_DEADLOCK FALSE
