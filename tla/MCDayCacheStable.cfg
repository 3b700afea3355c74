SPECIFICATION Spec
CONSTANTS
  Requests = {r1, r2}
  Warm = warm
  Days <- OneDay
  DayLength = 1
  TTL = 1
  None = None
  MaxTime = 2
  MaxAsks = 1
  MaxFaults = 0
CHECK_DEADLOCK FALSE
PROPERTY HistoricStable
