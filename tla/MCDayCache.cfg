SPECIFICATION Spec
CONSTANTS
  Requests = {r1, r2}
  Warm = warm
  Days <- OneDay
  DayLength = 1
  TTL = 1
  None = None
  MaxTime = 2
  MaxAsks = 1
  MaxFaults = 1
INVARIANT TypeOK
INVARIANT HitsAreFresh
INVARIANT SearchSeesIndex
PROPERTY ImplementsMemo
PROPERTY EveryRequestAnswered
CHECK_DEADLOCK FALSE
