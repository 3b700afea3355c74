CONSTANTS
  Clients = {c1, c2}
  RPMs = {0, 1, 2}
  Minute = 3
  MaxTime = 9
  MaxFree = 4
SPECIFICATION Spec
INVARIANTS TypeOK WindowBound NoSleepPastToken
PROPERTIES ImplementsBucket
CHECK_DEADLOCK FALSE
