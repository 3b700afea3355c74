CONSTANTS
  s0 = s0
  s2 = s2
  Stations = {s0, s2}
  Offset <- MCOffset
  Cadence = 3
  ExportMinutes = {4}
  MaxGap = 2
  MaxMinute = 7
  MaxFailures = 1
  MaxRestarts = 1
SPECIFICATION Spec
INVARIANTS TypeOK OnlyInTurn EveryTurnTaken ExportOnTime
PROPERTIES EveryMinuteRuns ImplementsRota
CHECK_DEADLOCK FALSE
