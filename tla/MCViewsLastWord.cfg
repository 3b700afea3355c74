SPECIFICATION Spec
CONSTANTS
  Trips = {t1, t2}
  t1 = t1
  t2 = t2
  Stops = {1, 2}
  Events <- MCEvents
  Schedule <- MCSchedule
  Reports <- MCReports
  PlanKeys <- MCPlanKeys
  Scrapes <- MCScrapes
  Ats <- MCAts
  Back = 10
  Ahead = 10
  DayEnd = 10
  RouteLength <- MCRouteLength
  None = None
  MaxRows = 3
  LineOf <- MCLineOf
  LeaderMin = 2
SYMMETRY Symmetry
INVARIANT LastWordShown
CHECK_DEADLOCK FALSE
