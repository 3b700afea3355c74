CONSTANTS
  arr = arr
  dep = dep
  None = None
  Tasks = {t1, t2}
  Arrivals = {arr}
  Departures = {dep}
  Schedule <- MCSchedule
  PlanHour <- MCPlanHour
  Changes <- MCChanges
  Hours = {1, 2}
  UnknownRoutes = {"chg"}
  MaxTries = 2
  MaxUpdates = 1
  MaxFailures = 1
SPECIFICATION Spec
INVARIANTS TypeOK LatestIsLastSeen PlanAppliedUndisturbed 
PROPERTIES ImplementsStore DuplicateNeedsOverlap
SYMMETRY TaskSymmetry
CHECK_DEADLOCK FALSE
