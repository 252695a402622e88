\* Does every acknowledged outcome reach the next planner run?
SPECIFICATION Spec
CONSTANTS
  r1 = r1
  r2 = r2
  r3 = r3
  p1 = p1
  Recorders <- Three
  Planners <- OnePlanner
  EventBytes <- Lengths
CHECK_DEADLOCK FALSE
INVARIANT RecordedReachesPlanner
