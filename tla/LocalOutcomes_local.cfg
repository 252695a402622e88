\* Three recorders and a planner run in any interleaving, with crashes; and,
\* where serial holds, the same recorders one after the other.
\* Each call is made once, so the instance stops when all have ended.
SPECIFICATION Spec
CONSTANTS
  r1 = r1
  r2 = r2
  r3 = r3
  p1 = p1
  Recorders <- Three
  Planners <- OnePlanner
  EventBytes <- Lengths
CHECK_DEADLOCK FALSE
INVARIANTS
  TypeOK
  AcknowledgedIsSeen
  ReadsAreSound
PROPERTIES
  PoisonedStaysPoisoned
  ImplementsJournal
