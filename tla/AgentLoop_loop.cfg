\* The planner (with tools) and the briefing agent (without) in one run.  An agent
\* is dropped at the end, so the instance stops.
SPECIFICATION FairSpec
CONSTANTS
  Window = 5
  MaxAttempts = 3
  MaxPrompts = 2
  MaxUses = 2
  MaxTurns = 4
CHECK_DEADLOCK FALSE
INVARIANTS
  TypeOK
  SoundRequests
  EndOfTheTalk
  AttemptsBounded
  OverflowsBounded
PROPERTIES
  StepsRunOut
  InvocationEnds
