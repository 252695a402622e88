\* Four requests in any order, lost answers, failing calls and crashes.
\* Each request is made once, so the instance stops when all have ended.
SPECIFICATION FairSpec
CONSTANTS
  r0 = r0
  r1 = r1
  r2 = r2
  p1 = p1
  ping = ping
  Recorders <- Two
  Past <- Earlier
  Planners <- OnePlanner
  Pings <- OnePing
  Window = 2
  Attempts = 2
  Tokens = 2
CHECK_DEADLOCK FALSE
INVARIANTS
  TypeOK
  LeftOutByWindowOnly
  TokensInUse
PROPERTIES
  ImplementsJournal
  InvocationsRunOut
  EveryRequestEnds
