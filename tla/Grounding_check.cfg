\* All briefs of up to six tokens; writing stops there.
SPECIFICATION Writing
CONSTANTS
  MaxLength = 6
  MaxEvidence = 1
CHECK_DEADLOCK FALSE
INVARIANT PassedIsSupported
PROPERTY LateCitationDoesNotCount
