\* Does the rewrite request name every faulty sentence?
SPECIFICATION Writing
CONSTANTS
  MaxLength = 6
  MaxEvidence = 1
CHECK_DEADLOCK FALSE
INVARIANT HintNamesEveryFault
