\* FIN counts survive the reuse of a tuple.
CONSTANTS
  FlagSets <- MCLegalFlags
  MaxSegments = 7
SPECIFICATION Spec
INVARIANT BothFinsOfThisConnection
CHECK_DEADLOCK FALSE
