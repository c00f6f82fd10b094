\* Every combination of flags.
CONSTANTS
  FlagSets <- MCAllFlags
  MaxSegments = 6
SPECIFICATION Spec
INVARIANTS TypeOK ClosedMeansBothFinned HandshakeEvidence
PROPERTY OnlyReopeningMovesBack
CHECK_DEADLOCK FALSE
