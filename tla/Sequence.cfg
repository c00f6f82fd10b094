\* Segments resent as sent, and segments of any shape; the stream crosses the end of
\* the sequence space.
CONSTANTS
  HalfSpace = 9
  Isn = 15
  StreamLen = 7
  Senders <- MCSenders
  kRecentSegmentWindow = 2
  kMaxTrackedHoles = 2
SPECIFICATION Spec
INVARIANTS TypeOK HolesAreMissing RepeatsCounted HolesOrdered NextSeqIsHighWater
PROPERTY WrapInvisible
CHECK_DEADLOCK FALSE
