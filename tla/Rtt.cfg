\* The clock may be stepped back, and the longest delays are implausible.
CONSTANTS
  HalfSpace = 6
  Isn = 10
  Segments = 3
  MaxCopies = 2
  MaxCaptures = 5
  MaxTime = 3
  ClockSteps <- MCSteps
  kRecentSegmentWindow = 1
  kMaxTrackedHoles = 2
  kMaxAwaitingAck = 2
  MaxPlausibleMs = 2
SPECIFICATION Spec
INVARIANTS TypeOK SrttWithinSamples AwaitsOriginals SamplesCounted
CHECK_DEADLOCK FALSE
