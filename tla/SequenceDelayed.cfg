\* A late original inside a hole drops the part of the hole behind it.
CONSTANTS
  HalfSpace = 10
  Isn = 1
  StreamLen = 8
  Senders <- MCFixed
  kRecentSegmentWindow = 8
  kMaxTrackedHoles = 8
SPECIFICATION Spec
PROPERTY DelayedOriginalIsNotResend
CHECK_DEADLOCK FALSE
