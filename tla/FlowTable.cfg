\* Three conversations compete for a table of two, and one whose directions name
\* different protocols; clock without steps back.
CONSTANTS
  HalfSpace = 8
  kRecentSegmentWindow = 2
  kMaxTrackedHoles = 2
  kMaxAwaitingAck = 2
  MaxPlausibleMs = 9
  max_prefix = 4
  max_buffered = 4
  dissect_enabled = TRUE
  NoStream = NoStream
  Traffics <- MCTraffics
  max_flows = 2
  idle_sec = 1
  kClosedFlowGraceSec = 0
  StepBack = FALSE
SPECIFICATION Spec
INVARIANTS TypeOK OneEntryPerConversation TotalsCoverLive BuffersBounded
PROPERTY EvictsLeastRecent
CHECK_DEADLOCK FALSE
