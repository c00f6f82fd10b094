\* Every frame cut at every byte; and four packets of a mixed traffic whose time stamps
\* lag by less than the window.
CONSTANTS
  Window = 3
  MaxSec = 5
  Ports <- MCPorts
  Talkers <- MCTalkers
  Traffics <- MCTraffics
  StepBack = 2
SPECIFICATION Spec
INVARIANTS TypeOK ThroughputIsTrue VolumeAccounted
  SnaplenOnlyHides HeadersDecoded
