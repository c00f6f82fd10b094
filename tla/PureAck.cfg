\* A pure ACK padded to the minimum Ethernet frame is given a payload.
CONSTANTS
  Window = 3
  MaxSec = 5
  Ports <- MCPorts
  Talkers <- MCTalkers
  Traffics <- MCTraffics
  StepBack = 2
SPECIFICATION Spec
INVARIANT PureAckHasNoPayload
