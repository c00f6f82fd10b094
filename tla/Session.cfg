SPECIFICATION FairSpec
CONSTANTS
  Backends = {"raw", "libpcap", "file"}
  Limits = {0, 2}
  FilePackets = 2
  MaxArrivals = 3
  QueueSize = 1
  RefreshEvery = 2
  SweepEvery = 2
INVARIANTS NoUseAfterClose ExitIsClean StopsPromptly SummaryCovers EndOfFileShown
PROPERTIES ShownNeverFalls EveryStopEnds IdleFlowsSwept
