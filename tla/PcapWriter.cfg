SPECIFICATION WriterSpec
CONSTANTS
  Frames <- MCFrames
  snaplen = 2
  HeaderUnits = 2
  FlushEvery = 2
  MaxPackets = 5
  MaxFailures = 1
INVARIANTS WriterTypeOK ReadsBack
PROPERTIES KeepsLog
CHECK_DEADLOCK FALSE
