\* The stream crosses the end of the sequence space.
CONSTANTS
  HalfSpace = 12
  Isns = {20}
  StreamLen = 9
  Segs <- MCAnySegs
  SynLens = {0}
  max_prefix = 6
  max_buffered = 5
SPECIFICATION Spec
INVARIANT DrainedWhileContiguous
