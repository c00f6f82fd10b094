\* Every order of every segment; saturation and the hold-back limit are reached, on a
\* stream that stays inside the sequence space and on one that crosses its end.
CONSTANTS
  HalfSpace = 12
  Isns = {3, 20}
  StreamLen = 9
  Segs <- MCAnySegs
  SynLens = {0}
  max_prefix = 6
  max_buffered = 5
SPECIFICATION FairSpec
INVARIANTS TypeOK StreamOrder Budget NothingContiguousHeld
PROPERTY EventuallyWhole
