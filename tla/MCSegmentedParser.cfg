\* Texts of up to 6 bytes in 3 ranges, merged into segments of 2 entries.
CONSTANTS
  NumThreads = 3
  Newline = Newline
  Kinds <- LineKinds
  SegmentCapacity = 2
  TableSize = 4
  ChannelNumbers = 2
  Formats = {0, 2}
  MaxSize = 6
SPECIFICATION Spec
INVARIANTS
  RangesHoldWholeLines
  ParallelIsSequential
  OnDiskIsTheLog
  SegmentsAreFull
  EveryRowListed
CHECK_DEADLOCK FALSE
