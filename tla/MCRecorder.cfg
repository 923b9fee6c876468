\* Capacity 2, MaxFrames 4: the ring is overwritten twice.
CONSTANTS
  Capacity = 2
  MaxFrames = 4
  NoFrame = NoFrame
SPECIFICATION FairSpec
INVARIANTS
  FramesInOrder
  NeverStale
  StoppedIsComplete
  StateFileNeverAhead
  RecorderInv
PROPERTIES
  ImplementsRecording
  StopEndsRecorder
  EveryFrameIsRecorded
CHECK_DEADLOCK FALSE
