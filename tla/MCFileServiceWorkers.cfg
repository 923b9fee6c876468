CONSTANTS
  MaxRecordings = 3
  MaxCalls = 4
  MaxLoads = 2
  MaxDecodes = 2
SPECIFICATION FairSpec
INVARIANTS OneRecorder ForgottenByEarlierStop StoppedIsNoticed PickleIsItsSource ToldIsReadable ToldInOrder StatusesAreEarned
PROPERTIES StopEndsRecordings
CHECK_DEADLOCK FALSE
