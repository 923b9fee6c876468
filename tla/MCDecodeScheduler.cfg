\* Three jobs, requests of up to two, five commands.
CONSTANTS
  Jobs = {j1, j2, j3}
  NoJob = NoJob
  CountsAsDecoded = {"partial", "torn", "whole"}
  MaxRequest = 2
  MaxCommands = 5
SPECIFICATION Spec
SYMMETRY JobSymmetry
INVARIANTS
  AtMostOneDecode
  QueuedOnce
PROPERTIES
  NeverRedecoded
  SignalsBeforeComplete
  ImplementsQueue
CHECK_DEADLOCK FALSE
