\* As MCDecodeScheduler.cfg; one property, which the code does not satisfy.
CONSTANTS
  Jobs = {j1, j2}
  NoJob = NoJob
  CountsAsDecoded = {"partial", "whole"}
  MaxRequest = 2
  MaxCommands = 3
SPECIFICATION Spec
PROPERTY NoDecodeUnlessStarted
CHECK_DEADLOCK FALSE
