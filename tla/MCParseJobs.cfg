CONSTANT MaxJobs = 3
SPECIFICATION FairSpec
INVARIANTS AtMostOneOutcome DoneWasParsed RefusedNeverStarts DoneInOrder
PROPERTY EveryJobEnds
