CONSTANT MaxJobs = 2
SPECIFICATION Spec
INVARIANT ErrorCodeFails
CHECK_DEADLOCK FALSE
