SPECIFICATION Spec
CONSTANTS
    t1 = t1
    t2 = t2
    Threads <- TwoThreads
    MaxStarts = 2
    MaxProcesses = 1
SYMMETRY Interchangeable
INVARIANT
    WorkersGoWithLeader
CHECK_DEADLOCK FALSE
