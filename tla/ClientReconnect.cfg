SPECIFICATION MCFairSpec
CONSTANTS
    Tasks <- MCTasks
    MaxReads = 2
    MaxDrops = 1
PROPERTIES
    ReconnectRecovers
CHECK_DEADLOCK FALSE
