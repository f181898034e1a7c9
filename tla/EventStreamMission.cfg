SPECIFICATION WatchingSpec
CONSTANTS
    missionTask = missionTask
    stepTask = stepTask
    c1 = c1
    c2 = c2
    Tasks <- MCTasks
    MissionOf <- MCMissionOf
    Conns <- OneConn
    QueueSize = 2
    MaxEvents = 3
    All = All
    System = System
    RawPlans <- MCRawPlans
    Permission <- MCPermission
    Approved <- MCApproved
    MaxAttempts = 2
    MaxSteps = 2
    MaxRetries = 1
    MaxToolCalls = 2
    CallsPerStep = 1
    MaxOnWay = 2
    MaxPanelDrops = 1
INVARIANT
    MissionWatcherSeesEverything
CHECK_DEADLOCK FALSE
