SPECIFICATION FairSpec
CONSTANTS
    safe = safe
    confirm1 = confirm1
    confirm2 = confirm2
    restricted = restricted
    unlisted = unlisted
    list = list
    edit1 = edit1
    edit2 = edit2
    send = send
    wipe = wipe
    ghost = ghost
    Tools <- MCTools
    Permission <- MCPermission
    Contracted <- MCContracted
    Calls <- MCCalls
    ToolOf <- MCToolOf
    RawTurns <- MCPairTurn
    Approvals <- MCNoApprovals
    NTasks = 2
    NReqs = 4
    MaxIterations = 1
    MaxCallsPerTurn = 2
    MaxRequests = 2
    MaxTasks = 1
PROPERTIES
    RunsEnd
    CancelEnds
CHECK_DEADLOCK FALSE
