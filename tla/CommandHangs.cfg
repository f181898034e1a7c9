SPECIFICATION HangingSpec
CONSTANTS
    Threads = {t1, t2}
    MaxStarts = 2
    MaxProcesses = 1
    r1 = r1
    r2 = r2
    s1 = s1
    s2 = s2
    tool1 = tool1
    tool2 = tool2
    tool3 = tool3
    None = None
    Runs = {r1, r2}
    Tools = {tool1, tool2, tool3}
    Servers <- MCServers
    Declared <- MCDeclared
    Baseline <- MCBaseline
    MaxRunCalls = 1
    MaxCrashes = 1
    Nil = Nil
    Dashed <- MCDashed
    InsidePaths <- MCInsidePaths
    AsgiTargets <- MCAsgiTargets
    PortNumbers <- MCPortNumbers
    LocalHosts <- MCLocalHosts
    BlockedNames <- MCBlockedNames
    MaxArguments = 5
    CommandRequests <- MCCommandRequests
    RawPlans <- MCRawPlans
    Permission <- MCPermission
    Approved <- MCApproved
    MaxAttempts = 3
    MaxSteps = 3
    MaxRetries = 1
    MaxToolCalls = 2
    CallsPerStep = 2
PROPERTIES
    CommandsAreBounded
CHECK_DEADLOCK FALSE
