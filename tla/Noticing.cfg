SPECIFICATION NoticingSpec
CONSTANTS
    Services <- MCServices
    Procs <- MCProcs
    Paths <- MCPaths
    DirOf <- MCDirOf
    Branches <- MCBranches
    Others <- MCOthers
    Cooldown = 2
    Window = 1
    MaxPerWindow = 2
    MaxObservations = 2
    MaxPaths = 1
    MaxStatusFiles = 1
    MaxFiles = 1
    MaxTime = 3
    Processes <- OneProc
    Servers <- OneServer
    ServerOf <- Runs
    OtherOffers <- OneOther
    FlappingThreshold = 3
    OfferCooldown = 3
    OfferWindow = 0
    MaxOffers = 1
    TTL = 3
    MaxPending = 2
    MaxSuggestions = 2
    MaxClock = 4
    QueueSize = 2
    MaxReads = 2
    MaxPosts = 1
    MaxDrops = 1
INVARIANTS
    QuietWhileListed
    RecoveryFollowsOutage
    NoFailureIsMissed
    OffersAreSparing
    ClientShowsPending
CHECK_DEADLOCK FALSE
