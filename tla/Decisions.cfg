SPECIFICATION DecisionSpec
CONSTANTS
    N = 4
    Graphs <- MCGraphs
    a = a
    b = b
    c = c
    pooled = pooled
    own = own
    k1 = k1
    k2 = k2
    Null = Null
    Workers = {a, b, c}
    ProcessOf <- MCProcessOf
    Ids = {1, 2}
    Keys = {k1, k2}
    Values = {v1, bad}
    Storable = {v1}
    Scopes <- MCScopes
    MaxAsks = 3
    Budgets = {2, 5}
    Unread = Unread
    Tools = {"read", "act"}
    LevelOf <- MCLevelOf
    MaxCalls = 2
    MaxMissionSteps = 1
    MaxTraceItems = 8
    Contexts <- MCContexts
    Absent = Absent
    first = first
    second = second
    Collections = {first, second}
    Objectives <- MCObjectives
    Stores <- MCStores
    ProcessLists <- MCProcessLists
    Disks <- MCDisks
    Dirs = {"/n", "/n/app"}
    Canonical <- MCCanonical
    Within <- MCWithin
    Said <- MCSaid
    Restated <- MCRestated
    MaxMemories = 1
    MaxWorkspaceFacts = 1
    MaxCandidates = 3
    MaxChanges = 1
    Nowhere = Nowhere
    Entries = {1, 2, 3, 4, 5, 6, 7, 8, 9, 10, 11, 12}
    Parent <- MCParent
    Above <- MCAbove
    Kinds <- MCKinds
    Target <- MCTarget
    Roots = {1}
    Denied = {2}
    Matching = {3, 5, 7, 8, 12}
    Secret = {8}
    Skipped = {2}
    Unreadable = {11}
    Repository = {1, 10}
    MaxBytes = 1
    Policies <- MCPolicies
    Gone = Gone
    Cases = {1, 2}
    Expected <- MCExpected
    AgentTools <- MCAgentTools
    Endings <- MCEndings
    Runs <- MCRuns
    MaxPolls = 2
    Full = 2
INVARIANTS
    FindCycleIsRight
    OrderIsRight
    VerdictIsHonest
    TraceIsTrue
    ContextIsHonest
    FilesAreRight
    VerdictsAreEarned
PROPERTIES
    ImplementsFactStore
    ForgottenStaysForgotten
SYMMETRY Interchangeable
CHECK_DEADLOCK FALSE
