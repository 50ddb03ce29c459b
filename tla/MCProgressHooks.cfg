SPECIFICATION HooksSpec
CONSTANTS
    Agent = {a, b}
    Orch = "orchestrator"
    Item <- MCItem
    MaxActive = 1
    MaxFeed = 1
    MaxDone = 2
    ShownDone = 1
    MaxCalls = 1
    MaxAtOnce = 2
    RowLimit = 1
    StoreFails = TRUE
    HasRegistry = TRUE
    HasStore = TRUE
SYMMETRY AgentSymmetry
INVARIANTS
    CallsAreBooked
    ListsFollowLife
    FlushedMirrorIsCurrent
    MirrorLinksDecisions
CHECK_DEADLOCK FALSE
