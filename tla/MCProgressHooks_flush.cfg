SPECIFICATION HooksSpec
CONSTANTS
    Agent = {a, b}
    Orch = "orchestrator"
    Item <- MCItem
    MaxActive = 2
    MaxFeed = 1
    MaxDone = 2
    ShownDone = 1
    MaxCalls = 0
    MaxAtOnce = 3
    RowLimit = 1
    StoreFails = FALSE
    HasRegistry = FALSE
    HasStore = TRUE
SYMMETRY AgentSymmetry
INVARIANTS
    LifecycleIsFlushed
CHECK_DEADLOCK FALSE
