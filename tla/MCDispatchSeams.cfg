SPECIFICATION SeamSpec
CONSTANTS
    Call <- MCCall
    Batch <- MCBatch
    Origins <- MCOrigins
    Tasks <- MCTasks
    CacheSize = 2
    Tightenings <- MCTightenings
    Directive <- MCDirective
    Forbidden <- MCNone
    MaxDirectives = 2
    Base <- MCBase
    BlankBase <- MCNone
INVARIANTS
    DispatchedOnItsOwnRelease
    TrailTellsWhatRan
    RunsTheReleasedPrompt
    GateRunsOncePerTask
    CacheIsBounded
    SeamsNeverRaise
    OnlyOverlapRaises
CHECK_DEADLOCK FALSE
