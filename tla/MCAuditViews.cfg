SPECIFICATION GateSpec
CONSTANTS
    Dispatch <- MCTwoDispatches
    RoundCap = 2
    LiveLimit = 2
    WorkerLimit = 1
    QueueLimit = 1
    RecentLimit = 1
    HasCheap = FALSE
    Meta <- MCFewMeta
    Answer <- MCFewAnswer
    Faults <- MCAllFaults
    MaxDirectives = 4
    Directive <- MCDirective
    Forbidden <- MCForbidden
    Workspace <- MCWorkspace
    Coordination <- MCCoordination
    Base <- MCBase
    BlankBase <- MCBlankBase
    Path <- MCPath
    ProtectedPath <- MCProtectedPath
    SyntheticPath <- MCSyntheticPath
    FileThreshold = 3
    CostThreshold = 1
    TrivialMaxFiles = 1
INVARIANTS
    RowBeforeResult
    WorkspaceDeclared
    MetricsAddUp
    StatusTellsTheOutcome
    ViewsAgreeOnTheNewest
PROPERTIES
    KeepsPromise
    CurrentNeverGoesBack
CHECK_DEADLOCK FALSE
