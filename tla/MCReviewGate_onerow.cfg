SPECIFICATION GateSpec
CONSTANTS
    Dispatch <- MCOneDispatch
    RoundCap = 2
    HasCheap = TRUE
    Meta <- MCFewMeta
    Answer <- MCFewAnswer
    Faults <- MCNoFaults
    MaxDirectives = 4
    Directive <- MCDirective
    Forbidden <- MCForbidden
    Workspace <- MCWorkspace
    Coordination <- MCCoordination
    Base <- MCBase
    BlankBase <- MCBlankBase
    Path <- MCPath
    ProtectedPath <- MCProtectedPath
    SyntheticPath <- MCSyntheticPath
    FileThreshold = 3
    CostThreshold = 1
    TrivialMaxFiles = 1
INVARIANTS
    ExactlyOneRow
CHECK_DEADLOCK FALSE
