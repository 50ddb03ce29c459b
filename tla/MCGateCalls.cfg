SPECIFICATION FairGateCallsSpec
CONSTANTS
    Dispatch <- MCTwoDispatches
    RoundCap = 3
    Untimed <- MCUntimed
    HasCheap = TRUE
    Meta <- MCCallMeta
    Answer <- MCCallAnswer
    Faults <- MCNoFaults
    MaxDirectives = 3
    Directive <- MCDirective
    Forbidden <- MCForbidden
    Workspace <- MCWorkspace
    Coordination <- MCCoordination
    Base <- MCBase
    BlankBase <- MCBlankBase
    Path <- MCPath
    ProtectedPath <- MCProtectedPath
    SyntheticPath <- MCSyntheticPath
    FileThreshold = 3
    CostThreshold = 1
    TrivialMaxFiles = 1
INVARIANTS
    OnlyAnswersAreHeard
    NoThreadOutlivesItsReview
    ReleaseJustified
    TightenOnly
PROPERTIES
    LateAnswerIsDropped
    CallsEnd
CHECK_DEADLOCK FALSE
