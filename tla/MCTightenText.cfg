SPECIFICATION TextSpec
CONSTANTS
    Base <- MCPlainBase
    BlankBase <- MCBlankBase
    Directive <- MCDirective
    Forbidden <- MCForbidden
    Blank <- MCBlank
    Line <- MCLine
    Lists <- MCLists
    MaxDirectives = 3
    MaxSeams = 3
    HDR = "HDR"
    Token <- MCToken
INVARIANTS
    SetViewIsExact
    BaseIsRecovered
PROPERTIES
    RoundsOnlyAppend
CHECK_DEADLOCK FALSE
