SPECIFICATION FairDashSpec
CONSTANTS
    NoToken = NoToken
    Hermes <- MCHermes
    Cli <- MCCli
    Caller <- MCCaller
    Port <- MCPort
    Host = "127.0.0.1"
    Page <- MCPage
    MaxRuns = 2
    MaxCalls = 2
INVARIANTS
    OneDashboard
    PageSeesItsOwnProcess
PROPERTIES
    CallersGetAnAnswer
CHECK_DEADLOCK FALSE
