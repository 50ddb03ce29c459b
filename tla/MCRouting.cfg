SPECIFICATION RouteSpec
CONSTANTS
    Path <- MCPath
    ProtectedPath <- MCProtectedPath
    SyntheticPath <- MCSyntheticPath
    FileThreshold = 3
    CostThreshold = 1
    TrivialMaxFiles = 1
    MaxFiles = 5
    MaxCost = 2
    Model <- MCModel
    Entry <- MCEntry
    Garbled <- MCGarbled
    Catalogs <- MCCatalogs
    LocalTrustedTier = 3
    DefaultWorker = "haiku"
    Ttl = 2
INVARIANTS
    WriteCapableIsReviewed
    LocalWasSeenAlive
    RiskOverridesCost
    SavingsAddUp
PROPERTIES
    RiskierIsNeverReviewedLess
