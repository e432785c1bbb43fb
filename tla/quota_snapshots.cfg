\* Three requests, overlapping refreshes that fail, other tenants.
CONSTANTS
    Creates = {c1, c2, c3}
    Workers = {w1, w2}
    Total <- SmallCluster
    Footprint <- Estimate
    Takes <- FiveServers
    Foreign <- OneServer
    CinderLimits <- OneLimit
    ThresholdPct = 90
    MaxAge = 1
    NoSnapshot = NoSnapshot
    MaxTime = 2
    MaxOthers = 1
    MaxFaults = 1
SPECIFICATION FairSpec
INVARIANTS
    OvercommitIsBlind
    DecidedOnRecentMeasure
PROPERTIES
    StaleIsRefreshed
CHECK_DEADLOCK FALSE
