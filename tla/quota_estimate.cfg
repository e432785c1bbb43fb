\* One lab decided with full sight takes the cluster over the threshold.
CONSTANTS
    Creates = {c1, c2, c3}
    Workers = {w1, w2}
    Total <- SmallCluster
    Footprint <- Estimate
    Takes <- FiveServers
    Foreign <- OneServer
    CinderLimits <- OneLimit
    ThresholdPct = 90
    MaxAge = 1
    NoSnapshot = NoSnapshot
    MaxTime = 2
    MaxOthers = 1
    MaxFaults = 0
SPECIFICATION Spec
INVARIANTS
    GuardKeepsThreshold
CHECK_DEADLOCK FALSE
