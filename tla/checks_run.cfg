\* A check of one of two labs that use an address in turn, faults and expired leases.
CONSTANTS
    l1 = l1
    l2 = l2
    r1 = r1
    Labs = {l1, l2}
    Runs = {r1}
    LabOf <- OfFirst
    Workers = {w1, w2}
    Plays <- FewPlays
    Nothing = Nothing
    NoSecret = NoSecret
    MaxRetries = 1
    MaxFaults = 1
    MaxExpiries = 1
SPECIFICATION FairSpec
INVARIANTS
    PassedIsEarned
    ShownIsConsistent
PROPERTIES
    VerdictIsFinal
    NoCheckIsForgotten
CHECK_DEADLOCK FALSE
