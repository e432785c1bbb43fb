\* Two students and one project, the budgets of the code, teardowns that fail.
CONSTANTS
    Labs = {l1, l2}
    Projects = {p1}
    Requests = {r1}
    Nobody = Nobody
    MaxCleanupFailures = 3
    MaxRetries = 5
    MaxFaults = 0
    LabCommands = {}
    Owner <- DistinctOwners
SPECIFICATION FairSpec
INVARIANTS
    LiveLabHasRent
PROPERTIES
    QuarantineIsSticky
    EveryLabEnds
    EveryRentEnds
CHECK_DEADLOCK FALSE
