\* A student whose lab failed starts another before the compensation runs.
CONSTANTS
    Labs = {l1, l2}
    Projects = {p1, p2}
    Requests = {r1}
    Nobody = Nobody
    MaxCleanupFailures = 1
    MaxRetries = 1
    MaxFaults = 0
    LabCommands = {}
    Owner <- OneOwner
SPECIFICATION FairSpec
PROPERTIES
    FailedIsCleaned
CHECK_DEADLOCK FALSE
