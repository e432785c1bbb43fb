\* A user's request races the cleanup.
CONSTANTS
    Labs = {l1}
    Projects = {p1}
    Requests = {r1}
    Nobody = Nobody
    MaxCleanupFailures = 1
    MaxRetries = 1
    MaxFaults = 0
    LabCommands = {"stop", "freeze", "unfreeze", "extend"}
    Owner <- DistinctOwners
SYMMETRY Symmetric
SPECIFICATION Spec
PROPERTIES
    DoneIsFinal
CHECK_DEADLOCK FALSE
