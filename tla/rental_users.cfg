\* One lab and two requests of its user, while teardowns fail and the timer fires.
CONSTANTS
    Labs = {l1}
    Projects = {p1}
    Requests = {r1, r2}
    Nobody = Nobody
    MaxCleanupFailures = 2
    MaxRetries = 2
    MaxFaults = 0
    LabCommands = {"stop", "freeze", "extend"}
    Owner <- DistinctOwners
SYMMETRY Symmetric
SPECIFICATION Spec
INVARIANTS
    FreeProjectIsClean
    DoneLabIsTornDown
CHECK_DEADLOCK FALSE
