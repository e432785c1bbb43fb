\* A deploy that fails half-way, and its compensation.
CONSTANTS
    Labs = {l1}
    Projects = {p1}
    Requests = {r1}
    Nobody = Nobody
    MaxCleanupFailures = 1
    MaxRetries = 1
    MaxFaults = 0
    LabCommands = {}
    Owner <- DistinctOwners
SYMMETRY Symmetric
SPECIFICATION Spec
INVARIANTS
    FreeProjectIsEmpty
CHECK_DEADLOCK FALSE
