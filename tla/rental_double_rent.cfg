\* A retried cleanup frees the project of the next tenant.
CONSTANTS
    Labs = {l1, l2, l3}
    Projects = {p1}
    Requests = {r1}
    Nobody = Nobody
    MaxCleanupFailures = 2
    MaxRetries = 1
    MaxFaults = 1
    LabCommands = {}
    Owner <- DistinctOwners
SYMMETRY Symmetric
SPECIFICATION Spec
INVARIANTS
    RentIsUnique
CHECK_DEADLOCK FALSE
