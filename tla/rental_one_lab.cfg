\* One lab against everything: crashes, lost enqueues, teardowns that fail, and a command
\* of a user or an administrator.
CONSTANTS
    Labs = {l1}
    Projects = {p1, p2}
    Requests = {r1}
    Nobody = Nobody
    MaxCleanupFailures = 2
    MaxRetries = 2
    MaxFaults = 2
    LabCommands = {"stop", "freeze", "unfreeze", "extend", "quarantine", "release"}
    Owner <- DistinctOwners
SYMMETRY Symmetric
SPECIFICATION Spec
INVARIANTS
    IInv
    RentIsBacked
    FreeProjectIsClean
    DoneLabIsTornDown
CHECK_DEADLOCK FALSE
