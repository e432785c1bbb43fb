\* Two labs of one student, one project to rent, and the sagas through faults.
CONSTANTS
    Labs = {l1, l2}
    Projects = {p1}
    Requests = {r1}
    Nobody = Nobody
    MaxCleanupFailures = 2
    MaxRetries = 2
    MaxFaults = 2
    LabCommands = {}
    Owner <- OneOwner
SPECIFICATION FairSpec
PROPERTIES
    OnlyLegalTransitions
    CleaningIsNotForgotten
CHECK_DEADLOCK FALSE
