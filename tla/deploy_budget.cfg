\* The retries of the code, no fault: every step fails less often than its budget.
CONSTANTS
    NumVMs = 2
    MaxAttempts = 3
    MaxRetries = 5
    MaxFaults = 0
    KeyIsReturned = TRUE
SPECIFICATION FairSpec
PROPERTIES
    DeployEnds
CHECK_DEADLOCK FALSE
