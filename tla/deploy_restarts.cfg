\* Two machines, two crashes or lost saves, the attempts and the retries of the code.
CONSTANTS
    NumVMs = 2
    MaxAttempts = 3
    MaxRetries = 5
    MaxFaults = 2
    KeyIsReturned = TRUE
SPECIFICATION FairSpec
INVARIANTS
    ReadyKnowsAll
    ReadyHasUsableKey
    FailedAfterBudget
PROPERTIES
    ImplementsContract
    DeployIsNotForgotten
CHECK_DEADLOCK FALSE
