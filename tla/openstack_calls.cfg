\* Three calls that are refused or whose reply is lost, in the deploy or the teardown.
CONSTANTS
    MaxFaults = 3
    MaxCleanupFailures = 3
SPECIFICATION FairSpec
INVARIANTS
    ReadyIsReachable
    NothingTwice
    TornDownIsEmpty
PROPERTIES
    TeardownEnds
CHECK_DEADLOCK FALSE
