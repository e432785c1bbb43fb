\* Two publishers, events of two labs, a Redis that refuses and faults.
CONSTANTS
    MaxEvents = 3
    Subject <- TwoLabs
    Publishers = {g1, g2}
    BatchSize = 2
    MaxAttempts = 2
    MaxRefusals = 3
    MaxFaults = 1
SPECIFICATION FairSpec
INVARIANTS
    FirstInOrder
    PublishedWasDelivered
    FewDuplicates
PROPERTIES
    ImplementsDelivery
    EveryEventIsPublished
CHECK_DEADLOCK FALSE
