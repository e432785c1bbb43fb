\* Two topics, a connection of each of two users, buffers that overflow.
CONSTANTS
    u1 = u1
    u2 = u2
    c1 = c1
    c2 = c2
    Topics = {"lab.state_changed", "quota.snapshot"}
    Users = {u1, u2}
    Clients = {c1, c2}
    UserOf <- TwoUsers
    BufferSize = 1
    BusSize = 1
    MaxMessages <- MessageLimits
SPECIFICATION FairSpec
INVARIANTS
    BrokerSkipsNothing
    DoneIsClosedOnce
    MapsAgree
PROPERTIES
    BusIsDrained
    DroppedClientLeaves
CHECK_DEADLOCK FALSE
