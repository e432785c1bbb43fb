\* Two posts of three tokens on two gateways, key rotation, restarts, failed statements.
CONSTANTS
    t1 = t1
    t2 = t2
    t3 = t3
    Requests = {q1, q2}
    Gateways = {g1, g2}
    Tokens = {t1, t2, t3}
    SubjectOf <- SubjectOf3
    CourseOf <- CourseOf3
    RoleOf <- RoleOf3
    EmailOf <- EmailOf3
    KeyOf <- KeyOf3
    LongLived = {t3}
    NoEmail = NoEmail
    Nobody = Nobody
    MaxFaults = 1
SPECIFICATION FairSpec
INVARIANTS
    TokenOpensOnce
    OneAccount
    OnlyTeachersReachOthers
PROPERTIES
    PostsAreAnswered
CHECK_DEADLOCK FALSE
