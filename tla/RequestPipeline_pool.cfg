CONSTANTS
    r1 = r1
    r2 = r2
    p1 = p1
    None = None
    Requests = {r1, r2, p1}
    Probes = {p1}
    PoolSize = 1
    MaxOverflow = 1
SPECIFICATION FairSpec
INVARIANTS
    TypeOK
    NothingLeaks
    SuspendsUnnoticed
    OwnIds
PROPERTIES
    ProbesAnswered
    RequestsAnswered
CHECK_DEADLOCK FALSE
