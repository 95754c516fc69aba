CONSTANTS
    l1 = l1
    l2 = l2
    l3 = l3
    r1 = r1
    r2 = r2
    NoOne = NoOne
    Loaders = {l1, l2}
    Readers = {}
    Forced <- NoneForced
    Requested <- AllEndpoints
SPECIFICATION Spec
INVARIANT Idempotent
CHECK_DEADLOCK FALSE
