CONSTANTS
    l1 = l1
    l2 = l2
    l3 = l3
    r1 = r1
    r2 = r2
    NoOne = NoOne
    Loaders = {l1, l2}
    Readers = {r1, r2}
    Forced <- OneForced
    Requested <- SomeEndpoints
SYMMETRY ReaderSymmetry
SPECIFICATION Spec
INVARIANTS TypeOK OneFixture AnswersFromOneFixture ListsOnlyWait SerialsAhead IInv
PROPERTY ImplementsStore
CHECK_DEADLOCK FALSE
