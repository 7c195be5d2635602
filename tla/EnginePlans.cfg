SPECIFICATION FairSpec
CONSTANTS
    N = 3
    f1 = f1
    f2 = f2
    a = a
    Empty = e
    Absent = Absent
    NoTarget = NoTarget
    Contents = {e, a}
    IOFaults = TRUE
    Files = {f1, f2}
    Foreign = {f2}
    Plans <- AllPlans
CHECK_DEADLOCK FALSE
INVARIANTS TypeOK CleanMeansRestored PreexistingSurvives WritesOnce
PROPERTY ImplementsSaga Terminates
