SPECIFICATION StoreSpec
CONSTANTS
    Reqs = {r1, r2}
    None = None
    Ttl = 2
    Window = 2
    MaxCount = 3
    Names = {k1, k2}
    MaxSaves = 2
    Limit = 1
    MaxArrivals = 3
INVARIANTS TypesOK StaleCopyIsExplained StalenessIsBounded AnsweredSaveStands RateIsBounded
PROPERTY WindowsEnd
CHECK_DEADLOCK FALSE
