SPECIFICATION RecordsSpec
CONSTANTS
    Reqs = {r1, r2}
    MaxUsers = 2
    MaxPasswords = 3
    Ceremonies = {c1, c2, c3}
    MaxRows = 2
    Ranks = {1, 2, 3}
    MaxIds = 3
    DefaultLimit = 2
    LimitCap = 2
SYMMETRY Symmetry
INVARIANTS TypesOK OneRowPerLookup OldPasswordsAreOut
    CeremonyIsServedOnce OneRowPerCredential
    WalkShowsEachOnce
PROPERTY CounterNeverFallsBack
CHECK_DEADLOCK FALSE
