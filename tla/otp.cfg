SPECIFICATION Spec
CONSTANTS
    Reqs = {r1, r2}
    MaxAttempts = 3
    MaxCodes = 2
SYMMETRY Symmetry
INVARIANTS TypeOK CodeIsUsedOnce OneCodeAtATime NoEarlyLockout GuessesAreBounded
CHECK_DEADLOCK FALSE
