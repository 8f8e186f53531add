SPECIFICATION Spec
CONSTANTS
    Links = {l1, l2}
    Handles = {h1}
    Reqs = {r1, r2}
    None = None
SYMMETRY Symmetry
INVARIANTS TypeOK LoginsAreApproved VerdictIsFinal ChallengeLoginsAreBounded
CHECK_DEADLOCK FALSE
