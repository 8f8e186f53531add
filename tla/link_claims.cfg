SPECIFICATION Spec
CONSTANTS
    Links = {l1}
    Handles = {h1}
    Reqs = {r1, r2}
    None = None
CHECK_DEADLOCK FALSE
INVARIANT ClaimedOnce
