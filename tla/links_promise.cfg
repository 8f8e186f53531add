SPECIFICATION SerialSpec
CONSTANTS
    Links = {l1, l2}
    Handles = {h1}
    Reqs = {r1, r2}
    None = None
PROPERTY PromiseKept
CHECK_DEADLOCK FALSE
