SPECIFICATION Spec
CONSTANTS
    t1 = t1
    t2 = t2
    u1 = u1
    None = None
    Tokens = {t1}
    Users = {u1}
    Reqs = {r1, r2}
    Owner <- OwnerOf
    Remembered = {t1}
    Day = 3
    Month = 5
    Ttl = 2
    Span = 1
SYMMETRY Symmetry
INVARIANTS RevokedSessionsDie InactiveUsersAreRefused
