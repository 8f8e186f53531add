SPECIFICATION LogoutSpec
CONSTANTS
    t1 = t1
    t2 = t2
    u1 = u1
    None = None
    Tokens = {t1}
    Users = {u1}
    Reqs = {r1, r2}
    Owner <- OwnerOf
    Remembered = {t1}
    Day = 2
    Month = 3
    Ttl = 1
    Span = 1
INVARIANT EndedMeansRejected
