SPECIFICATION Spec
CONSTANTS
    t1 = t1
    t2 = t2
    u1 = u1
    None = None
    Tokens = {t1, t2}
    Users = {u1}
    Reqs = {r1, r2}
    Owner <- OwnerOf
    Remembered = {t1}
    Day = 1
    Month = 2
    Ttl = 1
    Span = 0
SYMMETRY Symmetry
INVARIANTS TypeOK OrphanKeysAreExplained
