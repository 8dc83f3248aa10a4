SPECIFICATION Spec
CONSTANTS
    c1 = c1
    c2 = c2
    p = p
    q = q
    None = None
    Callers = {c1, c2}
    Passwords = {p, q}
    Threshold = 2
    MaxSalts = 3
    MaxDeks = 2
    MaxEvents = 1
SYMMETRY Symmetric
CHECK_DEADLOCK FALSE
INVARIANTS
    TypeOK
    LastPasswordOpens
    GuessesBounded
