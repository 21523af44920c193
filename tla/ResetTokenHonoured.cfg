SPECIFICATION Spec
CONSTANTS
    Procs = {p1, p2}
    Tokens = {t1, t2}
    Lifetime = 2
    Resolution = 3
    NoToken = NoToken
SYMMETRY Symmetry
INVARIANTS
    HonouredIsRefused
    ResetTokenInv
CHECK_DEADLOCK FALSE
