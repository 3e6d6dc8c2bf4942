SPECIFICATION Spec
CONSTANTS
    Tokens = {t1, t2, t3}
    Resets = {p1, p2}
    NoToken = noToken
    MaxFaults = 2
SYMMETRY Symmetry
INVARIANTS
    TypeOK
    ActiveIsNewest
CHECK_DEADLOCK FALSE
