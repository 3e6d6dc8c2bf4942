SPECIFICATION Spec
CONSTANTS
    Tokens = {t1}
    Resets = {p1}
    NoToken = noToken
    MaxFaults = 1
INVARIANTS
    SingleUse
CHECK_DEADLOCK FALSE
