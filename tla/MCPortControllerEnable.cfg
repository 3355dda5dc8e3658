SPECIFICATION Spec
CONSTANTS
    Serials = {s1, s2}
    Binds = {b1, b2}
    MaxRevision = 3
    NoConfig = none
    Failures = {}
    Mishaps = {{"switch"}}
SYMMETRY Alike
INVARIANTS
    UartRunsCurrent
