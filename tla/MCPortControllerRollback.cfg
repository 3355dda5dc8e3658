SPECIFICATION Spec
CONSTANTS
    Serials = {s1, s2}
    Binds = {b1, b2}
    MaxRevision = 3
    NoConfig = none
    Failures = {"device", "apply", "listener", "close"}
    Mishaps = {{"rollback"}}
SYMMETRY Alike
INVARIANTS
    UartRunsCurrent
