SPECIFICATION Spec
CONSTANTS
    Profiles = {p1, p2, p3}
    Absent = none
    Faults = {}
SYMMETRY Alike
INVARIANTS
    RevertedIsOld
