SPECIFICATION Spec
CONSTANTS
    Configs <- MCConfigs
    Defaults <- First
    SafeMode <- Safe
    Absent = absent
    Damaged = damaged
    PortCount = 2
    FirstDirs <- MCUsedDirs
    NoConfig = none
    MaxEvents = 2
    Faults = {"rename"}
INVARIANT NothingToChange
