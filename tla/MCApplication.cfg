SPECIFICATION FairSpec
CONSTANTS
    Configs <- MCConfigs
    Defaults <- First
    SafeMode <- Safe
    Absent = absent
    Damaged = damaged
    PortCount = 2
    FirstDirs <- MCFirstDirs
    NoConfig = none
    MaxEvents = 2
    Faults = {"read", "rename", "sync", "init", "port"}
INVARIANTS
    BootsTold
    PortsRunSelected
PROPERTIES
    Ends
