SPECIFICATION FairSpec
CONSTANTS
    Profiles = {p1, p2, p3}
    Absent = none
    Faults = {"io", "sync", "stage", "net"}
INVARIANTS
    StoreIsKept
    ToldIsSaved
PROPERTIES
    IsAtomic
    StagingIsSilent
    ChangesEnd
