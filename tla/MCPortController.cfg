SPECIFICATION FairSpec
CONSTANTS
    Serials = {s1, s2}
    Binds = {b1, b2}
    MaxRevision = 3
    NoConfig = none
    Failures = {"device", "apply", "listener", "close"}
    Mishaps = {{}, {"switch", "rollback"}}
INVARIANTS
    ListenerServesCurrent
    LifecycleTold
    UartRunsCurrentOtherwise
PROPERTIES
    FollowsSlot
    ChangesEnd
