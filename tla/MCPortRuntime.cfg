SPECIFICATION FairSpec
CONSTANTS
    MaxId = 3
    QueueCapacity = 2
    QueueBytesMax = 3
    Lengths = {1, 2}
    QueueTimeout = 2
    ResponseTimeout = 1
    StateTimeout = 1
    RecoveryDelay = 1
    MaxAttempts = 2
    Configs = {c1, c2}
    InitConfig = c1
    NoConfig = c0
INVARIANTS
    AnsweredExactlyOnce
    AnsweredByOwnEvent
    QueueIsKept
    FailuresAreSound
PROPERTIES
    BarrierAfterFailure
    ServesRequests
    FollowsLife
    AnsweredUnlessDegraded
    TransientStatesEnd
