\* Two rovers of different tiers on one hub, over time.
CONSTANTS
    strict = strict
    gated = gated
    Rover = {strict, gated}
    QueueMax <- MCQueueMax
    Period <- MCPeriod
    Rate <- MCRate
    Lens = {2}
    MaxChunks = 3
    MaxClock = 2
SPECIFICATION Spec
INVARIANTS
    TypeOK
    EpochsApart
    RateBounded
    InOrder
    StatisticsAgree
PROPERTIES
    SleepEnds
