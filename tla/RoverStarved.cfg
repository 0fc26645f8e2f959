\* Chunks larger than the bucket of the rover's tier.
CONSTANTS
    strict = strict
    gated = gated
    Rover = {strict}
    QueueMax <- MCQueueMax
    Period <- MCPeriod
    Rate <- MCRate
    Lens = {3}
    MaxChunks = 2
    MaxClock = 4
SPECIFICATION Spec
PROPERTIES
    SleepEnds
