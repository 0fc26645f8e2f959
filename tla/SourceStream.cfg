\* Sources with difficult streams, a relay that falls behind, a web client of either kind.
CONSTANTS
    viewer = viewer
    Client = {viewer}
    QueueMax = 2
    BoxMax = 2
    Crc <- MCCrc
    Inputs <- MCInputs
    MaxTypes = 1
    MaxSources = 2
SPECIFICATION Spec
INVARIANTS
    TypeOK
    ChunkingIrrelevant
    NothingLost
    CountsAgree
    NewestKept
    OrphansAreStreams
PROPERTIES
    FramesFlow
    GoneAreDropped
CHECK_DEADLOCK FALSE
