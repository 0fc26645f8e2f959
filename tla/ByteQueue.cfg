\* One queue, its putters, the tasks that notify, its getter.
CONSTANTS
    short = short
    long = long
    Chunk = {short, long}
    Size <- MCSize
    Max = 4
    MaxNotifies = 3
SPECIFICATION Spec
INVARIANTS
    TypeOK
    BytesAgree
    NoLostWakeup
    DrainedBeforeEnd
PROPERTIES
    ImplementsChannel
