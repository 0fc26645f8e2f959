\* Two sessions of one device, sentences that get lost, and Redis or memory.
CONSTANTS
    old = old
    new = new
    user = user
    Session = {old, new}
    Device = {user}
    DeviceOf <- MCDeviceOf
    Scripts <- MCScripts
    MaxHistory = 1
    MaxTime = 1
SPECIFICATION Spec
INVARIANTS
    TypeOK
    ShadowSettled
    HistoryFollows
    SkyExact
CHECK_DEADLOCK FALSE
