\* close is to detach the hubs before the process ends.
CONSTANTS
    base = base
    near = near
    busy = busy
    quiet = quiet
    Source = {base}
    Rover = {near}
    Mountpoint = {busy, quiet}
    At <- MCAt
    WaitsForClients = TRUE
SPECIFICATION Spec
INVARIANTS
    HubsClosedTogether
CHECK_DEADLOCK FALSE
