\* The signal at any moment, with clients that stay, leave or do not read.
CONSTANTS
    base = base
    near = near
    busy = busy
    quiet = quiet
    Source = {base}
    Rover = {near}
    Mountpoint = {busy, quiet}
    At <- MCAt
    WaitsForClients = TRUE
SPECIFICATION Spec
INVARIANTS
    NothingLeftBehind
PROPERTIES
    ShutdownEnds
CHECK_DEADLOCK FALSE
