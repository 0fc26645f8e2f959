\* File and memory under administrators, the watcher, SIGHUP and editors.
CONSTANTS
    u1 = u1
    t1 = t1
    t2 = t2
    m1 = m1
    f1 = f1
    e1 = e1
    User = {u1}
    Tier = {t1, t2}
    Mountpoint = {m1}
    Fence = {f1}
    Editor = {e1}
    Admin = Admin
    Plain = Plain
    None = None
    Garbage = Garbage
    Start <- MCStart
    Edits <- MCEdits
SPECIFICATION Spec
INVARIANTS
    TypeOK
    InForceIsValid
    SettingsInStep
PROPERTIES
    AdminKeepsFileValid
    NewerIsRead
