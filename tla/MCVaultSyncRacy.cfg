CONSTANTS
    None = None
    m1 = m1
    m2 = m2
    f1 = f1
    f2 = f2
    e1 = e1
    e2 = e2
    Machine = {m1, m2}
    File = {f1}
    Edit = {e1}
    GlobalOwner <- Namespaced
    DriverHosts = {}
    Ops <- SyncOnly
    RacyEdits = TRUE
    MaxCrashes = 0
SPECIFICATION Spec
PROPERTIES
    OverwriteRecoverable
