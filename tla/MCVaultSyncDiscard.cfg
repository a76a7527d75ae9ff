CONSTANTS
    None = None
    m1 = m1
    m2 = m2
    f1 = f1
    f2 = f2
    e1 = e1
    e2 = e2
    Machine = {m1, m2}
    File = {f1}
    Edit = {e1, e2}
    GlobalOwner <- Namespaced
    DriverHosts = {}
    Ops <- SyncTrack
    RacyEdits = FALSE
    MaxCrashes = 0
SPECIFICATION Spec
SYMMETRY Symmetry
PROPERTIES
    DiscardRecorded
