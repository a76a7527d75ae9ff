SPECIFICATION Spec
CONSTANTS
    None = None
    a = a
    b = b
    v1 = v1
    v2 = v2
    v3 = v3
    f1 = f1
    f2 = f2
    Name = {a}
    Value = {v1, v2, v3}
    Old = v1
    Legacy = {a}
    RefFile = {f1, f2}
    Bound = {f1}
    Ops = {"set", "sync"}
    PeerOps = {}
    Unmigrated = TRUE
    Overlap = FALSE
    MaxJobs = 3
    MaxPeer = 0
    MaxCrashes = 1
INVARIANT LegacyKept
CHECK_DEADLOCK FALSE
