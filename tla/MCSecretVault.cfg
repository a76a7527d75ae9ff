SPECIFICATION Spec
CONSTANTS
    None = None
    a = a
    b = b
    v1 = v1
    v2 = v2
    v3 = v3
    f1 = f1
    f2 = f2
    Name = {a, b}
    Value = {v1, v2, v3}
    Old = v1
    Legacy = {a}
    RefFile = {f1, f2}
    Bound = {f1}
    Ops = {"set", "rotate", "rollback", "ref", "unref", "delete", "rename", "sync", "web_create", "web_rotate"}
    PeerOps = {"set", "delete", "ref"}
    Unmigrated = FALSE
    Overlap = FALSE
    MaxJobs = 3
    MaxPeer = 1
    MaxCrashes = 1
INVARIANTS TypeOK PushKeepsVersions LegacyKept
PROPERTIES PublishedOnSuccess FilesFollow
CHECK_DEADLOCK FALSE
