CONSTANTS
    None = None
    Broken = Broken
    f1 = f1
    f2 = f2
    File = {f1, f2}
    StatePath = f2
    Env = {}
    User = {"resolve", "web", "clear", "resume", "start", "stop", "restart", "sync", "other"}
    MaxConflicts = 1
    MaxCommands = 1
    MaxCrashes = 0
SPECIFICATION Spec
CHECK_DEADLOCK FALSE
PROPERTY SettledRecorded
