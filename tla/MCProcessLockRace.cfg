CONSTANTS
    None = None
    Empty = Empty
    c1 = c1
    c2 = c2
    c3 = c3
    p1 = p1
    p2 = p2
    p3 = p3
    p4 = p4
    Command = {c1, c2, c3}
    Pid = {p1, p2, p3, p4}
    MaxOthers = 0
    MaxCrashes = 0
SPECIFICATION Spec
INVARIANTS
    MutualExclusion
