SPECIFICATION Spec
CONSTANTS
    None = None
    Broken = Broken
    n1 = n1
    n2 = n2
    r1 = r1
    r2 = r2
    k = k
    m1 = m1
    m2 = m2
    s1 = s1
    s2 = s2
    p1 = p1
    p2 = p2
    Namespace = {n1}
    Root = {r1, r2}
    Key = {k}
    MachineId = {m1, m2}
    Salt = {s1, s2}
    Password = {p1, p2}
    MaxOps = 3
    MaxCrashes = 0
PROPERTY MachineIdStable
CHECK_DEADLOCK FALSE
