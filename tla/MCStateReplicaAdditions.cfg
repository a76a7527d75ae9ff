CONSTANTS
    None = None
    k1 = k1
    k2 = k2
    v1 = v1
    v2 = v2
    v3 = v3
    FileKey = {k1, k2}
    SecretKey = {k1}
    Value = {v1, v2, v3}
SPECIFICATION Spec
SYMMETRY Symmetry
PROPERTIES
    AdditionsMerged
