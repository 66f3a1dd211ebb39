SPECIFICATION Spec
CONSTANTS
    k1 = k1
    k2 = k2
    v1 = v1
    v2 = v2
    None = None
    Torn = Torn
    Key <- MCKey
    Val <- MCVal
    Version <- MCVersion
    Div = 2
    Mul = 1
    MaxWrites = 6
SYMMETRY MCSymmetry
INVARIANTS
    FileBounded
PROPERTIES
    MirrorsMemory
