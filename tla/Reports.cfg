SPECIFICATION Spec
CONSTANTS
    k2 = k2
    k1 = k1
    v2 = v2
    v1 = v1
    x3 = x3
    x2 = x2
    x1 = x1
    Exchanges = {x1, x2, x3}
    Visits = {v1}
    Consoles = {k1, k2}
    MaxClears = 3
SYMMETRY Symmetry
CHECK_DEADLOCK FALSE
INVARIANTS
    TypeOK
    ResponsesExplained
    TablesAgree
