SPECIFICATION Spec
CONSTANTS
    None = None
    w1 = w1
    w2 = w2
    a1 = a1
    a2 = a2
    s1 = s1
    s2 = s2
    c1 = c1
    c2 = c2
    r1 = r1
    Workers = {w1, w2}
    Slots = {a1}
    Sids = {s1}
    Mids = {2, 5}
    MidModulus = 4
    Commands = {c1, c2}
    Requests = {}
    MidsReused = FALSE
    AttachMayFail = FALSE
CHECK_DEADLOCK FALSE
INVARIANT
    TuAvailable
PROPERTIES
    PromiseKept
