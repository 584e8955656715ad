SPECIFICATION Spec
CONSTANTS
    None = None
    Workers = {w1}
    Slots = {a1}
    Sids = {s1}
    Mids = {1}
    MidModulus = 4
    MaxLoad = 2
    MidsReused = TRUE
    AttachMayFail = FALSE
    Consoles = {k1}
    Plans <- OnePlan
    Rates = {1}
    Durations = {0, 1}
    Minute = 2
    MaxTime = 4
    MaxCommands = 2
CHECK_DEADLOCK FALSE
INVARIANTS
    QuotaKept
PROPERTIES
    StopDrains
