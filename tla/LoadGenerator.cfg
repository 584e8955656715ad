SPECIFICATION Spec
CONSTANTS
    None = None
    Consoles = {k1, k2}
    Plans <- ShortPlans
    Rates = {3}
    Durations = {0, 1, 2}
    Minute = 2
    MaxTime = 6
    MaxCommands = 3
CHECK_DEADLOCK FALSE
INVARIANTS
    TypeOK
    TimedRunBounded
    StatusTruthful
    TwoEntrySharesHonoured
PROPERTIES
    OncePerMinute
