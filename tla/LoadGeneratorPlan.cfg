SPECIFICATION Spec
CONSTANTS
    None = None
    Consoles = {k1}
    Plans <- LongPlans
    Rates = {4}
    Durations = {0, 1, 2}
    Minute = 2
    MaxTime = 6
    MaxCommands = 3
CHECK_DEADLOCK FALSE
INVARIANT
    PlanHonoured
