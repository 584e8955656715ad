SPECIFICATION Spec
CONSTANTS
    None = None
    Consoles = {k1}
    Plans <- OnePlan
    Rates = {1, 3}
    Durations = {0, 1, 2}
    Minute = 2
    MaxTime = 6
    MaxCommands = 3
CHECK_DEADLOCK FALSE
PROPERTY
    UnlimitedRunsOn
