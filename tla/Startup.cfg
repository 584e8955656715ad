SPECIFICATION Spec
CONSTANTS
    None = None
    Pids = {p1, p2, p3}
    Operators = {o1, o2}
    StartTries = 2
    StopTries = 2
    PidsReused = TRUE
    MaxCommands = 3
    MaxCrashes = 1
CHECK_DEADLOCK FALSE
INVARIANTS
    TypeOK
    PidFileNamesServer
    StaleOnlyAfterCrash
    StoppedIsGone
PROPERTIES
    StartedIsUp
