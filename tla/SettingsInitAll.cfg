SPECIFICATION Spec
CONSTANTS
    None = None
    Consoles = {k1}
    Requests <- InitAll
    Files <- SampleFiles
    Texts <- SampleTexts
    Delays = {0, 949}
    MaxCommands = 2
CHECK_DEADLOCK FALSE
INVARIANTS
    InitRestoresAll
