SPECIFICATION Spec
CONSTANTS
    None = None
    Consoles = {k1, k2}
    Requests <- Quiet
    Files <- SampleFiles
    Texts <- SampleTexts
    Delays = {0, 949}
    MaxCommands = 3
SYMMETRY Symmetry
CHECK_DEADLOCK FALSE
INVARIANTS
    TypeOK
    RepliesHold
    ErrorMeansUnchanged
    InitRestoresSection
    MarksTruthful
