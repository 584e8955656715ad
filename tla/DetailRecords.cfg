SPECIFICATION Spec
CONSTANTS
    None = None
    Unreadable = Unreadable
    Workers = {w1, w2}
    Names = {"API1", "API2"}
    Configurations <- Pairs
    Keys <- KeyCells
    LongKeys <- TwoLongKeys
    LongNames <- TwoLongNames
    SeqModulus = 5
    MaxDraws = 7
CHECK_DEADLOCK FALSE
INVARIANTS
    TypeOK
    ConfigurationServed
    KeysFindFirstRow
    RequestsFaithful
    RowsExist
    RowsTakeTurns
