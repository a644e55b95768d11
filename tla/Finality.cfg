CONSTANTS
    Validator = {a, b, c}
    MaxCreated = 7
    MaxOwn = 3
    Data = {x, y}
    NoData = NoData
CHECK_DEADLOCK FALSE
SYMMETRY Symmetry
SPECIFICATION ChainSpec
INVARIANTS
    OracleKept
    NoConflict
