CONSTANTS
    Validator = {"a", "b", "c", "d"}
    threshold = 2
    Views <- MCViews
    Weight <- MCWeight
CHECK_DEADLOCK FALSE
SPECIFICATION Spec
INVARIANTS
    TypeOK
    OnlyMaximal
    AllMaximal
    OracleIffClique
