CONSTANTS
    Message = {"a", "b", "c", "d", "e", "f", "g", "h"}
    Validator = {"alice", "bob", "carol"}
    sender <- MCSender
    justification <- MCJustification
CHECK_DEADLOCK FALSE
SPECIFICATION FairSpec
INVARIANTS
    TypeOK
    Explored
    Correct
    IndirectByLevels
PROPERTIES
    Returns
