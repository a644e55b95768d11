CONSTANTS
    Block = {"g", "a", "b", "c", "aa", "ab", "aaa", "aab", "ba"}
    NoBlock = NoBlock
    Validator = {"alice", "bob", "carol"}
    Absent = Absent
    Infinity = Infinity
    NaN = NaN
    prevblock <- MCPrevblock
    id <- MCId
    Weightings <- UnknownWeightings
CHECK_DEADLOCK FALSE
SPECIFICATION Spec
INVARIANT
    AgreesWithMathematical
