CONSTANTS
    Block = {"g", "a", "b", "c", "aa", "ab", "aaa", "aab", "ba"}
    NoBlock = NoBlock
    Validator = {"alice", "bob", "carol"}
    Absent = Absent
    Infinity = Infinity
    NaN = NaN
    prevblock <- MCPrevblock
    id <- MCId
    Weightings <- KnownWeightings
CHECK_DEADLOCK FALSE
SPECIFICATION FairSpec
INVARIANTS
    TypeOK
    SameLeaves
    MajorityKept
    ExactLeaves
    ParsesTree
    OldGhostHeaviest
    OldGhostFails
    HeaviestButForDropped
    MedianSplits
    LastHeaviest
PROPERTIES
    Terminates
