CONSTANTS
    Message = {"a1", "x1", "b1", "b2", "c1", "c2"}
    Validator = {"alice", "bob", "carol"}
    Absent = Absent
    thr = 2
    MaxBatch = 2
    sender <- MCSender
    justification <- MCJustification
    Weight <- MCWeight
SPECIFICATION SharedSpec
INVARIANT
    SlashedUncounted
