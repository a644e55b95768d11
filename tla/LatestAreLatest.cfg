CONSTANTS
    Message = {"a1", "a2", "a3", "x1", "b1", "b2", "c1", "c2"}
    Validator = {"alice", "bob", "carol"}
    Absent = Absent
    thr = 2
    MaxBatch = 3
    sender <- MCSender
    justification <- MCJustification
    Weight <- MCWeight
    vote <- MCVote
SPECIFICATION BatchSpec
INVARIANT
    LatestAreLatest
