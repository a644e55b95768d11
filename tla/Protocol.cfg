CONSTANTS
    Validator = {a, b, c}
    MaxCreated = 4
    MaxOwn = 3
SPECIFICATION FairSpec
INVARIANTS
    TypeOK
    NoSelfEquivocation
    ViewClosed
    Reproducible
PROPERTIES
    Convergence
