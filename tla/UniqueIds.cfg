CONSTANTS
    Validator = {a, b}
    MaxCreated = 4
    MaxOwn = 3
SPECIFICATION IdSpec
INVARIANT
    UniqueIds
