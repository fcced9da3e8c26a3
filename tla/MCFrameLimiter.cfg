CONSTANTS
    Size = {0, 1, 3, 4, 5}
    Capacity = 4
    Rate = 2
    MaxViolations = 3
    Horizon = 4
SPECIFICATION FSpec
INVARIANTS RecordBounded
