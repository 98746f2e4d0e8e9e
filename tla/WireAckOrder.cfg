SPECIFICATION WireSpec
CONSTANTS
    MaxPuts = 3
    MaxConnects = 2
    LaggingSender = TRUE
INVARIANTS AcksIncrease
CHECK_DEADLOCK FALSE
