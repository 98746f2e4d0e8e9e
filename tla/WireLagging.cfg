SPECIFICATION WireSpec
CONSTANTS
    MaxPuts = 3
    MaxConnects = 3
    LaggingSender = TRUE
CHECK_DEADLOCK FALSE
INVARIANTS NumberedInOrder PopsAreSafe
