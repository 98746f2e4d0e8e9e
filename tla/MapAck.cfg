SPECIFICATION EntitiesSpec
CONSTANTS
    x = x
    y = y
    k1 = k1
    k2 = k2
    none = none
    Values <- TwoValues
    Keys <- TwoKeys
    NoValue = none
    Master = "rider"
    MaxChanges = 2
    MaxBindings = 1
    MaxPayloads = 1
    MaxLength = 3
INVARIANT AcksAreExpected
CHECK_DEADLOCK FALSE
