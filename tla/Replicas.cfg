SPECIFICATION FairEntitiesSpec
CONSTANTS
    x = x
    y = y
    k1 = k1
    k2 = k2
    none = none
    Values <- TwoValues
    Keys <- TwoKeys
    NoValue = none
    Master = "rider"
    MaxChanges = 4
    MaxLength = 3
    MaxBindings = 3
    MaxPayloads = 1
CHECK_DEADLOCK FALSE
INVARIANTS PropertiesConverge MapsSettle ListsConverge SetsConverge
PROPERTIES FallsSilent BoundGetConnected
