SPECIFICATION FairWireSpec
CONSTANTS
    MaxPuts = 3
    MaxConnects = 3
    LaggingSender = FALSE
CHECK_DEADLOCK FALSE
INVARIANTS AcksIncrease CleanWithoutLoss
PROPERTIES ImplementsDelivery Flushes ThreadsGoOn
