SPECIFICATION PluginSpec
CONSTANTS
    MaxConnections = 3
    MaxChunks = 2
    Settings <- SomeSettings
    RiderModes <- SomeModes
    InitialModes <- StrayModes
    MaxInputs = 3
CHECK_DEADLOCK FALSE
INVARIANTS ModelOutlivesItsViews EditorIsShown
PROPERTIES ViewsFollowConnections EveryRequestAnswered
