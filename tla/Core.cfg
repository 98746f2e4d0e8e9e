SPECIFICATION CoreSpec
CONSTANTS
    root = root
    view = view
    leaf = leaf
    main = main
    reader = reader
    plain = plain
    viewer = viewer
    one = one
    two = two
    early = early
    late = late
    left = left
    right = right
    Watchers <- TwoWatchers
    ItemKeys <- TwoKeys
    MaxChanges = 3
    MaxItems = 2
    Scopes <- ThreeScopes
    Root = root
    Workers <- TwoWorkers
    MaxOpenings = 2
    Listeners <- TwoListeners
    Views <- OneView
    Settings <- TwoSettings
    Unset = unset
    MaxSets = 3
CHECK_DEADLOCK FALSE
INVARIANTS OpenedIsClosed HearsLast ViewsMirror
PROPERTIES NestedEnd PriorityHearsFirst
