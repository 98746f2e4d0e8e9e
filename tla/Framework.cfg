SPECIFICATION FrameworkSpec
CONSTANTS
    signal = signal
    call = call
    ext = ext
    Entities <- AnEntityOfEachKind
    Scheduler <- SchedulerOfEach
    MaxMessages = 4
    MaxBinds = 2
    Capacity = 3
    PackageSize = 2
    MaxPackages = 2
    MaxPings = 1
CHECK_DEADLOCK FALSE
INVARIANTS ExecutedInOrder NothingLost
PROPERTIES EventuallyExecuted ArrivesUnlessBothFlood
