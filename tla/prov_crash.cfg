SPECIFICATION Spec
CONSTANTS
    MaxAttempts = 3
    Cooldown = 3
    BootPolls = 4
    StopPause = 2
    TickPause = 1
    CpuSettings <- SetOrUnset
    Refusing <- Both
    Flaky <- Both
    Dead <- None
    MaxCrashes = 2
    MaxTears = 1
    MaxBreaks = 1
INVARIANTS
    TypeOK
    AttemptsAreStarts
    CpuIsFallback
    GpuBootsCapped
