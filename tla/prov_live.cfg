SPECIFICATION FairSpec
CONSTANTS
    MaxAttempts = 3
    Cooldown = 3
    BootPolls = 4
    StopPause = 2
    TickPause = 1
    CpuSettings <- OnlySet
    Refusing <- Cpu
    Flaky <- Gpu
    Dead <- Gpu
    MaxCrashes = 2
    MaxTears = 0
    MaxBreaks = 0
INVARIANT HalfBootedGpuIsStopped
PROPERTIES
    CooldownKept
    JobsAreSent
