CONSTANTS
    TimeLimits = {1, 2}
    MemoryLimits = {1}
    Peaks = {1}
    MsPerSecond = 2
    KbPerMb = 2
    Cores = 1
    IntHalf = 64
    MaxSeconds = 6
SPECIFICATION Spec
INVARIANT LimitIsInSeconds
CHECK_DEADLOCK FALSE
