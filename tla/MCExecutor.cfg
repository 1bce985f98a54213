CONSTANTS
    TimeLimits = {0, 1, 2, 3, 4}
    MemoryLimits = {1}
    Peaks = {1, 3, 5}
    MsPerSecond = 2
    KbPerMb = 2
    Cores = 2
    IntHalf = 16
    MaxSeconds = 10
SPECIFICATION Spec
INVARIANTS TypeOK  PenaltyIsDue NoSurvivors
PROPERTY ExecutorEnds
CHECK_DEADLOCK FALSE
