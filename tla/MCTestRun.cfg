CONSTANTS
    Answers = {"", "a"}
    ExecReports <- AllReports
    Capacity = 1
    MaxBatches = 2
    MaxBatchTests = 2
    MaxRuns = 2
SPECIFICATION Spec
INVARIANTS TypeOK OKWasRun AcceptedIsComplete
PROPERTY KeepsPromise
CHECK_DEADLOCK FALSE
