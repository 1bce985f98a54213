CONSTANTS
    w1 = w1
    t1 = t1
    b1 = b1
    Workers = {w1}
    Tasks = {t1}
    BuildIds = {b1}
    Requests <- SomeRequests
    BatchSize = 2
    MaxTests = 2
    MaxUploads = 2
    ExecReports <- SomeReports
    Capacity = 1
    MaxRuns = 1
    UploadNames <- Names
SPECIFICATION Spec
INVARIANTS AcceptedOnItsTests AcceptedOnNothingOlder
PROPERTY KeepsPromise
CHECK_DEADLOCK FALSE
