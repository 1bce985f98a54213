CONSTANTS
    MaxParts = 5
    MaxTest = 2
    MaxTests = 5
    MaxSize = 4
    BatchSize = 3
    Inputs <- SizeLists
    Requests <- AllRequests
SPECIFICATION HandleSpec
INVARIANTS TypeOK BatchesPartitionTests BatchesFit BatchesMaximal LoopIsSplit AcceptedIsExact
CHECK_DEADLOCK FALSE
