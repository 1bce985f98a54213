CONSTANTS
    w1 = w1
    w2 = w2
    s1 = s1
    t1 = t1
    b1 = b1
    Workers = {w1, w2}
    Sessions = {s1}
    Tasks = {t1}
    BuildIds = {b1}
    Requests <- SmallRequests
    BatchSize = 2
    MaxTests = 2
    MaxUploads = 2
SPECIFICATION Spec
SYMMETRY Symmetry
INVARIANTS TypeOK MetaCovered NoBlankTests AcceptedIsServed NoDuplicateDocs AnnouncedIsDefined
CHECK_DEADLOCK FALSE
