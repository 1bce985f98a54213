CONSTANTS
    s1 = s1
    s2 = s2
    i1 = i1
    i2 = i2
    Submissions = {s1, s2}
    Instances = {i1, i2}
    Results <- SomeReports
    MaxFaults = 2
SPECIFICATION Spec
SYMMETRY Symmetry
INVARIANTS TypeOK NothingLost ResultFromRows StoredOncePerDelivery
CHECK_DEADLOCK FALSE
PROPERTY KeepsLifecycle
