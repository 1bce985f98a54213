CONSTANTS
    s1 = s1
    s2 = s2
    i1 = i1
    i2 = i2
    Submissions = {s1, s2}
    Instances = {i1, i2}
    Results <- OneReport
    MaxFaults = 1
SPECIFICATION Spec
PROPERTY Consumed
CHECK_DEADLOCK FALSE
