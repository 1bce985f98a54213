CONSTANTS
    p1 = p1
    p2 = p2
    n1 = n1
    n2 = n2
    Persons = {p1, p2}
    Names = {n1, n2}
    AccessTokenExpireMinutes = 1
    MaxUsers = 3
    MaxSolutions = 2
    MaxRestarts = 1
    MaxTime = 2
SPECIFICATION Spec
INVARIANT RightPasswordAccepted
CHECK_DEADLOCK FALSE
