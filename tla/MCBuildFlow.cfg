CONSTANTS
    r1 = r1
    r2 = r2
    r3 = r3
    r4 = r4
    n1 = n1
    n2 = n2
    Requests = {r1, r2, r3, r4}
    Names = {n1, n2}
    MaxRows = 3
SPECIFICATION Spec
SYMMETRY Symmetry
INVARIANTS TypeOK OneTaskPerName ScriptsOfTheirRow ListedIsUsable CreatedIsShown
CHECK_DEADLOCK FALSE
