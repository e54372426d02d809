CONSTANTS
    n1 = n1  n2 = n2  n3 = n3  a1 = a1  a2 = a2  d1 = d1  d2 = d2
    Names = {n1, n2, n3}
    Updates = {a1}
    Deletes = {d1, d2}
    MaxFailures = 1
SPECIFICATION Spec
INVARIANTS TypeOK NoOrphans
PROPERTY DeletedIsFinal
CHECK_DEADLOCK FALSE
