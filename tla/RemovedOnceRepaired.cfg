SPECIFICATION Spec
CONSTANTS
    Scopes = {k1}
    Items = {i1}
    Budget = 1
    MaxRequests = 1
    MaxDays = 1
    MaxSpoiled = 0
CHECK_DEADLOCK FALSE
INVARIANTS RemovedOnceRepaired
