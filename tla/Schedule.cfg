SPECIFICATION Spec
CONSTANTS
    Owners = {w1, w2}
    NoOwner = NoOwner
    Loops = {l1, l2}
    NoLoop = NoLoop
    TTL = 2
    MaxDelay = 1
SYMMETRY Symmetry
INVARIANTS TypeOK RowsWellFormed GrantBackedByLease Exclusive HolderNeverRefused DispatchNeverSkips
PROPERTIES CancelSticky LiveLeaseKept ImplementsLease
