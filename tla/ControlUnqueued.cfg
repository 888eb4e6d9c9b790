SPECIFICATION Spec
CONSTANTS
    Owners = {w1, w2}
    NoOwner = NoOwner
    TTL = 1
    MaxDelay = 0
    StaleAfter = 1
    Enqueued = FALSE
    MaxCancels = 0
SYMMETRY Symmetry
INVARIANTS RecordMatchesRow
PROPERTIES NeverRevived
