SPECIFICATION Spec
CONSTANTS
    Owners = {w1, w2}
    NoOwner = NoOwner
    TTL = 1
    MaxDelay = 0
    StaleAfter = 1
    Enqueued = TRUE
    MaxCancels = 1
SYMMETRY Symmetry
INVARIANTS TypeOK RecordMatchesRow AckedCancelDurable OutcomeRecoverable
PROPERTIES NeverRevived CancelOutranksSuccess
