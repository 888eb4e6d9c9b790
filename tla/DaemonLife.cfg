SPECIFICATION LifeSpec
CONSTANTS
    Scopes = {"k1", "k2"}
    Items = {"i1", "i2"}
    Budget = 1
    MaxRequests = 1
    MaxDays = 1
    MaxSpoiled = 1
CHECK_DEADLOCK FALSE
INVARIANTS StartupSound WorkKept
PROPERTIES StartupEnds HealingSound CallsAnswered SessionsKept DutiesApart DutiesEnd
