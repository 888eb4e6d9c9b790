SPECIFICATION FreshSpec
CONSTANTS
    Owners = {w1, w2}
    NoOwner = NoOwner
    Loops = {l1}
    NoLoop = NoLoop
    TTL = 2
    MaxDelay = 1
SYMMETRY Symmetry
PROPERTIES CancelBeatsRetry
