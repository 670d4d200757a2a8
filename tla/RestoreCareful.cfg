SPECIFICATION Spec
CONSTANTS
    Writes = {w1, w2}
    MaxGeneration = 5
    RollbackAnytime = FALSE
    None = None
INVARIANTS
    NothingLost
    TokensNeverMisread
