SPECIFICATION Spec
CONSTANTS
    Writes = {w1, w2}
    MaxGeneration = 5
    RollbackAnytime = TRUE
    None = None
INVARIANT
    NoneAckedWhileEligible
