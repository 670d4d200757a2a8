SPECIFICATION Spec
CONSTANTS
    Receipts = {r1, r2, r3}
    Records = {x1, x2}
    MaxAttempts = 1
    MaxRevisions = 2
    MaxContext = 1
    MaxOps = 1
    MaxCrashes = 0
    MaxLegacy = 2
    None = None
SYMMETRY Symmetry
CHECK_DEADLOCK FALSE
INVARIANTS
    ForgottenNeverServed
    ActiveIsFresh
    LeaseIsFresh
    CompletedIsGone
