SPECIFICATION FairSpec
CONSTANTS
    Receipts = {r1, r2}
    Records = {x1, x2}
    MaxAttempts = 2
    MaxRevisions = 2
    MaxContext = 2
    MaxOps = 2
    MaxCrashes = 2
    MaxLegacy = 0
    None = None

CHECK_DEADLOCK FALSE
INVARIANTS
    NothingLeftToSettle
PROPERTIES
    OnlyDeletionErases
    RecoveryFinishes
