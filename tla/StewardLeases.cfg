SPECIFICATION FairSpec
CONSTANTS
    Receipts = {r1}
    Workers = {w1, w2}
    Proposals = {p1, p2}
    MaxAttempts = 2
    LeaseTicks = 1
    None = None
    MaxInFlight = 12
INVARIANTS
    AppliedOnce
    CompletedByLastLease
    AckedIsApplied
    PendingBelowCeiling
PROPERTY
    JobsSettle
