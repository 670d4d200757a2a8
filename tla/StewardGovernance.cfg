SPECIFICATION Spec
CONSTANTS
    Receipts = {r1, r2}
    Workers = {w1}
    Proposals = {p1}
    MaxAttempts = 2
    LeaseTicks = 1
    None = None
    MaxInFlight = 2
CONSTRAINT InFlightBound
SYMMETRY Symmetry
INVARIANTS
    StatusMirrorsJob
PROPERTY
    KeepsPromise
