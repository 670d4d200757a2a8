SPECIFICATION EitherSpec
CONSTANTS
    MaxTokens = 5
    a = a
    b = b
    i = i
    p = p
    s = s
    q = q
    v1 = v1
    v2 = v2
    g1 = g1
    g2 = g2
    h = h
    m = m
    Realms = {a, b}
    Identities = {i}
    Spaces = {p, s, q}
    Views = {v1, v2}
    Grants = {g1, g2}
    Principals = {h}
    Actors = {m}
    LabelSets = {l1, l2}
    Receipts = {r1, r2}
    Capabilities = {c1, c2}
    Requests <- SmallRequests
    OperationSets <- SmallOperationSets
    Lifetimes = {1}
    MaxTime = 2
    MaxRotations = 1
    None = None
SYMMETRY Symmetry
CHECK_DEADLOCK FALSE
INVARIANTS
    RecoversFromStops
    RetiredStaysOut
    NothingCrosses
PROPERTY
    AuthorityNeverReturns
