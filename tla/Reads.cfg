SPECIFICATION AnySpec
CONSTANTS
    ConditionSets = {{}, {c}}
    Contexts = {{}, {c}}
    Intervals <- TouchingIntervals
    MaxTime = 3
    MaxRecords = 3
    MaxSequence = 8
    Unknown = Unknown
    Spaces = {s1, s2}
    Scopes = {{s1}, {s1, s2}}
    Limits = {1, 2}
    MaxChanges = 3
    MaxGenerations = 3
    Stored = {r1, r2, r3, r4}
    Derived = {x1, x2}
    Texts = {2, 4}
    Homes = {p, s}
    PrivateHomes = {p}
    ReceiptLimit = 3
    RecordLimit = 1
    Leftovers = {0, 1}
    FragmentLimits = {2}
    ByteLimits = {2, 5, 9, 40}
    a = a
    b = b
    e = e
    Evidence = {e, e1}
    Filings <- OneOrTwoSpaces
    NumRecords = 3
    SearchSpaces = {a, b}
    PageLimits = {1}
    MaxHeads = 2
SYMMETRY Symmetry
CHECK_DEADLOCK FALSE
INVARIANTS
    NoForkedTruth
    OneValuePerInstant
    RefreshIsEnough
    NoChangeSkipped
    NoChangeInvented
    ClassCoversEvidence
    CompleteUnlessSaid
    BudgetIsTight
    AnswersAreTrue
    LimitsAreSaid
PROPERTY
    EditsStayLocal
