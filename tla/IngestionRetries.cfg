SPECIFICATION EitherSpec
CONSTANTS
    Keys = {k1, k2}
    Texts = {t1, t2}
    LabelSets = {l1, l2}
    Sources = {s1, s2}
    ManagementKeys = {m1, m2}
    MaxReceipts = 2
    None = None
    Terms = {w1, w2}
    Uses <- TwoUses
    n1 = n1
    n2 = n2
    Documents = {d1, d2, d3}
    Labelled = {d3}
    MinDocumentFrequency = 2
    MinBoundaryDiversity = 2
    MaxAverageOccurrences = 2
SYMMETRY Symmetry
CHECK_DEADLOCK FALSE
INVARIANTS
    OriginalResult
    GovernedStaysRefused
    ReadYourWrites
    SegmentedAlike
    VocabularyForgets
