SPECIFICATION Spec
CONSTANT
    MaxTokens = 5
INVARIANT
    Reconcilable
CHECK_DEADLOCK FALSE
