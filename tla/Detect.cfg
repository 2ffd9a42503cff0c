SPECIFICATION Spec
CONSTANTS
    Configured = {0, 1, 2, 3}
    DefaultTimeout = 3
    Needs <- MCNeeds
    MaxLost = 1
INVARIANTS
    EachProbedInOrder
    PassedOverForAReason
    CancelEndsDetection
\* detect returns, and nothing more happens.
CHECK_DEADLOCK FALSE
