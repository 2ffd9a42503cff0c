SPECIFICATION Spec
CONSTANTS
    InitialTimeout = 1
    MaxAttempts = 3
    Backoff <- MCBackoff
    MaxIgnored = 2
    CtxTimes <- MCCtxTimes
    Buffer = 2
    MaxMishaps = 4
INVARIANTS
    Paced
    WaitsItOut
    GivesUpOnlyWhenSilent
    AnswerMeansServed
    CancelStopsSending
PROPERTIES
    NeverPastDeadline
    Terminates
\* exchange returns, and nothing more happens.
CHECK_DEADLOCK FALSE
