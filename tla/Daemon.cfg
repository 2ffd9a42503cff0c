SPECIFICATION Spec
CONSTANTS
    NumRequests = 2
    Port = {7, 8}
    Requested <- MCRequested
    Gated = {1}
    Lifetime = {1, 6}
    RetryBackoff = 2
    PollInterval = 1
INVARIANTS
    TypeOK
    NothingForgotten
    ExitAccounts
    IdleRetriedSoon
PROPERTIES
    NoneStarved
    ShutdownCompletes
