SPECIFICATION SysSpec
CONSTANTS
    NumRequests = 2
    Port = {7, 8}
    Requested <- MCRequested
    Gated = {1}
    Lifetime = {12}
    RetryBackoff = 2
    PollInterval = 1
    MaxCall = 1
    MaxFaults = 1
    MaxReboots = 1
PROPERTIES
    Converges
    GatedFollows
