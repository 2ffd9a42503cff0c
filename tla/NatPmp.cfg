SPECIFICATION SysSpec
CONSTANTS
    NumRequests = 2
    Port = {7, 8}
    Requested <- MCRequested
    Gated = {1}
    Lifetime = {24, 25}
    RetryBackoff = 2
    PollInterval = 1
    MaxCall = 1
    MaxFaults = 1
    MaxReboots = 1
INVARIANTS
    RecordedIsInstalled
    OpenIsRecorded
PROPERTIES
    PortKept
    KeepsItsPromise
