\* No fault and no reboot: only a signal.
SPECIFICATION SysSpec
CONSTANTS
    NumRequests = 2
    Port = {7, 8}
    Requested <- MCRequested
    Gated = {1}
    Lifetime = {12}
    RetryBackoff = 2
    PollInterval = 1
    MaxCall = 1
    MaxFaults = 0
    MaxReboots = 0
INVARIANT
    CleanExitReleasesAll
