SPECIFICATION Spec
CONSTANTS
    Key = {tcp80, udp53}
    Wanted = {tcp80}
    Nonce = {1, 2, 3, 4, 5}
    NoNonce = 0
    MaxFaults = 3
INVARIANTS
    NonceKept
    RefusedForAnOrphan
PROPERTIES
    Regained
    KeepsItsPromise
