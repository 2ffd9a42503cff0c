SPECIFICATION Spec
CONSTANTS
    Base = 64
    Second = 2
    Calls <- MCCalls
    DefaultLease = 120
    ClientAddress <- Bytes4
    Nonce <- MCNonce
    Ports <- MCPorts
    Lifetimes <- MCLifetimes
    Externals <- MCExternals
INVARIANTS
    UnderstoodAsMeant
    LeaseIsWhatWasGranted
    GoodAnswerTaken
\* A call returns.
CHECK_DEADLOCK FALSE
