SPECIFICATION Spec
CONSTANTS
    Port = 1
    SocketRows <- MCSocketRows
    RouteRows <- MCRouteRows
    Garbled = garbled
    Unspecified = unspecified
    Length <- MCLength
    MaxChanges = 2
INVARIANTS
    ListenerAnswer
    BestRoute
    FailsForAReason
\* A scan ends.
CHECK_DEADLOCK FALSE
