SPECIFICATION Spec
CONSTANTS
    Locations = {"igd", "tv", "nas"}
    Router = "igd"
    Lans <- SomeLans
    NoTarget = notarget
    Timeout = 8
    Window = 2
    HTTPTimeout = 5
    Requests <- MCRequests
    Addresses = {lan1, lan2}
    Unknown = unknown
    MaxFaults = 3
INVARIANTS
    OpenIsRecorded
PROPERTIES
    Recreated
    PrefersNewest
    OverlooksNobody
