SPECIFICATION Spec
CONSTANTS
    Locations = {"igd", "tv", "nas"}
    Router = "igd"
    Lans <- TwoLans
    NoTarget = notarget
    Timeout = 8
    Window = 2
    HTTPTimeout = 5
    Requests <- OnlyWeb
    Addresses = {lan1, lan2}
    Unknown = unknown
    MaxFaults = 1
PROPERTY
    Recreated
