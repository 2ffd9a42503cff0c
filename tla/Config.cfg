SPECIFICATION Spec
CONSTANTS
    Ports = {0, 1, 2}
    Configs <- MCConfigs
INVARIANTS
    AcceptedHasDistinctPorts
    ForwardsAsConfigured
PROPERTY
    Decides
\* Validate returns, and without interfaces nothing more happens.
CHECK_DEADLOCK FALSE
