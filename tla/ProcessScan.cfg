SPECIFICATION ScanSpec
CONSTANTS
    Pids = {3, 4, 5}
    Systemd = 1
    Self = 2
    Programs <- MCPrograms
    AppPolicies <- MCPolicies
    None = none
    MaxStarts = 3
INVARIANT ScanInvariant
PROPERTIES BlockedIsSignalled
CHECK_DEADLOCK FALSE
