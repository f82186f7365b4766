SPECIFICATION PersistenceSpec
CONSTANTS
    p = p
    q = q
    shipped = shipped
    shippedWithRule = shippedWithRule
    Daemon = daemon
    Tools = {}
    Policies <- MCPolicies
    WithBrowserRule <- MCWithBrowserRule
    Baseline = shipped
    Accepted = {p}
    None = none
    NoFile = nofile
    NoPolicy = nopolicy
    Immutable = TRUE
    Fresh = FALSE
    MaxEdits = 1
    MaxRuns = 0
    MaxDbFailures = 0
    MaxFileFailures = 1
    MaxCrashes = 1
    MaxLosses = 1
PROPERTIES NoIntermediatePolicy
CHECK_DEADLOCK FALSE
