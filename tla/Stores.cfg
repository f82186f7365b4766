SPECIFICATION MCSpec
CONSTANTS
    None = none
    p = p
    q = q
    shipped = shipped
    shippedWithRule = shippedWithRule
    Daemon = daemon
    Tools = {tool}
    Policies <- MCPolicies
    WithBrowserRule <- MCWithBrowserRule
    Baseline = shipped
    Accepted = {p}
    NoFile = nofile
    NoPolicy = nopolicy
    Immutable = TRUE
    Fresh = TRUE
    MaxEdits = 2
    MaxRuns = 1
    MaxDbFailures = 1
    MaxFileFailures = 1
    MaxCrashes = 2
    MaxLosses = 1
    Diagnostics = {d1, d2, bad}
    Invalid = {bad}
    QueueLength = 2
    BatchSize = 2
    Retention = 0
    MaxDays = 1
    MaxOwnEvents = 2
    MaxMishaps = 3
    social = social
    news = news
    focus = focus
    chrome = chrome
    edge = edge
    Loop = loop
    Clients = {client}
    Browsers <- MCBrowsers
    Deferred = {edge}
    Patterns <- MCPatterns
    Allowlists = {focus}
    Hard = {social}
    Scheduled = {news, focus}
    Detoxed = {news, focus}
    UrlLimit = 2
    Changes <- MCChanges
    MaxTurns = 1
    MaxAsks = 2
    MaxTroubles = 1
INVARIANTS
    PersistenceInvariant EventInvariant
PROPERTIES
    RestartsWhereItStood ComesBack
    CountedOnce LogCatchesUp QueueDrains
    ChangesWereOpen PolicyCatchesUp
CHECK_DEADLOCK FALSE
