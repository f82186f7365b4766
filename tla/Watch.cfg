SPECIFICATION MCSpec
CONSTANTS
    None = none
    chrome = chrome
    brave = brave
    Browsers = {chrome, brave}
    Generic = chrome
    Grace = 1
    MinStartup = 1
    Reconnect = 1
    Interval = 0
    StatusTimeout = 1
    SleepTime = 2
    MaxDelay = 0
    Setups <- MCSetups
    Scripts <- MCScripts
    Savable <- MCSavable
    Cooldown <- MCCooldown
    Ttl <- MCTtl
    Thresholds = {1}
    Full = 2
    BlockAge = 1
    Retry = 1
    DeliveredRetention = 3
    Limit = 2
    MaxRows = 2
    MaxDay = 0
INVARIANTS
    WatchInvariant ConnectedIsSpared SilentIsClosed
    OutboxInvariant
PROPERTIES TurnsAreTold
CHECK_DEADLOCK FALSE
