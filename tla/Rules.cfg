SPECIFICATION MCSpec
CONSTANTS
    None = none
    RuleChoices <- Rules
    AppRuleLists <- MCAppRuleLists
    MaxRules = 3
    t1 = t1
    t2 = t2
    s1 = s1
    s2 = s2
    a1 = a1
    a2 = a2
    games = games
    shared = shared
    own = own
    steam = steam
    Programs = {steam}
    Matching <- MCMatching
    SiteLists = {s1, s2}
    AppLists = {a1, a2}
    AppNames = {games}
    NameOf <- MCNameOf
    Urls = {shared, own}
    Fit <- MCFit
    ListOrder <- MCOrder
    Reasons = {"r1", "r2"}
    Threads = {t1, t2}
    UnlockLength = 2
    Hour = 2
    ListChoices <- Records
    InitialLists <- FirstLists
    MaxClock = 3
    MaxEdits = 2
    Daemon = daemon
    Tools = {}
    MaxDrift = 1
    MaxBackwardReboot = 2
    Duration = 5
    Adjustments <- MCAdjustments
    MaxPause = 1
    MaxTime = 5
    MaxAdjustments = 2
    MaxReboots = 1
    MaxChecks = 3
    Grants = {g}
    MaxKills = 2
    MaxPolicyEdits = 1
    yes = yes
    Keys <- MCKeys
    Managed <- MCManaged
    Parent <- MCParent
    Root = "policies"
    Ours = ours
    Absent = absent
    Missing = missing
    NoBackup = nobackup
    UserMay <- Shares
    Legacy = TRUE
    EmptyObjects = FALSE
    Tasks = {task}
    MaxUserEdits = 3
    MaxRemovals = 2
    MaxTaskLosses = 2
INVARIANTS
    WalksAgree UnlockOpensTheReported
    UnlocksInvariant ClockInvariant MigrationInvariant
PROPERTIES
    OpensItsListsAlone DetoxHeld RevokedStaysRevoked ImplementsOverlay
SYMMETRY Symmetry
CHECK_DEADLOCK FALSE
