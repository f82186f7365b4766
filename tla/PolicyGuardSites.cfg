SPECIFICATION FairSpec
CONSTANTS
    S1 = S1  P1 = P1  BR = BR  Sch = Sch  Al = Al  E1 = E1  E2 = E2
    T1 = T1  T2 = T2  None = None
    SiteLists = {S1}
    AppLists = {}
    Schedules = {Sch}
    Allowances = {}
    Entries = {E1, E2}
    Threads = {T1, T2}
    SlotsPerDay = 2
    OperatorSlots <- FirstSlot
    KeyLength = 1
    DetoxLengths = {2}
    ListChoices <- SiteChoices
    WindowChoices <- WindowSets
    MinuteChoices = {}
    Imports <- SiteImports
    BlockBrowsers = TRUE
    BrowserRule = BR
    HardBrowserRule <- BrowserHard
    InitialPolicy <- SitePolicy
    MaxClock = 2
    MaxSessions = 1
INVARIANT TypeOK
PROPERTIES HostsCatchUp DetoxOnlyTightens EnforcementKept
CHECK_DEADLOCK FALSE
