SPECIFICATION Spec
CONSTANTS
    S1 = S1  P1 = P1  BR = BR  Sch = Sch  Al = Al  E1 = E1  E2 = E2
    T1 = T1  T2 = T2  None = None
    SiteLists = {}
    AppLists = {P1, BR}
    Schedules = {Sch}
    Allowances = {Al}
    Entries = {E1, E2}
    Threads = {T1}
    SlotsPerDay = 2
    OperatorSlots <- FirstSlot
    KeyLength = 1
    DetoxLengths = {2}
    ListChoices <- AppChoices
    WindowChoices <- WindowSets
    MinuteChoices = {1, 2}
    Imports <- AppImports
    BlockBrowsers = TRUE
    BrowserRule = BR
    HardBrowserRule <- BrowserHard
    InitialPolicy <- AppPolicy
    MaxClock = 2
    MaxSessions = 1
PROPERTIES DetoxOnlyTightens EnforcementKept
CHECK_DEADLOCK FALSE
