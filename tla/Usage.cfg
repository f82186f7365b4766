SPECIFICATION MCSpec
CONSTANTS
    None = none
    Tabs = {t1, t2}
    Metered = {m}
    Plain = plain
    Blocked = blocked
    Failed = Failed
    MaxClock = 2
    MaxMoves = 3
    MaxFaults = 1
    DayLength = 4
    WeekLength = 2
    Schedules <- MCSchedules
    Edits <- MCEdits
    Detoxes <- MCDetoxes
    RepairInterval = 3
    MaxMinute = 10
    MaxEdits = 1
    AppRules = {r1, r2}
    UsageDay = 3
    MaxUsage = 5
    MaxTurns = 4
INVARIANTS
    VisitsInvariant
    ScheduleInvariant RepairMeetsTurns TotalIsExact
    UsageInvariant
PROPERTIES WatchedIsMetered
CHECK_DEADLOCK FALSE
