---------------------------- MODULE ScheduleTime ----------------------------
(***************************************************************************)
(* The time of schedules: when a schedule is active (schedule_is_active),   *)
(* until when (schedule_active_until), when it turns next                   *)
(* (next_tier2_site_schedule_boundary), for how long a list was active in   *)
(* an interval (rule_active_seconds_between, which charges its allowance),  *)
(* and how the total active time of a schedule is kept over calls and edits *)
(* (sync_schedule_activity_totals).                                         *)
(*                                                                          *)
(* Minutes count from a midnight, in one offset.  A day has DayLength of    *)
(* them and a week WeekLength days; the code's are 1440 and 7.              *)
(***************************************************************************)
EXTENDS Integers, FiniteSets, FiniteSetsExt, Absent, Sums

CONSTANTS
    DayLength, WeekLength,
    Schedules,      \* the schedules that Init takes from: sets of windows
    Edits,          \* the schedules that edits put in its place
    Detoxes,        \* sets of intervals in which the list is in a Detox
    RepairInterval, \* policy_repair_interval
    MaxMinute,      \* bound
    MaxEdits        \* bound

\* A window: its days of the week, its first minute, and the minute after its last one.
ScheduleWindow ==
    [days : SUBSET (0..WeekLength - 1), start : 0..DayLength - 1, end : 0..DayLength - 1]

ASSUME ScheduleAssumption ==
    /\ {DayLength, WeekLength, RepairInterval} \subseteq Nat \ {0}
    /\ {MaxMinute, MaxEdits} \subseteq Nat
    /\ \A windows \in Schedules \cup Edits :
          /\ windows \subseteq ScheduleWindow /\ IsFiniteSet(windows)
          /\ \A w \in windows : w.start # w.end
    /\ \A spans \in Detoxes : IsFiniteSet(spans) /\ spans \subseteq [from : Nat, to : Nat]
    /\ None \notin Int /\ None \notin [done : Int, from : Int, to : Int]
    /\ None \notin [total : Int, until : Int]

VARIABLES
    minute,     \* now
    schedule,   \* the windows of the schedule, None when it is deleted
    detox,      \* the Detox intervals of a list with this schedule
    totals,     \* schedule_activity_totals: [total, until]
    edits,      \* how many edits are left
    activeAt,   \* ghost: the minutes at which the schedule was active
    revived,    \* ghost: it was deleted and added again with its id
    overlapped  \* ghost: a window of it over midnight overlapped one of the next day

scheduleVars == <<minute, schedule, detox, totals, edits, activeAt, revived, overlapped>>
-------------------------------------------------------------------------------
(* Windows                                                                  *)

Day(t) == t \div DayLength
Weekday(day) == day % WeekLength
OfDay(t) == t % DayLength
Overnight(w) == w.start > w.end

\* Slip: a window still holds at its end.
InWindowInclusive(w, t) ==
    IF ~Overnight(w)
    THEN Weekday(Day(t)) \in w.days /\ OfDay(t) \in w.start..w.end
    ELSE \/ Weekday(Day(t)) \in w.days /\ OfDay(t) >= w.start
         \/ Weekday(Day(t) - 1) \in w.days /\ OfDay(t) <= w.end

InWindow(w, t) ==
    IF ~Overnight(w)
    THEN Weekday(Day(t)) \in w.days /\ OfDay(t) \in w.start..w.end - 1
    ELSE \/ Weekday(Day(t)) \in w.days /\ OfDay(t) >= w.start
         \/ Weekday(Day(t) - 1) \in w.days /\ OfDay(t) < w.end

IsActive(windows, t) == \E w \in windows : InWindow(w, t)

\* The interval of the window that begins on a day: its first minute and the one after it.
Span(w, day) == [from |-> day * DayLength + w.start,
                 to |-> (day + (IF Overnight(w) THEN 1 ELSE 0)) * DayLength + w.end]

SpansOfDay(windows, day) == {Span(w, day) : w \in {v \in windows : Weekday(day) \in v.days}}

\* window_active_until of each window, and the last of them
ActiveUntil(windows, t) ==
    LET Until(w) == IF Overnight(w) /\ OfDay(t) >= w.start /\ Weekday(Day(t)) \in w.days
                    THEN (Day(t) + 1) * DayLength + w.end
                    ELSE Day(t) * DayLength + w.end
        ends == {Until(w) : w \in {v \in windows : InWindow(v, t)}}
    IN  IF ends = {} THEN None ELSE Max(ends)

\* next_tier2_site_schedule_boundary looks at the windows that begin today or later.
Boundaries(windows, t) ==
    UNION {{s.from, s.to} :
              s \in UNION {SpansOfDay(windows, day) : day \in Day(t)..Day(t) + WeekLength + 1}}

\* Slip: the schedule's next start alone.
RepairDelayToStart(windows, detoxes, t) ==
    LET next == {b \in Boundaries(windows, t) : b > t /\ IsActive(windows, b)}
    IN  Min({RepairInterval} \cup {b - t : b \in next}
            \cup {d.to - t : d \in {e \in detoxes : e.from <= t /\ t < e.to}})

\* next_policy_repair_delay, while the clock is trusted
RepairDelay(windows, detoxes, t) ==
    LET next == {b \in Boundaries(windows, t) : b > t}
    IN  Min({RepairInterval} \cup {b - t : b \in next}
            \cup {d.to - t : d \in {e \in detoxes : e.from <= t /\ t < e.to}})
-------------------------------------------------------------------------------
(* Sums                                                                     *)

Clipped(spans, from, to) ==
    {s \in {[from |-> Max({span.from, from}), to |-> Min({span.to, to})] : span \in spans} :
        s.to > s.from}

\* The interval that begins last, and what it makes of those that begin no later, joined
\* where they touch: the length of those that are done with, and the one that may go on.
LastOf(spans) == CHOOSE s \in spans : \A other \in spans : other.from <= s.from

Join(joined, s) ==
    IF joined = None THEN [done |-> 0, from |-> s.from, to |-> s.to]
    ELSE IF s.from <= joined.to THEN [joined EXCEPT !.to = Max({@, s.to})]
    ELSE [done |-> joined.done + (joined.to - joined.from), from |-> s.from, to |-> s.to]

JoinedOf(S, joined) ==
    IF S = {} THEN None ELSE Join(joined[S \ {LastOf(S)}], LastOf(S))

\* The length of intervals, of which those that touch are joined.
MergedLength(spans) ==
    LET joined[S \in SUBSET spans] == JoinedOf(S, joined)
        all == joined[spans]
    IN  IF all = None THEN 0 ELSE all.done + (all.to - all.from)

\* Slip: the windows of the interval's own days alone.
RuleSecondsOwnDays(windows, detoxes, from, to) ==
    MergedLength(Clipped(detoxes \cup UNION {SpansOfDay(windows, day) : day \in Day(from)..Day(to)},
                         from, to))

\* rule_active_seconds_between: the windows of the day before too, all joined
RuleSeconds(windows, detoxes, from, to) ==
    MergedLength(Clipped(
        detoxes \cup UNION {SpansOfDay(windows, day) : day \in Day(from) - 1..Day(to)}, from, to))

\* schedule_active_seconds_between: the windows of each day joined, and the days added
ScheduleSeconds(windows, from, to) ==
    Total([n \in 1..Day(to) - Day(from) + 2 |->
              MergedLength(Clipped(SpansOfDay(windows, Day(from) - 2 + n), from, to))])

\* used_seconds_for_site_rule_on_day, of one visit
UsedOnDay(windows, detoxes, from, to, now) ==
    LET dayStart == Day(now) * DayLength
        first == Max({from, dayStart})
        last == Min({to, now, dayStart + DayLength})
    IN  IF last <= first THEN 0 ELSE RuleSeconds(windows, detoxes, first, last)

\* sync_schedule_activity_totals
Synced(old, windows, at) ==
    IF old = None THEN [total |-> 0, until |-> at]
    ELSE IF at <= old.until THEN old
    ELSE [total |-> old.total + ScheduleSeconds(windows, old.until, at), until |-> at]
-------------------------------------------------------------------------------
\* A window over midnight that is overlapped by one of the next day before its end.
OverlapsTomorrow(windows) ==
    \E w \in windows, v \in windows : \E day \in 0..WeekLength - 1 :
        /\ Overnight(w) /\ day \in w.days /\ Weekday(day + 1) \in v.days
        /\ v.start < w.end

ScheduleInit ==
    /\ minute = 0
    /\ schedule \in Schedules
    /\ detox \in Detoxes
    /\ totals = Synced(None, schedule, 0)
    /\ edits = MaxEdits
    /\ activeAt = {}
    /\ revived = FALSE
    /\ overlapped = OverlapsTomorrow(schedule)

PassMinute ==
    /\ minute < MaxMinute
    /\ minute' = minute + 1
    /\ activeAt' = IF schedule # None /\ IsActive(schedule, minute) THEN activeAt \cup {minute}
                   ELSE activeAt
    /\ UNCHANGED <<schedule, detox, totals, edits, revived, overlapped>>

\* schedule_activity_summary and the daemon's start; the time was sampled before the lock.
Summarize ==
    /\ schedule # None
    /\ \E at \in {minute, minute - 1} :
          at >= 0 /\ totals' = Synced(totals, schedule, at)
    /\ UNCHANGED <<minute, schedule, detox, edits, activeAt, revived, overlapped>>

\* persist_policy_config: the totals of the schedules before the edit and after it
EditSchedule(next) ==
    /\ edits > 0 /\ edits' = edits - 1
    /\ schedule # next
    /\ LET before == IF schedule = None THEN totals ELSE Synced(totals, schedule, minute)
       IN  totals' = IF next = None THEN before ELSE Synced(before, next, minute)
    /\ schedule' = next
    /\ revived' = (revived \/ schedule = None)
    /\ overlapped' = (overlapped \/ (next # None /\ OverlapsTomorrow(next)))
    /\ UNCHANGED <<minute, detox, activeAt>>

ScheduleNext ==
    PassMinute \/ Summarize \/ \E next \in Edits \cup {None} : EditSchedule(next)

ScheduleSpec == ScheduleInit /\ [][ScheduleNext]_scheduleVars
-------------------------------------------------------------------------------
(* Properties                                                               *)

Plan == IF schedule = None THEN {} ELSE schedule
InDetox(t) == \E d \in detox : t \in d.from..d.to - 1

\* Type invariant.  A total is never known ahead of time.
ScheduleTypeOK ==
    /\ minute \in 0..MaxMinute /\ edits \in 0..MaxEdits
    /\ schedule \in Schedules \cup Edits \cup {None} /\ detox \in Detoxes
    /\ totals.total \in 0..2 * minute /\ totals.until \in 0..minute
    /\ activeAt \subseteq 0..minute - 1 /\ revived \in BOOLEAN

\* The seconds that an allowance is charged for a visit (rule_active_seconds_between) are
\* those at which the list was active, by a window or a Detox, each of them once: over
\* midnight, over the end of the week, and with windows and Detoxes that overlap.
RuleSecondsExact ==
    \A from \in 0..minute :
        RuleSeconds(Plan, detox, from, minute) =
            Cardinality({t \in from..minute - 1 : IsActive(Plan, t) \/ InDetox(t)})

\* What a visit is charged today are its active seconds since midnight: midnight loses none,
\* and leaves none of yesterday's, whenever the visit began and ended.
DayChargeExact ==
    \A from \in 0..minute : \A to \in from..minute :
        UsedOnDay(Plan, detox, from, to, minute) =
            Cardinality({t \in from..to - 1 :
                            Day(t) = Day(minute) /\ (IsActive(Plan, t) \/ InDetox(t))})

\* Until the time that a block names as its end (schedule_active_until) the schedule is
\* active without a break, and a schedule that is active has one.
ActiveUntilIsSound ==
    LET until == ActiveUntil(Plan, minute)
    IN  /\ (until = None) = ~IsActive(Plan, minute)
        /\ until # None =>
              until > minute /\ \A t \in minute..until - 1 : IsActive(Plan, t)

\* Types, and what the windows give: the seconds an allowance is charged, over any
\* interval and over today's part of it, and the end a block names.
ScheduleInvariant ==
    ScheduleTypeOK /\ RuleSecondsExact /\ DayChargeExact /\ ActiveUntilIsSound

\* The repair loop never sleeps over a turn of the schedule or the end of a Detox, except
\* over the end of a window that began yesterday: those it finds after its interval.
RepairMeetsTurns ==
    LET wakes == minute + RepairDelay(Plan, detox, minute)
        Began(t) == \E w \in Plan : Span(w, Day(minute) - 1).to = t
    IN  \A t \in minute + 1..wakes - 1 :
            /\ IsActive(Plan, t) # IsActive(Plan, t - 1) => Began(t)
            /\ InDetox(t - 1) => InDetox(t) \/ \E d \in detox : d.from > minute

\* The total active time of a schedule is the time it was active, by the windows it had
\* then: over edits, calls whose sample of the time is late, and days without a call.
\* Left out are what the totals do not do: windows that overlap over midnight are counted
\* twice, and a schedule added again with its id is charged for the time between.
TotalIsExact ==
    ~revived /\ ~overlapped
    => totals.total = Cardinality({t \in activeAt : t < totals.until})

\* What the code's own test claims of the totals: overlaps are not counted twice
\* (schedule_activity_totals_accumulate_active_time_without_double_counting_overlaps).  It
\* does not hold for overlaps over midnight, as each day's windows are joined alone.
OverlapsCountOnce == ~revived => totals.total <= Cardinality(activeAt)
===============================================================================
