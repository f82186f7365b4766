------------------------------ MODULE AppUsage ------------------------------
(***************************************************************************)
(* How the time of metered applications is counted: the sessions that each  *)
(* scan of the processes opens, keeps and ends (scan_processes_once,        *)
(* sync_app_usage_sessions), and what an allowance is charged for them      *)
(* (used_seconds_for_app_rule_between).                                     *)
(***************************************************************************)
EXTENDS Integers, Sequences, FiniteSets, SequencesExt, FiniteSetsExt, Absent, Sums

CONSTANTS
    AppRules,   \* the app lists with an allowance
    UsageDay,   \* how many ticks a day has
    MaxUsage,   \* bound: ticks
    MaxTurns    \* bound: applications that start or end, suspensions, crashes

ASSUME UsageAssumption ==
    /\ UsageDay \in Nat \ {0} /\ {MaxUsage, MaxTurns} \subseteq Nat
    /\ IsFiniteSet(AppRules) /\ None \notin Nat

VARIABLES
    instant,
    inUse,      \* the lists a process counts against (metered_app_rule_ids_for_process)
    daemon,     \* "up", "suspended" (enforcement is not active, or no list is left), "down"
    sessions,   \* app_usage_sessions, in the order of their ids
    turns,      \* how many changes are left
    scanned,    \* ghost: the lists the last scan saw in use, None until a daemon's first scan
    counted,    \* ghost: for each list, the ticks after a scan that saw it in use
    blind       \* ghost: the lists whose session was open while nobody looked

usageVars == <<instant, inUse, daemon, sessions, turns, scanned, counted, blind>>

Turns == turns > 0 /\ turns' = turns - 1

UsageInit ==
    /\ instant = 0
    /\ inUse = {}
    /\ daemon = "up"
    /\ sessions = <<>>
    /\ turns = MaxTurns
    /\ scanned = None
    /\ counted = [rule \in AppRules |-> {}]
    /\ blind = {}
-------------------------------------------------------------------------------
(* The database                                                             *)

OpenIds(rows) == {id \in DOMAIN rows : rows[id].end = None}
OpenRules(rows) == {rows[id].rule : id \in OpenIds(rows)}

\* close_duplicate_open_app_usage_sessions: all but the last of each list
Deduplicated(rows) ==
    [id \in DOMAIN rows |->
        IF id \in OpenIds(rows) /\ \E later \in OpenIds(rows) :
                                      later > id /\ rows[later].rule = rows[id].rule
        THEN [rows[id] EXCEPT !.end = rows[id].lastSeen] ELSE rows[id]]

\* Slip: a session ends when it was last seen.
EndedAtSeen(rows, rules, now) ==
    [id \in DOMAIN rows |->
        IF id \in OpenIds(rows) /\ rows[id].rule \in rules
        THEN [rows[id] EXCEPT !.end = rows[id].lastSeen] ELSE rows[id]]

\* end_open_app_usage_session, end_open_app_usage_sessions
EndedAt(rows, rules, now) ==
    [id \in DOMAIN rows |->
        IF id \in OpenIds(rows) /\ rows[id].rule \in rules
        THEN [rows[id] EXCEPT !.end = now, !.lastSeen = now] ELSE rows[id]]

\* sync_app_usage_sessions
SyncedUsage(rows, rules, now) ==
    LET single == Deduplicated(rows)
        open == OpenRules(single)
        kept == [id \in DOMAIN single |->
                    IF id \in OpenIds(single) /\ single[id].rule \in rules
                    THEN [single[id] EXCEPT !.lastSeen = now] ELSE single[id]]
        new == SetToSeq(rules \ open)
        begun == [n \in DOMAIN new |-> [rule |-> new[n], start |-> now, lastSeen |-> now,
                                        end |-> None]]
    IN  EndedAt(kept \o begun, open \ rules, now)

\* What a session lasted of the day that begins at from.
LengthOn(row, from, now) ==
    LET begin == Max({row.start, from})
        end == Min({IF row.end = None THEN now ELSE row.end, now, from + UsageDay})
    IN  IF end > begin THEN end - begin ELSE 0

DayOf(now) == (now \div UsageDay) * UsageDay

\* used_seconds_for_app_rule_between, for the day of now
UsedToday(rule, rows, now) ==
    Total([id \in DOMAIN rows |->
              IF rows[id].rule = rule THEN LengthOn(rows[id], DayOf(now), now) ELSE 0])
-------------------------------------------------------------------------------
\* scan_processes_once, what it does to the sessions
ScanUsage ==
    /\ daemon # "down"
    /\ sessions' = IF daemon = "suspended" THEN EndedAt(sessions, AppRules, instant)
                   ELSE SyncedUsage(sessions, inUse, instant)
    /\ scanned' = IF daemon = "suspended" THEN {} ELSE inUse
    /\ UNCHANGED <<instant, inUse, daemon, turns, counted, blind>>

\* A tick counts for the lists that the last scan saw in use.
UsageTick ==
    /\ instant < MaxUsage
    /\ instant' = instant + 1
    /\ counted' = IF scanned = None THEN counted
                  ELSE [rule \in AppRules |-> IF rule \in scanned THEN counted[rule] \cup {instant}
                                              ELSE counted[rule]]
    /\ blind' = IF scanned = None THEN blind \cup OpenRules(sessions) ELSE blind
    /\ UNCHANGED <<inUse, daemon, sessions, turns, scanned>>

\* An application starts or ends, or a list is added, changed or removed.
Use(rule) ==
    /\ Turns
    /\ inUse' = IF rule \in inUse THEN inUse \ {rule} ELSE inUse \cup {rule}
    /\ UNCHANGED <<instant, daemon, sessions, scanned, counted, blind>>

\* The daemon stops, by a crash or not, and starts; enforcement is suspended and resumed.
Become(state) ==
    /\ Turns /\ state # daemon
    /\ daemon' = state
    /\ scanned' = IF state = "down" THEN None ELSE scanned
    /\ UNCHANGED <<instant, inUse, sessions, counted, blind>>

UsageNext ==
    \/ ScanUsage \/ UsageTick
    \/ \E rule \in AppRules : Use(rule)
    \/ \E state \in {"up", "suspended", "down"} : Become(state)

UsageSpec == UsageInit /\ [][UsageNext]_usageVars
-------------------------------------------------------------------------------
(* Properties                                                               *)

Today == {t \in 0..MaxUsage : t \div UsageDay = instant \div UsageDay}

\* Type invariant.  A list has at most one open session.
UsageTypeOK ==
    /\ instant \in 0..MaxUsage /\ inUse \subseteq AppRules /\ turns \in 0..MaxTurns
    /\ daemon \in {"up", "suspended", "down"} /\ blind \subseteq AppRules
    /\ \A id \in DOMAIN sessions :
          /\ sessions[id].rule \in AppRules /\ sessions[id].start <= sessions[id].lastSeen
          /\ sessions[id].end \in {None, sessions[id].lastSeen}
    /\ \A id \in OpenIds(sessions), other \in OpenIds(sessions) :
          sessions[id].rule = sessions[other].rule => id = other

\* An allowance is charged today's ticks after a scan that saw its list in use, each of
\* them once, over midnight, suspensions and processes that come and go between scans; left
\* out are lists whose session was open while the daemon was down.
ScannedIsCharged ==
    \A rule \in AppRules \ blind :
        UsedToday(rule, sessions, instant) = Cardinality(counted[rule] \cap Today)

\* Types, and an allowance is charged the time scans have seen.
UsageInvariant == UsageTypeOK /\ ScannedIsCharged

\* What the features promise: a list's time is counted while one of its processes runs
\* (Docs/FEATURES.md).  It does not hold of a stop of the daemon: a session that was open
\* is charged up to the first scan after it, be it the next morning.
OnlyRunningIsCharged ==
    daemon = "up" => \A rule \in AppRules :
        UsedToday(rule, sessions, instant) <= Cardinality(counted[rule] \cap Today)
===============================================================================
