----------------------------- MODULE BrowserWatch -----------------------------
(***************************************************************************)
(* Strict mode's watch over the browsers (focusd/src/app.rs, rpc.rs): each  *)
(* scan closes a managed browser whose extension has been silent for too    *)
(* long.  A launch gets a startup grace, and a browser that was connected   *)
(* gets one reconnect window after the daemon was away.                     *)
(*                                                                          *)
(* A scan reads /proc without the core lock, judges what it read under it   *)
(* and signals after it.  Heartbeats, launches, pauses and restarts of the  *)
(* daemon come in between.  The browsers are those of one family, so one    *)
(* setting (strict) requires all of them.  Events that are only logged are  *)
(* left out.                                                                *)
(***************************************************************************)
EXTENDS Integers, FiniteSetsExt, Absent

CONSTANTS
    Browsers,
    Generic,       \* the member an extension reports when it cannot tell: Chrome, Firefox
    Grace,         \* strict_mode.grace_seconds
    MinStartup,    \* MIN_BROWSER_STARTUP_HEARTBEAT_GRACE_SECONDS
    Reconnect,     \* BROWSER_RECONNECT_GRACE_SECONDS
    Interval,      \* between two scans
    StatusTimeout, \* extension_heartbeat_timeout_seconds
    SleepTime,     \* how long the machine sleeps
    MaxDelay,      \* bound: time a heartbeat call takes
    Setups         \* installations and bounds, see setup

ASSUME BrowserWatchAssumption ==
    /\ IsFiniteSet(Browsers) /\ Generic \in Browsers /\ None \notin Nat
    /\ Grace \in Nat /\ MinStartup \in Nat /\ Reconnect \in Nat /\ Interval \in Nat
    /\ StatusTimeout \in Nat /\ SleepTime \in Nat /\ MaxDelay \in Nat
    /\ Setups \subseteq [installed : SUBSET Browsers, confined : BOOLEAN, otherRules : BOOLEAN,
                        time : Nat, launches : Nat, troubles : Nat]

VARIABLES
    time,       \* wall: guarded_now; mono: Instant::now, which stands still in sleep
    opened,     \* the launch of each running browser: its number and its time
    beat,       \* a heartbeat call between its sample of the time and its write
    heartbeat,  \* the row of each extension component: last_seen_at
    session,    \* the row session_started_at of each browser
    grace,      \* BrowserReconnectGrace, in the daemon's memory
    strict,     \* kill_supported_browser_if_extension_stale, and the extension is required
    trusted,    \* the clock guard's state is not "tampered"
    watch,      \* the scan in progress
    setup,      \* installed: the browsers there are; confined: policy repair, and the
                \* watch, wait for the first heartbeat; otherRules: scans run without
                \* strict mode too.  Bounds: time, and the launches and troubles (restarts,
                \* sleeps and switches) that are left
    ghost       \* own: the last heartbeat under the launch's own name
                \* deferredFrom, silentFrom: the first judgement that deferred it, or that
                \* found it silent and not deferred, since it reported or was found healthy

watchVars == <<time, opened, beat, heartbeat, session, grace, strict, trusted, watch, setup, ghost>>
tables == <<heartbeat, session>>

NoRows == [b \in Browsers |-> None]
Started == [lastScan |-> None, healthy |-> {}, window |-> NoRows]
NotWatching == [at |-> "idle", seen |-> NoRows, kills |-> {}]

WatchInit ==
    /\ time = [wall |-> 0, mono |-> 0]
    /\ opened = NoRows /\ beat = NoRows
    /\ heartbeat = NoRows /\ session = NoRows
    /\ grace = Started
    /\ strict = TRUE /\ trusted = TRUE
    /\ watch = NotWatching
    /\ setup \in Setups
    /\ ghost = [own |-> NoRows, deferredFrom |-> NoRows, silentFrom |-> NoRows]

Running == {b \in Browsers : opened[b] # None}
StartupGrace == Max({Grace, MinStartup})
-------------------------------------------------------------------------------
(* Heartbeats: extension_heartbeat                                          *)

\* Slip: a generic report is counted for any browser of the family that runs.
ResolvedByGuess(reported) ==
    IF reported = Generic /\ \E b \in Running : b # Generic
    THEN CHOOSE b \in Running : b # Generic
    ELSE reported

\* An extension reports its browser, or what it takes itself for.
Reports(b) == {b, Generic}

\* The component a heartbeat counts for: a generic report is taken for the only
\* browser of the family that runs, if there is just one.
Resolved(reported) ==
    IF reported = Generic /\ Cardinality(Running) = 1
    THEN CHOOSE b \in Running : TRUE
    ELSE reported

\* The call samples the time, then looks for the browsers that run.
SampleBeat(b, reported) ==
    /\ b \in Running /\ beat[b] = None
    /\ reported \in Reports(b)
    /\ beat' = [beat EXCEPT ![b] = [at |-> time.wall, component |-> Resolved(reported),
                                    mine |-> reported = b, launch |-> opened[b].number]]
    /\ UNCHANGED <<time, opened, tables, grace, strict, trusted, watch, setup, ghost>>

Connected(g, b, c) ==
    [own |-> IF beat[b].mine /\ opened[b] # None /\ opened[b].number = beat[b].launch
             THEN [g.own EXCEPT ![b] = beat[b].at] ELSE g.own,
     deferredFrom |-> [g.deferredFrom EXCEPT ![c] = None],
     silentFrom |-> [g.silentFrom EXCEPT ![c] = None]]

\* upsert_heartbeat overwrites the row with the time the call sampled.
WriteBeat(b) ==
    /\ beat[b] # None
    /\ heartbeat' = [heartbeat EXCEPT ![beat[b].component] = beat[b].at]
    /\ beat' = [beat EXCEPT ![b] = None]
    /\ ghost' = Connected(ghost, b, beat[b].component)
    /\ UNCHANGED <<time, opened, session, grace, strict, trusted, watch, setup>>
-------------------------------------------------------------------------------
(* One scan: scan_processes_once                                            *)

\* A scan with nothing to enforce returns before it reads /proc.  At most one scan
\* judges in a unit of time.
ReadBrowsers ==
    /\ watch.at = "idle"
    /\ grace.lastScan # time.mono
    /\ strict \/ setup.otherRules
    /\ watch' = [NotWatching EXCEPT !.at = "read", !.seen = opened]
    /\ UNCHANGED <<time, opened, beat, tables, grace, strict, trusted, setup, ghost>>

Seen(b) == watch.seen[b] # None
Current(b) == heartbeat[b] # None /\ session[b] # None /\ heartbeat[b] >= session[b]
Healthy(b) == Current(b) /\ time.wall - heartbeat[b] <= Grace

FirstScan == grace.lastScan = None
Interrupted == ~FirstScan /\ time.mono - grace.lastScan > Max({Grace, 2 * Interval})

\* A fresh heartbeat of this session, not older than the window, closes it.
Reconnected(b) == Healthy(b) /\ heartbeat[b] >= grace.window[b].start

Recovering(b) == \/ FirstScan /\ Current(b)
                 \/ Interrupted /\ b \in grace.healthy

\* Slip: another gap extends a window that is open.
WindowExtended(b) ==
    IF ~Seen(b) \/ ~strict \/ (grace.window[b] # None /\ Reconnected(b)) THEN None
    ELSE IF (Interrupted /\ grace.window[b] # None) \/ (Recovering(b) /\ ~Healthy(b))
    THEN [start |-> time.wall, deadline |-> time.mono + Reconnect]
    ELSE grace.window[b]

\* An outstanding or expired window is never extended.
WindowAfter(b) ==
    IF ~Seen(b) \/ ~strict THEN None
    ELSE IF grace.window[b] # None THEN IF Reconnected(b) THEN None ELSE grace.window[b]
    ELSE IF Recovering(b) /\ ~Healthy(b)
    THEN [start |-> time.wall, deadline |-> time.mono + Reconnect]
    ELSE None

HealthyAfter(b) ==
    Seen(b) /\ strict /\ IF grace.window[b] # None THEN Reconnected(b) ELSE Healthy(b)

GraceAfter == [lastScan |-> time.mono,
               healthy |-> {b \in Browsers : HealthyAfter(b)},
               window |-> [b \in Browsers |-> WindowAfter(b)]]

DeferredBrowsers ==
    {b \in Browsers : WindowAfter(b) # None /\ time.mono <= WindowAfter(b).deadline}

\* strict_browser_unhealthy_reason: a heartbeat of an earlier session counts as none.
Unhealthy(b, start) ==
    IF heartbeat[b] # None /\ heartbeat[b] >= start
    THEN time.wall - heartbeat[b] > Grace
    ELSE time.wall - start > StartupGrace

\* Slip: each judgement starts a browser without a heartbeat anew.
SessionRestarted(b) ==
    IF session[b] = None \/ ~Current(b) THEN time.wall ELSE session[b]

SessionStart(b) == IF session[b] = None THEN time.wall ELSE session[b]

\* What the judgement defers and what it closes.
Deferred == IF trusted THEN DeferredBrowsers ELSE {}
Unconnected == IF setup.confined THEN {b \in Browsers : heartbeat[b] = None} ELSE {}
WatchedBrowsers == IF strict THEN Browsers \ (Deferred \cup Unconnected) ELSE {}

KillList == {b \in WatchedBrowsers : Seen(b) /\ Unhealthy(b, SessionStart(b))}

\* A silent browser that nothing defers.
Silent(b) == trusted /\ b \in WatchedBrowsers /\ Seen(b) /\ ~Healthy(b)
First(now, since) == IF since = None THEN now ELSE since

JudgeBrowsers ==
    /\ watch.at = "read"
    /\ grace' = IF trusted THEN GraceAfter ELSE grace
    /\ session' = [b \in Browsers |-> IF b \notin WatchedBrowsers THEN session[b]
                                      ELSE IF Seen(b) THEN SessionStart(b) ELSE None]
    /\ watch' = IF KillList = {} THEN NotWatching
               ELSE [watch EXCEPT !.at = "judged", !.kills = KillList]
    /\ ghost' = [ghost EXCEPT
          !.deferredFrom = [b \in Browsers |->
              IF b \in Deferred THEN First(time.mono, @[b])
              ELSE IF Healthy(b) THEN None ELSE @[b]],
          !.silentFrom = [b \in Browsers |->
              IF Silent(b) THEN First(time.mono, @[b]) ELSE None]]
    /\ UNCHANGED <<time, opened, beat, heartbeat, strict, trusted, setup>>

\* SIGTERM to each judged process: one that is gone is skipped, one may ignore it.
KillProcesses ==
    /\ watch.at = "judged"
    /\ \E ended \in SUBSET {b \in watch.kills : opened[b] = watch.seen[b]} :
         opened' = [b \in Browsers |-> IF b \in ended THEN None ELSE opened[b]]
    /\ watch' = NotWatching
    /\ UNCHANGED <<time, beat, tables, grace, strict, trusted, setup, ghost>>
-------------------------------------------------------------------------------
(* The browsers, the machine and the daemon's process                       *)

Launch(b) ==
    /\ b \in setup.installed /\ opened[b] = None /\ setup.launches > 0
    /\ setup' = [setup EXCEPT !.launches = @ - 1]
    /\ opened' = [opened EXCEPT ![b] = [number |-> setup.launches, since |-> time.wall]]
    /\ ghost' = [own |-> [ghost.own EXCEPT ![b] = None],
                 deferredFrom |-> [ghost.deferredFrom EXCEPT ![b] = None],
                 silentFrom |-> [ghost.silentFrom EXCEPT ![b] = None]]
    /\ UNCHANGED <<time, beat, tables, grace, strict, trusted, watch>>

Close(b) ==
    /\ opened[b] # None
    /\ opened' = [opened EXCEPT ![b] = None]
    /\ UNCHANGED <<time, beat, tables, grace, strict, trusted, watch, setup, ghost>>

\* A call is not held up for longer than MaxDelay.
InTime(elapsed) ==
    /\ time.wall + elapsed <= setup.time
    /\ \A b \in Browsers : beat[b] # None => time.wall + elapsed - beat[b].at <= MaxDelay

Tick ==
    /\ InTime(1)
    /\ time' = [wall |-> time.wall + 1, mono |-> time.mono + 1]
    /\ UNCHANGED <<opened, beat, tables, grace, strict, trusted, watch, setup, ghost>>

Sleep ==
    /\ InTime(SleepTime) /\ setup.troubles > 0
    /\ setup' = [setup EXCEPT !.troubles = @ - 1]
    /\ time' = [time EXCEPT !.wall = @ + SleepTime]
    /\ UNCHANGED <<opened, beat, tables, grace, strict, trusted, watch, ghost>>

\* The tables survive; the grace, the scan and the calls under way do not.
RestartDaemon ==
    /\ setup.troubles > 0
    /\ setup' = [setup EXCEPT !.troubles = @ - 1]
    /\ grace' = Started /\ watch' = NotWatching /\ beat' = NoRows
    /\ ghost' = [ghost EXCEPT !.deferredFrom = NoRows, !.silentFrom = NoRows]
    /\ UNCHANGED <<time, opened, tables, strict, trusted>>

\* The settings are edited, or the clock guard changes its mind.
Switch ==
    /\ setup.troubles > 0
    /\ setup' = [setup EXCEPT !.troubles = @ - 1]
    /\ \/ strict' = ~strict /\ UNCHANGED trusted
       \/ trusted' = ~trusted /\ UNCHANGED strict
    /\ UNCHANGED <<time, opened, beat, tables, grace, watch, ghost>>

WatchNext ==
    \/ \E b \in Browsers, reported \in Browsers : SampleBeat(b, reported)
    \/ \E b \in Browsers : WriteBeat(b) \/ Launch(b) \/ Close(b)
    \/ ReadBrowsers \/ JudgeBrowsers \/ KillProcesses
    \/ Tick \/ Sleep \/ RestartDaemon \/ Switch

WatchSpec == WatchInit /\ [][WatchNext]_watchVars
-------------------------------------------------------------------------------
(* What the dashboard says: browser_extension_status_json                   *)

Status(b) ==
    IF b \notin Running THEN "inactive"
    ELSE IF ~Current(b)
    THEN IF session[b] = None \/ time.wall - session[b] <= StartupGrace
         THEN "starting" ELSE "missing"
    ELSE IF time.wall - heartbeat[b] <= StatusTimeout THEN "active" ELSE "stale"
-------------------------------------------------------------------------------
(* Correctness                                                              *)

Times == [Browsers -> Nat \cup {None}]
Launches == [Browsers -> [number : Nat, since : Nat] \cup {None}]
Beats == [at : Nat, component : Browsers, mine : BOOLEAN, launch : Nat]
Windows == [start : Nat, deadline : Nat]

\* Types, and no scan closes what it has not read.
WatchTypeOK ==
    /\ time \in [wall : Nat, mono : Nat]
    /\ opened \in Launches
    /\ beat \in [Browsers -> Beats \cup {None}]
    /\ heartbeat \in Times /\ session \in Times
    /\ grace \in [lastScan : Nat \cup {None}, healthy : SUBSET Browsers,
                 window : [Browsers -> Windows \cup {None}]]
    /\ strict \in BOOLEAN /\ trusted \in BOOLEAN
    /\ watch \in [at : {"idle", "read", "judged"}, seen : Launches, kills : SUBSET Browsers]
    /\ watch.kills \subseteq {b \in Browsers : Seen(b)}
    /\ setup \in [installed : SUBSET Browsers, confined : BOOLEAN, otherRules : BOOLEAN,
                 time : Nat, launches : Nat, troubles : Nat]
    /\ ghost \in [own : Times, deferredFrom : Times, silentFrom : Times]

Judging == watch.at = "read"

\* A browser whose extension reported under its own name in this launch is not
\* closed within the grace of that report, whatever other browsers of the family
\* report, in whichever order the reports are written, and whatever pause,
\* restart or change of settings comes in between.
ConnectedIsSpared ==
    Judging => \A b \in KillList :
        opened[b] = watch.seen[b] /\ ghost.own[b] # None
            => time.wall - ghost.own[b] > Grace - MaxDelay

\* However often scans are held up, from the first scan that defers a browser
\* until its extension is heard again, or a scan that does not defer it finds it
\* healthy, the deferral lasts one reconnect window.
OneWindow ==
    Judging => \A b \in Deferred :
        ghost.deferredFrom[b] # None => time.mono - ghost.deferredFrom[b] <= Reconnect

\* A browser that scans keep finding silent, and do not defer, is closed once a
\* startup grace is over; deferral itself is bounded by OneWindow, so no mix of
\* pauses, launches and windows spares a browser without its extension.
SilentIsClosed ==
    Judging => \A b \in {c \in Browsers : Silent(c) /\ ghost.silentFrom[c] # None} :
        time.mono - ghost.silentFrom[b] > StartupGrace => b \in KillList

\* The dashboard and the scan agree: what it calls starting or not running is not
\* about to be closed, and what it calls missing is, unless it is deferred.
StatusAgrees ==
    Judging /\ strict /\ opened = watch.seen => \A b \in Browsers :
        /\ b \in KillList => Status(b) \notin {"inactive", "starting"}
        /\ Status(b) = "missing" => b \in KillList \cup Deferred \cup Unconnected

\* Types, and how long a browser may be deferred, and that the dashboard knows of it.
WatchInvariant == WatchTypeOK /\ OneWindow /\ StatusAgrees

\* Docs/FEATURES.md: "Initial browser startup allows at least 60 seconds".
StartupIsAllowed ==
    Judging => \A b \in KillList :
        opened[b] = watch.seen[b] => time.wall - opened[b].since > StartupGrace
===============================================================================
