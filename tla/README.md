# BlocKuntu: TLA+ specifications and proofs

BlocKuntu blocks websites and applications on a Linux desktop according to a
policy its owner has made hard to weaken. A root daemon, `blockuntud`, keeps the
policy and its history in SQLite; browser extensions ask it about every
navigation through a native-messaging relay; a Tauri application edits the
policy over a Unix socket; the daemon also scans processes, writes a block into
`/etc/hosts` and puts managed policies into the browsers. Everything a
restriction depends on (the time, the database, three kinds of shared file, the
package manager's cooperation during an uninstall) may change or fail between
two steps of the daemon. These modules say what has to hold then.

## 1. Inventory

Paths are relative to the repository. "Hazards" of `PROJECT.json` lists the
lines where each part is hard to test.

| Part | State | Operations | What makes it correct |
| --- | --- | --- | --- |
| Structured edits (`focusd/src/rpc.rs`) | the policy in memory, Detox sessions, the edit key, the access mode | upserts and deletes of lists, rules, allowances, schedules; target updates; import; Detox start; key; access mode | what is active can only be tightened without the key, what is in a Detox only tightened at all; the policy stays valid |
| Hosts file (`focusd/src/hosts.rs`, `app.rs`) | the managed block | repair after some edits, at intervals and boundaries, removal | catches up with the policy |
| Uninstall handoff (`rpc.rs`, `app.rs`, `focus-gui/src-tauri`, `scripts/`) | lifecycle state and its end, lease file and token, shared files | prepare, cancel, the package's check, removal | no removal against a Detox; enforcement returns if the removal does not come |
| Managed Firefox policies (`firefox_policy.rs`) | document, backup | repair, removal | the user's settings are kept under BlocKuntu's and come back |
| Private browsing, Chromium policies (`chrome_policy.rs`, `rpc.rs`) | mode, scope and access; one policy file per browser and a temporary name | settings, repairs by the loop, a Detox and requests | the files follow the settings; settings change only when they may |
| Decisions (`focus-core/src/policy.rs`) | none; reads policy, grants, usage | `evaluate_url`, `evaluate_app`, metering | blocks iff a rule blocks; names the right one |
| Manual unlocks (`policy.rs`, `db.rs`) | grants and the lists they open | request, revocation with a policy replacement, end | one in a rolling hour; opens its lists alone |
| Persistence (`rpc.rs`, `app.rs`, `policy_recovery.rs`) | database, recovery snapshot, its immutable attribute, lock | an edit's write/commit/rollback, a start | a start finds the policy of the last answer |
| Clock guard (`clock_guard.rs`) | last sample and latched state in the database | a check with every use of the time | a Detox lasts its time; no false alarm; the latch holds |
| Database upgrades (`db.rs`) | tables, half-rebuilt tables | create, copy, drop, rename, backfill, normalize | a start serves the stored policy or refuses; revoked grants stay revoked |
| Browser reconnect grace (`app.rs`) | windows, eligibility, last scan, heartbeat and session rows | heartbeat, scan, judge, kill | a connected browser is spared, a silent one closed, a window given once |
| Process scan (`process_scan.rs`, `app.rs`) | the picture of `/proc`, the list of pids | read, judge by four rules, signal pid by pid | spares itself and what it started; each listed process is answered for |
| Notification outbox (`db.rs`, `rpc.rs`, the application's loop) | rows, attempts, lifecycle states, preferences | enqueue, poll, display, result, expire | shown once, nothing turned off, no turn of a schedule forgotten |
| Event log and diagnostics (`db.rs`, `rpc.rs`, `background.ts`) | rows, totals, text log; the extension's queue and its stored copy | record, retain, batch, answer | counted once, none lost, the log catches up |
| Visits (`background.ts`, `rpc.rs`, `db.rs`) | the extension's visits and pending starts, rows | start, heartbeat, end | a tab's time is charged once, and only in front |
| Application sessions (`app.rs`, `db.rs`) | open and closed sessions | scan, close, crash | what a scan saw is charged, once |
| Schedules (`policy.rs`, `db.rs`, `app.rs`) | windows, activity totals | is it active, until when, next boundary, active seconds, totals over edits | exact over midnight and the end of the week |
| Relay, extensions, GUI, packaging, test harness | mostly none | calls into the above | out of scope, or an actor of another module |

How they interact. Each client of the socket has a task; three loops (repair,
process scan, notifications) and a retention loop run beside them. They share
`FocusCore` behind one mutex, the *core lock*, which a handler takes more than
once: `guarded_now` samples the time and checks the clock in one hold, the body
of the handler runs in another. The shared files are written without it. A
second process, `blockuntud repair-hosts`, is started by systemd when
`/etc/hosts` changes and opens the same database and snapshot. The package
manager's hooks read the lease file and stop the services.

## 2. Modules

| Module | Models | Abstract view |
| --- | --- | --- |
| `PolicyGuard` | the policy RPCs with the sampled time of each call, Detox, edit key, hosts repair | |
| `PolicyGuardProofs`, `UninstallHandoffProofs`, `PolicyPersistenceProofs` | theorems on the module each is named for (section 4) | |
| `RulesProofs` | theorems on what is decided: `DecisionCheck` and `Unlocks`, by the same walks, and `ClockGuard` | |
| `BrowserPolicyProofs` | theorems on `MergedPolicy` and `PrivateBrowsing`, which write the browsers' policies | |
| `DatabaseProofs` | theorems on what the database keeps: `EventLog`, `Migration`, `NotificationOutbox` | |
| `ObservationProofs` | theorems on what is observed: `BrowserWatch`, `ProcessScan`, and the time of `AppUsage`, `Visits` and `ScheduleTime` | |
| `Induction` | lemmas on sets of naturals from which the others' inductions follow | |
| `UninstallHandoff` | the protected uninstall with every lock release, repair passes, crashes, the package's side | |
| `MergedPolicy` | repair and removal of the shared browser policy, file operation by file operation | `PolicyOverlay` |
| `Decision`, `DecisionCheck` | the engine's walks as operators; every small policy against a reference | definitions in `DecisionCheck` |
| `Unlocks` | requests with the check and the insert apart, policy replacement | |
| `PolicyPersistence` | an edit and a start against database, snapshot and lock | |
| `ClockGuard` | a check of the clock row by row, in daemon and tool | |
| `Migration` | the upgrade of an older database, statement by statement, and the policy a start reads from it | |
| `BrowserWatch` | heartbeats, the scan's judgement of each managed browser, the reconnect window, two clocks | |
| `ProcessScan` | the picture of `/proc`, the four rules, the signals | |
| `NotificationOutbox` | what queues a notification, the outbox, the application's delivery loop | |
| `EventLog` | rows, totals and text log, retention, the extension's queue of diagnostics | |
| `PrivateBrowsing` | the settings of private windows and the writes of each browser's policy file | |
| `Visits` | the extension's visits to a metered website and the rows the daemon keeps | |
| `ScheduleTime` | activity, boundaries and active seconds of windows, the totals through edits | sets of minutes |
| `AppUsage` | sessions of metered applications | sets of ticks |
| `Sums` | the sum of a query's rows, for `AppUsage`, `Visits` and `ScheduleTime` | |
| `Absent` | the value `None` of an optional field | |

An `MC` module gives the constants that are not plain values in a `.cfg`. Modules
that do not interact share a run: `MCRules`, `MCStores`, `MCWatch` and `MCUsage`
extend several, a variable `part` says which of them a behaviour is of, and the
others stay as they began. A property of a module thus speaks of the behaviours
of its part, and fairness is stated of each part's own steps.

The modules meet at named places: `PolicyGuard` takes a commit as one step, which
`PolicyPersistence` takes apart; `UninstallHandoff` reduces a managed file to a
bit, whose content is `MergedPolicy` or `PolicyGuard!HostsFor`, and protected
access to the set of times it is open, which is `PolicyGuard!AccessOpen`;
`Decision` takes "unlocked", "active" and "used" as inputs, which `Unlocks`,
`ScheduleTime`, and `Visits` and `AppUsage` produce; a scan judges managed browsers
by `BrowserWatch` and everything else by `ProcessScan`, for which the first is one
bit (`policy.stale`); the clock's "tampered" is an input of `EventLog` and
`PrivateBrowsing`.

A module's main invariant is the conjunction of its types with the safety
properties named in it (`WatchInvariant == WatchTypeOK /\ OneWindow /\ StatusAgrees`).

### PolicyGuard

`policy` is the daemon's `Config` reduced to lists (website lists and application
rules alike), schedules with the slots of a day their windows cover, and
allowances with their minutes. `request[t]` is the time a task has sampled with
`guarded_now`; `Begin(t)` takes it, and each RPC is one action of a task that
has one: its guard is the handler's checks in order, its effect is
the handler's effect, its repair of the hosts file included where the code has
one (`RepairedHosts`: list edits, deletes, imports and Detox starts; not upserts
of schedules, rules and allowances). `Reject` is the answer of an error. Times
are slots, so "active at `now`" is membership.

- `DetoxOnlyTightens`: no edit weakens a list, an allowance or the schedules of
  a Detox that runs, with the key or without.
- `EnforcementKept`: without the key no edit weakens what is active.
- `HostsCatchUp` (liveness): the block comes to hold what the policy asks.
- `DetoxListsRemain`: refuted, see section 5.

`DetoxOnlyTightens` and `EnforcementKept` judge an edit by the time it sampled,
which is what the code can know; `DetoxListsRemain` judges by the time it runs.

### UninstallHandoff

`prepare_uninstall` is `Authorize`, `Grant` and a `RemoveFile` per file, since
the core lock is dropped between; a repair of a file is `CheckFile` and
`WriteFile`, since `enforcement_is_active` is asked under the lock and the file
written outside it. `HandoffActive` and `LeaseAccepted` are the two expiries, in
ticks and in whole seconds (`Second` ticks to a second). `failures` covers failing
writes and crashes; `package` the hooks.

- `RemovalRespectsDetox`: no removal goes ahead over a Detox that ran when the
  uninstall was asked for.
- `HandoffInvariant`: a client's token stands for a handoff the database knows of.
- `EnforcementReturns` (liveness): a handoff without a removal ends in enforcement.
- What they leave out on purpose (the Detox of a later instant, the rest of the
  lease's last second, a late write of a repair) is in section 5.

### MergedPolicy and PolicyOverlay

A document is a function from settings to values, some of them inside an object.
A repair is `BeginRepair` (read), `EnsureBackup`, `WriteMerged`; a removal is
`BeginRemoval`, `ReadDocument`, `WriteRestored`, `ForgetBackup`; `LoseTasks`, a crash,
may come anywhere. The refinement maps `engaged` to "a backup exists" and `user` to what a
removal would write now, so that a backup that is lost, recorded twice, or made
from BlocKuntu's own values changes `user` in a step that is not an edit.
The run has one task and no edit that empties an object (`Tasks`,
`EmptyObjects`): without either limit `ImplementsOverlay` fails, see section 5.

### Decision, DecisionCheck, Unlocks

A rule is what the walks of `policy.rs` ask of it for one address at one time. The
walks are over places of the list in policy order: a loop that returns at the first
match is the least place of those it would stop at (`First`), and one that replaces its
match by a stricter one is a recursive function of the place it has come to
(`KeptOf`). `DecisionCheck` builds every list of up to three rules from 39 record
shapes, which have the fields their tier looks at, and compares each walk with one
line over the *set* of rules: `WalksAgree` for the verdict, the rule it names and
what is metered, `UnlockOpensTheReported` for the list an unlock is spent on.

What an unlock opens is decided by two kinds of list. A target that is the name of
application lists opens those of Tier 3 that are active (`NamedLists`). Any other, a URL
or an executable, goes through the website lists as a URL and through the application
lists as an executable (`UnlockRule`), and an application list in allowlist mode matches
every target it has no matcher for (`app_rule_target_matches`). So a running Detox with
such a list refuses an unlock for a URL that only a website list of Tier 3 blocks
(`policy.rs:641`), and an application list may be opened for a URL that no website list
has to do with. `UnlockOpensTheReported` is about every list of website rules with each
of `AppRuleLists`, the application rules as they may see the URL: what a block of Tier 3
named is what is opened unless a Detox has a matching application list, and an
application list is opened only where no website list of Tier 3 is active and no
application list of Tier 1 or 2 blocks.

`Unlocks` keeps grants, the lists each opens and which are revoked; a request is
`Sample` and a body with an older time. `UnlocksInvariant` bounds grants in every
rolling hour (`OneAnHour`) though the clock moves between the sample and the body,
and says a recreated list inherits nothing (`UnlocksEndWithTheirList`);
`OpensItsListsAlone` says that a grant opens just what the lists whose targets the
request matched were alone in blocking.

### PolicyPersistence

One process is one entry of `proc`: a start (`TakeLock`, `Open`, `LoadPolicy`,
`AddBrowserRule`, the three steps of a snapshot write, `Loaded`) or, in the
daemon, an edit (`TakeLock`, `SyncTotals`, the write, `Commit`, and on failure the
write of the old policy). The write is `Clear` (stage, clear `+i`), `Rename`,
`Protect` (set `+i`, sync), each of which may fail as the code's `?` has it.
`standing` is a ghost: what a client may expect after a restart, namely the
policy of the last answer or, with an edit unanswered, either of two.
`Crash` releases the lock, as closing the file does.

- `RestartsWhereItStood`: memory after a start is one of `standing`, unless a step
  on the snapshot failed and the database was lost too.
- `PersistenceInvariant`: between edits the snapshot is the database's policy.
- `ComesBack` (liveness): once there is a snapshot the daemon always gets back to
  enforcing. Before it, a first start that dies after creating the database leaves
  a state no later start accepts.
- `NoIntermediatePolicy` is refuted: it is the case the first property excepts.

### ClockGuard

`clock` is boot, uptime and wall clock; `Adjust` sets the latter, `Elapse` moves
both. A check is `SampleWall`, `SampleUptime`, `ReadState`, `ReadWall`, `Store`:
the order of the code's statements, with nothing between processes but SQLite's
own transactions.

- `DetoxHeld`: within the boot it began in, a check that does not enforce a Detox
  comes within (checks since its start) x `MaxDrift`, and one hold, of one of its
  ends. With 300 seconds and
  a check every few seconds that is no small amount, and it is what the code
  gives: each sample is compared only with the one before.
- `ClockInvariant`: with a clock nobody sets the state stays `ok` (`NoFalseAlarm`).
- `LatchHolds` is refuted with a tool.

### Migration

`statement` walks `Program`, the statements `migrate_database` executes in order; each
commits by itself, and `Stop` (a crash) may come between any two. A table is absent
or has rows and either CHECK; the four that are rebuilt go through the
intermediate names of the code (`allowances_new`, `windows_old`, ...), and
`CheckShape` skips what is not needed. `Load` reads, normalizes and validates the
policy as a start does, `Replace` is an edit. Initial states are the mixtures of
tables that older versions left.

- `MigrationInvariant`: a start serves the policy that was stored or refuses to
  (`WholeOrRefused`), and without a crash it succeeds and leaves nothing of the
  rebuilding (`UndisturbedUpgrades`).
- `RevokedStaysRevoked`: the backfill of grants brings back nothing an edit revoked.

### BrowserWatch

`time` has a wall and a monotonic clock, of which the second stands still while the
machine sleeps (`Sleep`). A heartbeat is `SampleBeat` and `WriteBeat`, since
`guarded_now` and the body take the lock apart; a scan is `ReadBrowsers` (no lock),
`JudgeBrowsers` (under it: the windows of `BrowserReconnectGrace`, the session
rows, the list) and `KillProcesses`. `Launch` and `Close` come between, as do
`RestartDaemon` and `Switch` (strict mode and the clock guard's verdict).

- `ConnectedIsSpared`: a browser whose extension reported in this launch is not
  closed within the grace of that report.
- `SilentIsClosed`, `WatchInvariant`: a silent one is, and what defers it lasts one
  window, until it is heard again or a scan that does not defer it finds it healthy
  (`OneWindow`); the dashboard agrees with the scan (`StatusAgrees`).

Two things the model shows about the code and no property forbids: a suspended
machine leaves no gap on the monotonic clock, so waking gives no window; and while a
window defers a browser its session row is not written, so a startup grace can
follow the window. `SilentIsClosed` counts from the first scan that does not defer.

### ProcessScan

`scan` holds the picture (`ReadProcesses`), the judged pids with their event kinds
(`Judge`: `ByBlocklist`, `ByAllowlist`, `Unsupported`, `ByStrictMode`, with
`Exempt` and the walk up from it, `DescendsFromAny`) and the pids that are left; `Kill` signals
one by its number, whatever has it by then. `StartProcess` and `EndProcess` hand
children to init. A browser has an installation BlocKuntu manages and one it does not
(`ManagedBrowser`, `UnsupportedBrowser`): the code tells the second by its path
(or its desktop id) only for the rule on unsupported installations, and for strict mode
goes by the names both share, so strict mode closes both (`IsManaged`).

- `ScanInvariant`: BlocKuntu's own processes and what they started are spared by the
  application rules, each judged pid has one outcome, an allowlist names one process.
- `BlockedIsSignalled` (liveness): a process a rule matches is signalled or ends.

### NotificationOutbox

The daemon's handlers are actions whose effect may stop after any of their
statements, which is a crash there (`Block`, `Sync`, `StartDetox`, `EditPolicy`,
`SetPreferences`); `client` is `deliver_pending_notifications`: poll, show, record,
with calls that fail before or after they took effect. Ages count in minutes and
saturate where no comparison distinguishes more.

- `OutboxInvariant`: nothing is shown twice unless the report of its display was
  lost, lies within its cooldown of an equal event that was told, or waits though it was
  turned off. The cooldown counts either way (`NoRepetition`): an event whose display
  failed may be shown after a later equal one, which a lifetime of ten minutes and a
  cooldown of one allow. Delivered rows are kept for longer than any cooldown, as the
  code's seven days are.
- `TurnsAreTold`: the state of a schedule is never noted without its notification.

### EventLog

`writer[p]` is what the daemon or the tool does: append the line of a row that is
committed, or retain (`Maintain`/`Retain`: delete rows, read the rest, replace the
file). `Queue`, `PersistQueue`, `Flush`, `TimeOut` and `RestartWorker` are the
extension's side; `Receive` and `Work` serve `record_diagnostics`, which may record
a part of a batch and fail.

- `EventInvariant`: totals cover everything that was recorded, and a diagnostic that
  left the queue is recorded, rejected, or was given up to a full queue.
- `CountedOnce`: a batch sent again after a lost answer adds nothing.
- `LogCatchesUp`, `QueueDrains` (liveness).

### PrivateBrowsing

A write is open, write, rename, one browser after the other, from settings computed
under the lock before; the temporary name is shared by all tasks of the process, so
`holds[a]` says what a task's descriptor has become: the temporary file, a file that
bears the policy's name by now, or one that is gone. Requests sample their instant
and store the setting in two steps.

- `PolicyCatchesUp` (liveness): torn files, old settings put over new ones, and
  failures are undone by a later pass.
- `ChangesWereOpen`: a setting changes only in answer to a request during which there
  was an instant with a trusted clock and no website allowlist active, by the policy as
  it is when the setting is stored. `during[c]` keeps what the world was since the
  request of `c` came.

### Visits, ScheduleTime, AppUsage

`Visits`: `extension` is the worker's maps (`active`, `pending`, the tokens of
navigations) and the calls on their way; `Handle` is the daemon's side of a call,
`Receive` what the worker does with the answer, by what it knows then. A tick is a
heartbeat's interval. `VisitsInvariant`: rows of a tab do not overlap
(`TabChargedOnce`), and a tab whose visits the extension knows of is charged no more
than it was watched (`KnownChargeWasWatched`); `WatchedIsMetered` (liveness): a page
that stays in front gets its visit.

`ScheduleTime`: the code's arithmetic of windows over a day of four minutes and a
week of two days, compared with sets of minutes. `ScheduleInvariant`: the seconds
charged and the end a block names are exact; `RepairMeetsTurns`: the repair loop does
not sleep over a turn, but for windows that began yesterday; `TotalIsExact`: the kept
total through edits and late samples.

`AppUsage`: `ScanUsage` opens, extends and closes sessions, `Become` suspends or stops
the daemon. `UsageInvariant`: an allowance is charged what scans have seen.

## 3. Runs

All passing runs explore every reachable state of their instance.

| Run | Checks | Bounds, and why they are enough |
| --- | --- | --- |
| `policy_guard_sites` | `TypeOK`, `DetoxOnlyTightens`, `EnforcementKept`, `HostsCatchUp` | one website list, a schedule, two rows, two tasks (an edit and a Detox that overlap), three instants over a two-slot day, one Detox; five list records: each tier, disabled, attached, allowlist; the repair loop fair |
| `policy_guard_apps` | `DetoxOnlyTightens`, `EnforcementKept` | an application rule with an allowance beside the rule on browsers, one task: edits of the allowance and imports |
| `policy_guard_stale_now` | refutes `DetoxListsRemain` | the first instance |
| `uninstall_safety` | `HandoffInvariant`, `RemovalRespectsDetox` | two clients (an uninstall and a Detox, or two uninstalls), two leases, one failing step or crash; the hosts file alone |
| `uninstall_returns` | `EnforcementReturns` | one client, all three kinds of file, one deferred to a heartbeat, one failure |
| `rules` | `WalksAgree`, `UnlockOpensTheReported`; `UnlocksInvariant`, `OpensItsListsAlone`; `ClockInvariant`, `DetoxHeld`; `MigrationInvariant`, `RevokedStaysRevoked`; `ImplementsOverlay` | *walks*: every list of up to three rules, and since they compare pairs a third is one more than they can tell apart, each with seven lists of application rules (none; one that is not active before one that is; a Tier 3 rule in a Detox with a rule of Tier 1 or 2 that does or does not hold). *Unlocks*: two lists of each kind that share an address or a name, the second of the application lists in allowlist mode, two tasks, four instants with an hour of two, two edits, two first policies. *Clock*: the daemon, three checks, two settings of the clock, a reboot, a Detox of five seconds, corrections of one and jumps of eight, tolerance one: a jump over the whole Detox and a chain of small steps. *Upgrade*: every mixture of older tables, two crashes, one edit, one grant. *Merged*: four settings, one of each kind (policy key, inside each object, unmanaged), three edits, two removals, two crashes, legacy documents |
| `stores` | `PersistenceInvariant`, `RestartsWhereItStood`, `ComesBack`; `EventInvariant`, `CountedOnce`, `LogCatchesUp`, `QueueDrains`; `ChangesWereOpen`, `PolicyCatchesUp` | *snapshot*: daemon and tool, fresh or installed, two edits (one that fails and one after it), two crashes, a failing database step, a failing file step and a loss. *Log*: two events of the daemon, three mishaps, daemon and tool, two days with retention of none. *Delivery*: three diagnostics, one of them rejected, a queue and a batch of two, one mishap. *Private*: two browsers, one deferred; three lists of which two exceed the limit; the loop and one client, one turn of the world, and two requests or one request and one trouble |
| `watch` | `WatchInvariant`, `ConnectedIsSpared`, `SilentIsClosed`; `OutboxInvariant`, `TurnsAreTold` | *browsers*: one browser through four ticks, two launches and two troubles (one when confined), with graces and windows of one tick and no delay of a call; two browsers of a family through two ticks. *Outbox*: one source at a time, two turns, two rows, ticks of a minute with cooldowns and lifetimes of one or two: an equal event, an expiry and a retry all fit |
| `process_scan` | `ScanInvariant`, `BlockedIsSignalled` | three pids and three starts beside init and the daemon: a component, its child and its grandchild; every pair of program and policy that a rule or an exception looks at |
| `usage` | `VisitsInvariant`, `WatchedIsMetered`; `ScheduleInvariant`, `RepairMeetsTurns`, `TotalIsExact`; `UsageInvariant` | *visits*: two tabs, two ticks, three moves of the user or two and a failing call or restart. *Schedule*: every pair of windows of these kinds (within a day, over midnight, on either day or both), with and without Detoxes that overlap, one edit, ten minutes, more than a week. *Apps*: two lists, five ticks over a midnight, four changes |
| `persistence_refused` | refutes `NoIntermediatePolicy` | one edit, one failing file step, one loss |
| `clock_latch` | refutes `LatchHolds` | daemon and tool, two settings of the clock, four checks |

The bounds stop the models (a clock that has reached its end, edits used up), so
the deadlock check is off where that happens. Symmetry is used for tasks and
clients only, and in no run with liveness. `MergedTypeOK` and `PrivateTypeOK` state
the types of two modules whose runs check deeper properties; no run lists them.

### Fairness

Liveness is claimed of the daemon's loops, of systemd and of the extension's timers
only. The repair loop never returns and sleeps a bounded time (`app.rs:557-594`), so
a pass is weakly fair, in `PolicyGuard` and as `LoopWrites` in `PrivateBrowsing`;
`Restart=always` with `RestartSec=0` makes the start weakly fair; a tokio interval
wakes the scan (`Scan`). In `PolicyPersistence` every step of a process that has the
lock is weakly fair, and taking the lock is too, for the bound on the tools' runs
leaves it free in the end. In `EventLog` the worker flushes at each heartbeat and a
call times out (`Flush`, `TimeOut`), and the core lock is free again and again
between the daily maintenances, so that `Receive` and `Maintain` are strongly fair.
In `Visits` the daemon handles calls, answers arrive or the call fails, and the
extension revalidates the tab in front by an alarm. No client, user, edit, failure,
crash or tool's start is fair. The package manager's hook is assumed to end one way
or the other (`RemovePackage \/ AbortRemoval`).

## 4. Proofs

TLAPS 1.4.5 checks every theorem below for all values of the constants: any number
of lists, clients, tasks, files, requests, failures and crashes, and any bound. Each
module of proofs has lemmas on the operators its model is built from, one lemma per
action on what the action does to the inductive invariant, and the theorems at the
end of their parts. Each inductive invariant was model-checked on an instance first.

**PolicyGuardProofs.** `TypeCorrect` (`TypeOK`), `DetoxIsRespected`
(`DetoxOnlyTightens`), `EnforcementIsKept` (`EnforcementKept`). The properties alone
are not inductive: an import can bring a list whose allowance does not exist, or an
edit remove an allowance a list in a Detox uses, unless the policy is valid to begin
with. The invariant is `Guarded == TypeOK /\ Valid(policy)`: each action keeps it since
it commits only what passes `validate_config`, and under it each action's checks give
both properties: a list edit by `EditableList` and `Additive`, an allowance by
`AllowanceInDetox`, a schedule's targets by `Retargetable`, deletes by the check on the
list, and actions that add (imports, Detox starts) by touching nothing that is there.

**UninstallHandoffProofs.** `HandoffTypeCorrect` (`TypeOK`), `HandoffIsRecorded`
(`HandoffInvariant`), `RemovalSparesDetox` (`RemovalRespectsDetox`), with every lock
release, repair pass and failing step in between. What connects a Detox to a lease
granted later is the time the request was sampled: `HandoffKept` adds that no
request was timed in the future, that every token in use was given to a lease, that a
client on its way through the removal of files holds the token of the handoff the
database has, and (`LeaseOutlastsDetox`) that while a handoff lasts a Detox that had begun
by the lease's sample is over. The last is kept by the tick of the clock since a
Detox's end does not move, and by a Detox start since a start refuses in a handoff.

**BrowserPolicyProofs: the merged policy.** `MergedTypeCorrect` (`MergedTypeOK`, any number of tasks) and
`MergedImplementsOverlay`: `MergedSpec => ImplementsOverlay`, the refinement of
`PolicyOverlay`, step by step: each step of a repair, a removal or a crash leaves
`UserSettings` as it is, and an edit changes one of the settings the user may. The
invariant `MergedKept` says that a document without a backup is all the user's or an
earlier version's, that whatever a backup holds has an object to be put back into, and that
what a task has read is what the files say; a removal forgets the backup only with all
its values back. The theorem's hypothesis `Alone(t)` names the three conditions the code
relies on: one task at a time, no edit that empties an object, and a managed setting
nobody else gives BlocKuntu's value (the extension's identifier is one). TLC refutes
`ImplementsOverlay` without any of the three; the first two are in section 5, and
without the third a user's own document is taken for an earlier version's.

**RulesProofs.** `WalksAgreeAlways` (`WalksAgree`) and `UnlocksWhatWasReported`
(`UnlockOpensTheReported`), for every list of rules, the second with every list of
application rules beside it; `UnlocksAreRationed`
(`UnlocksInvariant`) and `UnlockOpensItsLists` (`OpensItsListsAlone`), for every policy
and every order in which requests are timed and served. A loop that keeps the best match
is a recursion over the places, so its lemma (`KeepsTheBest`: the place kept is wanted, and
no wanted one is better, when better is an order) needs an induction. The library's induction
theorems take a predicate, which the provers cannot instantiate, but its theorem that a
well-founded relation has minimal elements takes sets: from it `InductiveSet` (in `Induction`)
gives induction over the set of naturals up to which a fact holds, and with it that a
recursive function is defined (`KeptIsDefined`) and what it computes. That `StricterThan` is an order
is then what makes `NamesTheStrictest` true, as it is what the code relies on.
`UnlockCases` says which of the walks opened what was opened. The
invariant of the lists built is that a rule is named by its place (`Listed`). Of unlocks:
`UnlocksKept` adds that what a grant still opens is what was selected without what was
revoked (`SharesKept`), and `KeptArePresent` that such a list is in the policy: an edit
that changes no list then changes no grant, so what appears is a request's, and
`SeenBlocked` reads the engine's verdict off the lists, before and after.

**PolicyPersistenceProofs.** `SnapshotStaysCurrent` (`PersistenceInvariant`) and
`RestartsAreFaithful` (`RestartsWhereItStood`), for any tools beside the daemon and any
number of failures, crashes and losses. `PersistenceKept` follows each process through
its writes: what a start has found and persisted (`StartKept`), that tools never create
the database of a daemon in force (`ToolsKept`), what each step of an edit or its
rollback has put where (`ServingKept`), and that all a start may find on disk
stands or is a standing policy given its rule (`FoundKept`). The exception of the
property (a failing step on the snapshot and a loss of the database together) is where
`FoundKept` stops being kept, and section 5 has its counterexample.

**RulesProofs: the clock.** `ClockTypeCorrect` (`ClockTypeOK`, any tools), `NoAlarmUnlessSet`
(`ClockInvariant`) and `DetoxOutlastsTheClock` (`DetoxHeld`). The invariant counts: the
wall clock stored with the last check has moved from the uptime, since the Detox
began, by at most `MaxDrift` for each check since and one pause (`DetoxKept`), and a check
under way has read what the rows still say (`ReadFits`). Both promises need
`Tools = {}`: with a second process the rows may change between two reads, which
`clock_latch` shows. `NoAlarmUnlessSet` needs `MaxPause <= MaxDrift` too: a check held up
between its two samples for longer than the guard tolerates sees a jump.

**ObservationProofs: browsers and processes.** `ScansSpareTheirOwn` (`ScanInvariant`), `DeferralsEnd` (`WatchInvariant`),
`ReportedIsSpared` (`ConnectedIsSpared`) and `SilenceIsClosed` (`SilentIsClosed`). Of a
scan: `ScanKept` adds that the picture of `/proc` has init, the daemon and every parent it
names, whoever ended meanwhile (`Picture`), for without its parent a walk to a
component would stop short; and that no rule, strict mode included, lists init or
the daemon. `DescendsFromAny` is stated as the absence of a set closed under
parents, so that what a walk finds needs no induction. Of the watch: `WatchKept`
relates the clocks and the rows. A call sampled its time at most `MaxDelay` ago
(`BeatsKept`), so what overwrites a report is not much older (`OwnKept`); a browser that
was deferred and not heard since is in no position to be given another window
(`WindowsKept`: a scan has judged it and did not find it healthy); one that was
found silent has a session as old (`SilenceKept`). The run has graces and windows of one
tick and no delay, so that reports which are written out of order are the theorems'
alone: those have any delay, grace and window. The attempt to prove `OneWindow` found an earlier
form of it false for longer graces: a delayed report of one browser, and strict mode
turned off and on, let a scan find a browser healthy that was not heard anew, after
which a gap gives it a window rightly; the deferral counts from there now.

**BrowserPolicyProofs: private browsing.** `PrivateTypeCorrect` (`PrivateTypeOK`) and `ChangesAreOpen`
(`ChangesWereOpen`). `PrivateKept` says of files that a pass without a browser left is
over, and of requests that a client that waits for an answer writes nothing, and that
what its request has sampled is among the instants since it came (`RequestsKept`): with
that, the instant the code checks is a witness, and an edit that lands before the store
is judged as the store finds it. The run has one turn of the world and one allowlist,
the theorem any. The attempt found an earlier form false beyond the run: with two
allowlists, of which one is active at the request's instant and is switched off before
the store, while a turn makes the other active, there is no instant at which the
policy of that same instant had none active, and the code accepts the change.

**DatabaseProofs: events.** `EventsAreKept` (`EventInvariant`) and
`DiagnosticsAreCountedOnce` (`CountedOnce`), for any diagnostics, any length of the queue
and the batch, and any number of lost answers, crashes and restarts. A diagnostic that
left the extension's queue is accounted for only if the queue, its stored copy, the batch
and the call the daemon is at are followed together: `EventsKept` says that a batch waiting
for an answer is the last call sent (`QueuesKept`), that what the call at work has had so
far is settled (`CallKept`), and that what was settled has its row, had one, or was
rejected (`SettledKept`). The selections from the queue are recursive functions,
whose lemmas (`FilteredIsDefined` and those after it) are inductions on their length.

**DatabaseProofs: upgrades.** `UpgradesLoseNothing` (`MigrationInvariant`) and
`RevokedGrantsStay` (`RevokedStaysRevoked`), for every mixture of older tables and every
number of starts, crashes and edits. `UpgradeKept` says for each of the rebuilt tables, by
the number of the statement the start has come to, which of the table and its
intermediate names there are and what they hold: `CopyKept` for those that are copied and
dropped, `RenameKept` for those that are renamed away first. It has the two places where
the code falls short as what they are: a table that a crash left without its rows is one
of `struck`, and websites half rebuilt are found in no later start but one that fails
(`Stuck`).

**DatabaseProofs: notifications.** `NothingIsRepeated` (`OutboxInvariant`) and
`NoTurnIsForgotten` (`TurnsAreTold`), for all cooldowns, lifetimes, retries and limits, and
every crash between two statements of a handler. `OutboxKept` relates rows of one key: they
were queued further apart than their cooldown (`WellApart`), and the newest one told is
still there until its cooldown is over (`StillThere`), which is why an expiry or a deletion of
old rows makes room for no repetition; what was shown does not wait unless its report is on
its way or lost (`Settled`). A handler is a chain of statements of which a crash keeps a
beginning, so its lemmas are about what any beginning has reached (`Reached`, `Follows`).
The attempt found an earlier `NoRepetition` false beyond the run's bounds, where an
older event whose display failed is shown after a newer one; the run's bounds and the
property are corrected.

**ObservationProofs: time.** `ScannedTimeIsCharged` (`UsageInvariant`) and
`WatchedTimeIsCharged` (`VisitsInvariant`). What is charged is a sum over rows, so both rest
on lemmas about `Total` (it ignores zeros, is monotone, grows with the one term that
grows), each an induction over the rows. Of applications, `UsageKept` adds that after a
scan the open sessions are those of the lists it saw: a tick then adds one to what such a list
is charged, and a midnight sets all to nothing. Of websites, `VisitsKept` follows each
row that is open: the extension knows it as its tab's visit, has an end of it on its way, or
has yet to hear that it began (`Accounted`), so that in a tab whose calls did not fail
(`LostKept`) no open row is forgotten; what it knows or has asked for is the page the
tab shows in front (`KnownKept`); answers in the queue name later rows than the visit it
knows (`ActiveKept`, `QueueKept`), so that a late answer brings no ended visit back. What the
rows of a tab lasted is then at most the ticks it was watched. The run has two tabs, two
ticks and one failing call, the theorem any number.

**ObservationProofs: schedules.** `SchedulesAreExact` (`ScheduleInvariant`),
`TotalsAreExact` (`TotalIsExact`) and `TurnsWakeTheRepair` (`RepairMeetsTurns`), for every
length of a day and a week, all windows, Detoxes and edits. The link between the code's
arithmetic and a set of minutes is that a window holds at a minute just if the minute is
within its interval of that day or of the day before (`SpanHolds`, `HeldBySpan`). What is
joined covers every minute once (`JoinFits`, kept by the next interval in the order of
their starts: `NextFits`), so a length is the number of the minutes covered
(`LengthOfCover`, an induction over the number of intervals), which makes what an allowance is
charged exact. A kept total adds days of which each is joined alone: no minute is within
two days' intervals unless a window over midnight meets one of the next day (`SpansApart`),
and in any case no more than two days share one (`BoundedTotal`). `TotalsFit`, the
inductive invariant, says what a total leaves open: since it was last brought up to date the
schedule was active as its present windows have it, which an edit keeps because it brings the
total up to date first. That the repair wakes for a turn (`WakesForSpan`) needs that each
weekday comes within a week (`EveryWeek`), so that a boundary it looks at precedes any that it
does not.

Assumptions are those in the modules' `ASSUME`s, which TLC evaluates in every run:
constants are of their types; choices are policies and lists; identifiers of sites and
applications, of the daemon and its tools, of tasks and clients are distinct; what
stands for nothing (`Missing`, `NoBackup`, `None`, `Failed`) is no document, backup,
policy, process, diagnostic, table, visit, total, number or truth value; browsers, tabs,
metered lists, windows and Detoxes are finitely many, and no window is empty; giving a
policy its browser rule twice is giving it once; there is a browser to manage; delivered
notifications are kept for longer than any cooldown.

Only model-checked: every liveness property, as TLAPS has no fairness here.

## 5. Where the code and its texts part

Three runs refute a sentence of the repository; `PROJECT.json` quotes it.

1. `policy_guard_stale_now`: an edit that sampled its time before a Detox began
   deletes a list of it.
2. `persistence_refused`: a snapshot write that fails after its rename leaves a
   refused edit in the snapshot, and a start that finds the database gone reads it.
3. `clock_latch`: a tool that reads the latched state before a check of the daemon
   and the last sample after it stores `ok` over `tampered`. The same torn read makes
   a false alarm that never clears: after a reboot, the tool reads the wall clock
   of the last boot's sample, the daemon stores its own, and the tool reads the new
   boot's identity and uptime. So `NoFalseAlarm` and `DetoxHeld` are claimed of the
   daemon alone.

Six more statements are defined in their modules beside the text they come from, and
fail there: put one of them in place of the properties of the run that has its
module (with that part's fairness for `DaemonReturns`) and TLC shows how.

4. `PrivateBrowsing!DaemonReturns` (`stores`): `serve` repairs the browsers' policies
   before it listens (`app.rs:533`) and the repair refuses more than 1000 patterns, so
   a schedule that turns on too many keeps a restarted daemon from starting, while a
   running one logs the same failure and goes on. `Testing/layers/04-destructive-and-soak.md:110`
   has a killed daemon return healthy.
5. `Migration!UpgradeKeepsPolicy` (`rules`): the windows of schedules are renamed
   away before their copy (`db.rs:2769`), and the table of application rules is dropped
   before its copy gets the name (`db.rs:2634`); a crash there makes the next start
   create empty tables and serve without them.
   `04-destructive-and-soak.md:141` has policy survive an upgrade.
6. `BrowserWatch!StartupIsAllowed` (`watch`): the row that begins a startup grace is
   deleted only by a scan that finds the browser gone (`app.rs:1437`); closed and opened
   between two scans, or deferred at its launch, a browser gets less than the "at least
   60 seconds" of `Docs/FEATURES.md:29`.
7. `Visits!OnlyConfirmedIsCharged` (`usage`): an answer to a start that comes after its
   tab was left is ignored (`background.ts:578`), and the row stays open until the next
   start of the tab, which charges it up to then (`db.rs:2031`). `PR-POL-008` in
   `Testing/layers/01-pr-ci.md:35` has only confirmed time charged.
8. `AppUsage!OnlyRunningIsCharged` (`usage`): a session that was open when the daemon
   stopped is extended by the first scan after (`db.rs:1876`), be it the next morning;
   `Docs/FEATURES.md:83` counts time while a process runs.
9. `ScheduleTime!OverlapsCountOnce` (`usage`): each day's windows are joined alone, so a
   window over midnight that overlaps one of the next day is counted twice, against
   the name of the test at `db.rs:3905` and `Docs/FEATURES.md:113`.

The properties that hold are stated around the following cases, which are
behaviours of the models too (change the constants or drop the condition named and
TLC shows them):

- `prepare_uninstall` repeats its Detox check at the time its request was sampled
  (`rpc.rs:886`, `rpc.rs:921`), so a Detox that starts in between is in neither
  list and the lease is written while it runs. `Docs/FEATURES.md:96` has protected
  uninstall unavailable while any Detox is active. `RemovalRespectsDetox` compares
  with `lease.sample` for this reason.
- The hooks accept a lease to the end of the second it expires in
  (`check-package-removal-lease.sh:38`); a Detox may begin in the rest of that
  second. `RemovalRespectsDetox` ends with `HandoffActive`.
- A repair that found enforcement active (`app.rs:419`) may write the shared Firefox
  policy after `prepare_uninstall` restored it, and the package's hook leaves that
  file alone (`blockuntu.install:153`), so it stays managed after the removal.
- The same race on the document and its backup: with two `Tasks`, a repair that has
  read the document writes it after a removal has deleted the backup
  (`firefox_policy.rs:297`), and `ImplementsOverlay` fails.
- A recorded setting whose object is gone at removal is skipped and its backup
  deleted (`firefox_policy.rs:604`): with `EmptyObjects`, `ImplementsOverlay` fails.
- With database and snapshot both gone, the shipped policy is loaded as on a first
  start (`app.rs:1741`); `Testing/layers/04-destructive-and-soak.md:63` asks for an
  explicit failure instead. `LoseDatabase` takes the database alone.

- A table left over from an interrupted rebuild makes its `CREATE TABLE` fail at every
  later start (`db.rs:2727`): `WholeOrRefused` accepts the refusal.
- The mode of private browsing is checked against an instant sampled under one hold
  of the lock and stored under another (`rpc.rs:2901`), so it can change just after
  `Docs/FEATURES.md:125` forbids it: `ChangesWereOpen` asks for an instant during the
  request. The check reads the clock at the first hold and the policy at the second, so
  that no single instant need have allowed the change by its own policy. `set_protected_access_mode` (`rpc.rs:2863`) looks at the schedules and the Detox
  and not at the clock guard.
- A schedule added again with the id of a deleted one is charged for the time between,
  and the next boundary is looked for in today's windows and later ones, so the end of a
  window that began yesterday is met by the repair interval only (`app.rs:1088`):
  `TotalIsExact` and `RepairMeetsTurns` except these. `schedule_active_until` does not
  look beyond a window into one that follows it at once.
- Notifications may be lost where no text promises them: a Detox's between the session's
  row and the outbox (`rpc.rs:1509`), a turn of a schedule before an edit notes all states
  as told (`rpc.rs:1654`), the second start of a schedule within its cooldown
  (`db.rs:441`), the allowlist's when the process it names has gone (`app.rs:914`).
  `TurnsAreTold` holds without edits.
- A message of 4000 characters may be more bytes than the daemon takes (`rpc.rs:2443`):
  the diagnostic is rejected, as an `Invalid` one is in `EventLog`.
- Across a reboot the clock guard notices only a clock that went back
  (`clock_guard.rs:180`), which `Testing/phase-4.md:535` says: `DetoxHeld` is of one boot.

## 6. Plan

Done: the core (`PolicyGuard` and its proofs); what undoes enforcement
(`UninstallHandoff`, `MergedPolicy`, `PrivateBrowsing`); decisions, grants and the time
they are measured by (`Decision`, `Unlocks`, `Visits`, `ScheduleTime`, `AppUsage`); what
survives a failure (`PolicyPersistence`, `Migration`, `ClockGuard`, `EventLog`); what
the daemon does by itself (`BrowserWatch`, `ProcessScan`, `NotificationOutbox`).

Proved: every safety property the passing runs check (section 4). What remains is liveness,
which waits for a prover with fairness.

Larger instances worth a machine with more time: two clients in `PrivateBrowsing`, a
tool in the delivery of `EventLog`, three ticks in `Visits`.

## 7. Not modelled

Text and layout (the hosts block, TOML, JSON, URLs and patterns), the parsing of
`/proc`, hashing of emergency codes, sockets and framing, the relay between browser and
socket (a channel that may lose a call or its answer in `Visits` and `EventLog`), the
extension's blocking of a navigation and its cache of decisions, the Firefox extension's
copy of the visits, the pause of diagnostics while blocking is disabled in the extension
(`QueueDrains` is of an extension in which it is not), that a pid is given again within one scan, forms and views of
the GUI, and the building of packages. `PROJECT.json` gives the reason for each
component.
