----------------------------- MODULE ProcessScan -----------------------------
(***************************************************************************)
(* The scan that closes blocked applications (focusd/src/process_scan.rs,   *)
(* scan_processes_once in app.rs).                                          *)
(*                                                                          *)
(* It reads /proc, judges each process of that picture under the core lock  *)
(* by four rules, and signals the judged pids one by one without it, while  *)
(* processes start, end, and are handed to init when their parent ends.  A  *)
(* process is known by its program and by the desktop id of the launch it   *)
(* descends from, for the environment is inherited.                         *)
(***************************************************************************)
EXTENDS Integers, FiniteSets, Absent

CONSTANTS
    Pids,          \* the pids that processes may get
    Systemd, Self, \* pid 1 and the daemon
    Programs,      \* [kind, regular, launcher]: what may be started; regular: by a user
                   \* with a uid of 1000..65533; launcher: through its desktop file
    AppPolicies,   \* [blocked, allowed, unsupported, stale], see policy
    MaxStarts      \* bound: processes started

ASSUME ScanAssumption ==
    /\ {Systemd, Self} \cap Pids = {} /\ Systemd # Self
    /\ MaxStarts \in Nat
    /\ \A r \in Programs : r.regular \in BOOLEAN /\ r.launcher \in BOOLEAN

VARIABLES
    processes,  \* what runs: [kind, regular, desktop, parent] of each pid
    policy,     \* blocked: kinds a block rule matches now; allowed: the kinds of the
                \* allowlist, None without one; unsupported: the block of unsupported
                \* browsers is active; stale: strict mode closes the managed browser
    scan,       \* the scan under way: its picture of /proc, the event kind of each judged
                \* pid, the pids left to signal, and who is named in a notification
    report,     \* ProcessKillReport: events, already_gone_pids, failures
    started     \* processes started so far

scanVars == <<processes, policy, scan, report, started>>

AllPids == Pids \cup {Systemd, Self}
Component == "blockuntu"     \* names that begin with blockuntu
ManagedBrowser == "brave"
UnsupportedBrowser == "snap" \* an installation of it that BlocKuntu does not manage

System(kind) == [kind |-> kind, regular |-> FALSE, desktop |-> None, parent |-> Systemd]
NoReport == [events |-> {}, gone |-> {}, failures |-> {}]
NotScanning == [at |-> "idle", seen |-> <<>>, judged |-> <<>>, left |-> {}, named |-> {}]

ScanInit ==
    /\ processes = [p \in {Systemd, Self} |->
                     System(IF p = Systemd THEN "tool" ELSE Component)]
    /\ policy \in AppPolicies
    /\ scan = NotScanning
    /\ report = NoReport
    /\ started = 0
-------------------------------------------------------------------------------
(* Who a process is                                                         *)

\* desktop_id_from_process_dir: the desktop file that launched it or an ancestor.
Desktop(program, parent) ==
    IF program.launcher THEN program.kind ELSE processes[parent].desktop

Identity(process) == {process.kind, process.desktop} \ {None}
Is(process, kind) == kind \in Identity(process)

\* supported_browser_for_process goes by names, which the installations of a
\* browser share: one that is not supported is of the managed browser too.
IsManaged(process) == Is(process, ManagedBrowser) \/ Is(process, UnsupportedBrowser)

\* blockuntu_pids
Components(seen) == {p \in DOMAIN seen : Is(seen[p], Component)}

\* A process without an entry in the picture, or its own parent, ends the walk.
Parent(seen, p) == IF seen[p].parent \in DOMAIN seen THEN seen[p].parent ELSE p

\* The walk over parent pids from a process meets one of some, unless there is a set
\* without them that has the process and the parent of each that it has.
DescendsFromAny(seen, p, some) ==
    ~\E S \in SUBSET (DOMAIN seen \ some) : p \in S /\ \A q \in S : Parent(seen, q) \in S

\* Slip: only the process itself is asked whether it is a component.
ExemptItself(seen, p) == ~seen[p].regular \/ Is(seen[p], Component)

\* application_allowlist_exempt_process_ids
Exempt(seen, p) == ~seen[p].regular \/ DescendsFromAny(seen, p, Components(seen))
-------------------------------------------------------------------------------
(* The judgement                                                            *)

Ordinary(seen, p) == p \notin {Systemd, Self} /\ ~Is(seen[p], Component)

ByBlocklist(seen, p) ==
    Ordinary(seen, p) /\ Identity(seen[p]) \cap policy.blocked # {}

ByAllowlist(seen, p) ==
    /\ policy.allowed # None /\ p # Systemd /\ ~Exempt(seen, p)
    /\ Identity(seen[p]) \cap policy.allowed = {}

Unsupported(seen, p) ==
    policy.unsupported /\ Ordinary(seen, p) /\ Is(seen[p], UnsupportedBrowser)

ByStrictMode(seen, p) == policy.stale /\ IsManaged(seen[p])

\* An unsupported installation is named as such whichever rule listed it first; the
\* block rules come before the allowlist, and both before strict mode.
EventKind(seen, p) ==
    IF Unsupported(seen, p) THEN "browser_killed_unsupported_installation"
    ELSE IF ByBlocklist(seen, p) THEN "app_killed"
    ELSE IF ByAllowlist(seen, p) THEN "app_killed_allowlist"
    ELSE "browser_killed_extension_stale"

\* Slip: what the allowlist exempts is exempt from every rule.
JudgedOfUsers(seen) ==
    {p \in DOMAIN seen : ~Exempt(seen, p) /\ \/ ByBlocklist(seen, p) \/ ByAllowlist(seen, p)
                                             \/ Unsupported(seen, p) \/ ByStrictMode(seen, p)}

Judged(seen) == {p \in DOMAIN seen : \/ ByBlocklist(seen, p) \/ ByAllowlist(seen, p)
                                     \/ Unsupported(seen, p) \/ ByStrictMode(seen, p)}

ReadProcesses ==
    /\ scan.at = "idle"
    /\ scan' = [NotScanning EXCEPT !.at = "read", !.seen = processes]
    /\ UNCHANGED <<processes, policy, report, started>>

\* The allowlist's notification is kept for one of the pids its rule lists, the
\* first in the order of /proc; the other rules keep one for each pid.
Named(seen) ==
    LET listed == {p \in DOMAIN seen : ~ByBlocklist(seen, p) /\ ByAllowlist(seen, p)}
        others == {p \in DOMAIN seen : ByBlocklist(seen, p) \/ Unsupported(seen, p)}
    IN  {others \cup first : first \in IF listed = {} THEN {{}} ELSE {{p} : p \in listed}}

Judge ==
    LET judged == Judged(scan.seen)
    IN  /\ scan.at = "read"
        /\ IF judged = {}
           THEN scan' = NotScanning /\ UNCHANGED report
           ELSE /\ \E named \in Named(scan.seen) :
                     scan' = [scan EXCEPT !.at = "kill", !.left = judged,
                                !.judged = [p \in judged |-> EventKind(scan.seen, p)],
                                !.named = named]
                /\ report' = NoReport
        /\ UNCHANGED <<processes, policy, started>>
-------------------------------------------------------------------------------
(* The signals                                                              *)

\* When a process ends its children are handed to init.
Without(p) == [q \in DOMAIN processes \ {p} |->
                 IF processes[q].parent = p THEN [processes[q] EXCEPT !.parent = Systemd]
                 ELSE processes[q]]

\* SIGTERM to whatever has the pid now: it is gone, ends, stays, or cannot be signalled.
Kill(p) ==
    /\ scan.at = "kill" /\ p \in scan.left
    /\ scan' = [scan EXCEPT !.left = @ \ {p}]
    /\ IF p \notin DOMAIN processes
       THEN report' = [report EXCEPT !.gone = @ \cup {p}] /\ UNCHANGED processes
       ELSE \/ /\ report' = [report EXCEPT !.events = @ \cup {p}]
               /\ processes' \in {processes, Without(p)}
            \/ /\ report' = [report EXCEPT !.failures = @ \cup {p}]
               /\ UNCHANGED processes
    /\ UNCHANGED <<policy, started>>

\* record_process_kill_report: events and notifications, then the failures as one error.
Record ==
    /\ scan.at = "kill" /\ scan.left = {}
    /\ scan' = NotScanning /\ report' = NoReport
    /\ UNCHANGED <<processes, policy, started>>
-------------------------------------------------------------------------------
(* The processes                                                            *)

\* A process gets the least pid that is free, which another one may have had.
StartProcess(p, parent, program) ==
    /\ started < MaxStarts /\ started' = started + 1
    /\ p \notin DOMAIN processes /\ \A q \in Pids : q < p => q \in DOMAIN processes
    /\ parent \in DOMAIN processes
    /\ processes' = [q \in DOMAIN processes \cup {p} |->
           IF q # p THEN processes[q]
           ELSE [kind |-> program.kind, regular |-> program.regular,
                 desktop |-> Desktop(program, parent), parent |-> parent]]
    /\ UNCHANGED <<policy, scan, report>>

EndProcess(p) ==
    /\ p \in Pids \cap DOMAIN processes
    /\ processes' = Without(p)
    /\ UNCHANGED <<policy, scan, report, started>>

Scan == ReadProcesses \/ Judge \/ (\E p \in AllPids : Kill(p)) \/ Record

ScanNext ==
    \/ Scan
    \/ \E p \in Pids, parent \in Pids \cup {Systemd}, program \in Programs : StartProcess(p, parent, program)
    \/ \E p \in Pids : EndProcess(p)

\* tokio's interval wakes the scan loop again and again, and no step of it waits.
ScanSpec == ScanInit /\ [][ScanNext]_scanVars /\ WF_scanVars(Scan)
-------------------------------------------------------------------------------
(* Correctness                                                              *)

ScanTypeOK ==
    /\ {Systemd, Self} \subseteq DOMAIN processes /\ DOMAIN processes \subseteq AllPids
    /\ \A p \in DOMAIN processes : processes[p].parent \in DOMAIN processes
    /\ scan.at \in {"idle", "read", "kill"}
    /\ scan.left \cup scan.named \subseteq DOMAIN scan.judged

\* No application rule lists init, the daemon or a component of BlocKuntu, and the
\* allowlist lists neither a system service nor what BlocKuntu has started, through
\* however many processes that still run.
OwnAreSpared ==
    \A p \in {q \in DOMAIN scan.judged : scan.judged[q] # "browser_killed_extension_stale"} :
        /\ p \notin {Systemd, Self} /\ ~Is(scan.seen[p], Component)
        /\ scan.judged[p] = "app_killed_allowlist" =>
             /\ scan.seen[p].regular
             /\ ~Is(scan.seen[scan.seen[p].parent], Component)
             /\ ~Is(scan.seen[scan.seen[scan.seen[p].parent].parent], Component)

\* One signal that fails, or comes too late, spares no other process: when a scan
\* ends each judged pid has exactly one outcome.
EachIsAnswered ==
    /\ scan.at = "kill" =>
         report.events \cup report.gone \cup report.failures = DOMAIN scan.judged \ scan.left
    /\ report.events \cap report.gone = {} /\ report.events \cap report.failures = {}
    /\ report.gone \cap report.failures = {}

\* However many of its processes one scan closes, an allowlist names one of them.
OneNotice ==
    Cardinality({p \in scan.named : scan.judged[p] = "app_killed_allowlist"}) <= 1

\* Types, whom a scan spares, and that each process it lists is answered for once.
ScanInvariant == ScanTypeOK /\ OwnAreSpared /\ EachIsAnswered /\ OneNotice

\* A process that a block rule matches is signalled in the end, unless it ends.
BlockedIsSignalled ==
    \A p \in Pids :
        (p \in DOMAIN processes /\ ByBlocklist(processes, p))
            ~> (p \notin DOMAIN processes \/ p \in report.events \cup report.failures)
===============================================================================
