--------------------------- MODULE ObservationProofs --------------------------
(***************************************************************************)
(* What the daemon makes of what it observes: the processes and browsers    *)
(* that a scan closes (ProcessScan, BrowserWatch), the time of applications *)
(* and of websites that it charges (AppUsage, Visits), and the time of      *)
(* schedules (ScheduleTime), for every number of processes, programs,       *)
(* signals, browsers, lists, tabs, pages, lost calls, ticks and minutes,    *)
(* every length of a day and a week, and all windows.                       *)
(***************************************************************************)
EXTENDS ProcessScan, BrowserWatch, AppUsage, Visits, ScheduleTime, Induction,
        SequenceTheorems, FiniteSetTheorems, TLAPS

-----------------------------------------------------------------------------
(* The scan's inductive invariant.                                          *)

Kinds == {r.kind : r \in Programs} \cup {"tool", Component}

Process == [kind : Kinds, regular : BOOLEAN, desktop : Kinds \cup {None}, parent : AllPids]

\* What runs, or what the scan has read: init and the daemon, and for every
\* process its parent.
Picture(s) ==
    /\ s \in [DOMAIN s -> Process]
    /\ {Systemd, Self} \subseteq DOMAIN s /\ DOMAIN s \subseteq AllPids
    /\ \A p \in DOMAIN s : s[p].parent \in DOMAIN s
    /\ ~s[Self].regular
    /\ s[Systemd].kind = "tool" /\ s[Systemd].desktop = None
    /\ s[Self].kind = Component /\ s[Self].desktop = None

ScanRecord(s) ==
    s = [at |-> s.at, seen |-> s.seen, judged |-> s.judged, left |-> s.left, named |-> s.named]

KillReports == [events : SUBSET AllPids, gone : SUBSET AllPids, failures : SUBSET AllPids]

\* A scan has a picture to judge, and before it has judged there is nothing to
\* signal, to name or to report.
ScanKept ==
    /\ ScanInvariant
    /\ Picture(processes)
    /\ ScanRecord(scan) /\ report \in KillReports
    /\ scan.at = "read" => Picture(scan.seen)
    /\ scan.at = "kill" => {Systemd, Self} \cap DOMAIN scan.judged = {}
    /\ scan.at # "kill" => /\ scan.judged = <<>> /\ scan.left = {} /\ scan.named = {}
                           /\ report = NoReport

-----------------------------------------------------------------------------
LEMMA NothingJudged == DOMAIN <<>> = {}
OBVIOUS

\* Before the judgement a scan promises nothing that could be broken.
LEMMA UnjudgedKeeps ==
    ASSUME scan.judged = <<>>, scan.left = {}, scan.named = {}, report = NoReport,
           scan.at \in {"idle", "read"}
    PROVE  OwnAreSpared /\ EachIsAnswered /\ OneNotice /\ report \in KillReports
<1>1. OwnAreSpared
  BY NothingJudged DEF OwnAreSpared
<1>2. EachIsAnswered /\ report \in KillReports
  BY DEF EachIsAnswered, NoReport, KillReports
<1>3. {p \in scan.named : scan.judged[p] = "app_killed_allowlist"} = {}
  OBVIOUS
<1>4. OneNotice
  BY <1>3, FS_EmptySet DEF OneNotice
<1> QED
  BY <1>1, <1>2, <1>4

\* A walk that meets no component passes two parents that are none.
LEMMA StrangersAreStrange ==
    ASSUME NEW seen, Picture(seen), NEW p \in DOMAIN seen, ~Exempt(seen, p)
    PROVE  /\ seen[p].regular
           /\ ~Is(seen[p], Component)
           /\ ~Is(seen[seen[p].parent], Component)
           /\ ~Is(seen[seen[seen[p].parent].parent], Component)
<1>1. seen[p].regular /\ ~DescendsFromAny(seen, p, Components(seen))
  BY DEF Exempt
<1>2. PICK S \in SUBSET (DOMAIN seen \ Components(seen)) :
          p \in S /\ \A q \in S : Parent(seen, q) \in S
  BY <1>1 DEF DescendsFromAny
<1>3. \A q \in DOMAIN seen : Parent(seen, q) = seen[q].parent
  BY DEF Parent, Picture
<1>4. seen[p].parent \in S /\ seen[seen[p].parent].parent \in S
  BY <1>2, <1>3
<1> QED
  BY <1>1, <1>2, <1>4 DEF Components

\* Whom the rules judge, by the event that is recorded.
LEMMA JudgedAreStrange ==
    ASSUME NEW seen, Picture(seen), NEW p \in Judged(seen),
           EventKind(seen, p) # "browser_killed_extension_stale"
    PROVE  /\ p \in DOMAIN seen /\ p \notin {Systemd, Self} /\ ~Is(seen[p], Component)
           /\ EventKind(seen, p) = "app_killed_allowlist" =>
                 /\ seen[p].regular
                 /\ ~Is(seen[seen[p].parent], Component)
                 /\ ~Is(seen[seen[seen[p].parent].parent], Component)
<1>1. p \in DOMAIN seen
  BY DEF Judged
<1>2. CASE Unsupported(seen, p) \/ ByBlocklist(seen, p)
  BY <1>1, <1>2 DEF Unsupported, ByBlocklist, Ordinary, EventKind
<1>3. CASE ~(Unsupported(seen, p) \/ ByBlocklist(seen, p))
  <2>1. ByAllowlist(seen, p)
    BY <1>3 DEF EventKind
  <2>2. p # Systemd /\ ~Exempt(seen, p)
    BY <2>1 DEF ByAllowlist
  <2>3. p # Self
    BY <1>1, <2>2, StrangersAreStrange DEF Picture
  <2> QED
    BY <1>1, <2>2, <2>3, StrangersAreStrange
<1> QED
  BY <1>2, <1>3

\* No rule lists init or the daemon: strict mode goes by the browser's name.
LEMMA OwnAreNotJudged ==
    ASSUME NEW seen, Picture(seen)
    PROVE  {Systemd, Self} \cap Judged(seen) = {}
<1> SUFFICES ASSUME NEW p \in {Systemd, Self}, p \in Judged(seen)
             PROVE  FALSE
  OBVIOUS
<1>1. p \in DOMAIN seen
  BY DEF Judged
<1>2. ~ByBlocklist(seen, p) /\ ~Unsupported(seen, p)
  BY DEF ByBlocklist, Unsupported, Ordinary
<1>3. ~ByAllowlist(seen, p)
  BY DEF ByAllowlist, Exempt, Picture
<1>4. Identity(seen[p]) \subseteq {"tool", Component}
  BY DEF Picture, Identity
<1>5. ~ByStrictMode(seen, p)
  BY <1>4 DEF ByStrictMode, IsManaged, Is, ManagedBrowser, UnsupportedBrowser,
              Component
<1> QED
  BY <1>2, <1>3, <1>5 DEF Judged

\* One of those the allowlist's rule lists is named.
LEMMA NamedOnce ==
    ASSUME NEW seen, NEW named \in Named(seen)
    PROVE  /\ named \subseteq Judged(seen)
           /\ Cardinality({p \in named : EventKind(seen, p) = "app_killed_allowlist"}) <= 1
<1> DEFINE listed == {p \in DOMAIN seen : ~ByBlocklist(seen, p) /\ ByAllowlist(seen, p)}
           others == {p \in DOMAIN seen : ByBlocklist(seen, p) \/ Unsupported(seen, p)}
           told == {p \in named : EventKind(seen, p) = "app_killed_allowlist"}
<1>1. PICK first \in (IF listed = {} THEN {{}} ELSE {{p} : p \in listed}) :
          named = others \cup first
  BY DEF Named
<1>2. listed \subseteq Judged(seen) /\ others \subseteq Judged(seen)
  BY DEF Judged
<1>3. \A p \in others : EventKind(seen, p) # "app_killed_allowlist"
  BY DEF EventKind
<1> HIDE DEF listed, others
<1>4. first \subseteq listed /\ (first = {} \/ \E p \in listed : first = {p})
  BY <1>1
<1>5. IsFiniteSet(first) /\ Cardinality(first) <= 1
  <2>1. CASE first = {}
    BY <2>1, FS_EmptySet
  <2>2. ASSUME NEW p \in listed, first = {p} PROVE IsFiniteSet(first) /\ Cardinality(first) <= 1
    BY <2>2, FS_Singleton
  <2> QED
    BY <1>4, <2>1, <2>2
<1>6. told \subseteq first
  BY <1>1, <1>3
<1> HIDE DEF told
<1>7. Cardinality(told) <= Cardinality(first)
      /\ Cardinality(told) \in Nat /\ Cardinality(first) \in Nat
  BY <1>5, <1>6, FS_Subset, FS_CardinalityType
<1>8. Cardinality(told) <= 1
  BY <1>5, <1>7
<1> QED
  BY <1>1, <1>2, <1>4, <1>8 DEF told

-----------------------------------------------------------------------------
(* Each step.                                                               *)

LEMMA ScanStart == ScanInit => ScanKept
<1> SUFFICES ASSUME ScanInit PROVE ScanKept
  OBVIOUS
<1>1. /\ processes = [p \in {Systemd, Self} |->
                         System(IF p = Systemd THEN "tool" ELSE Component)]
  BY ScanAssumption DEF ScanInit
<1>2. System("tool") \in Process /\ System(Component) \in Process
      /\ ~System(Component).regular
      /\ System("tool").kind = "tool" /\ System(Component).kind = Component
      /\ System("tool").desktop = None /\ System(Component).desktop = None
      /\ System("tool").parent = Systemd /\ System(Component).parent = Systemd
  BY DEF System, Process, Kinds, AllPids
<1>3. Picture(processes)
  BY <1>1, <1>2, ScanAssumption DEF Picture, AllPids
<1>4. /\ scan.at = "idle" /\ ScanRecord(scan) /\ scan.judged = <<>>
      /\ scan.left = {} /\ scan.named = {} /\ report = NoReport
  BY DEF ScanInit, NotScanning, ScanRecord
<1>5. ScanTypeOK
  BY <1>3, <1>4 DEF ScanTypeOK, Picture
<1> QED
  BY <1>3, <1>4, <1>5, UnjudgedKeeps DEF ScanKept, ScanInvariant

\* A process that ends hands its children to init.
LEMMA WithoutGives ==
    ASSUME Picture(processes), NEW p \in Pids
    PROVE  Picture(Without(p))
<1> DEFINE to(q) == IF processes[q].parent = p THEN [processes[q] EXCEPT !.parent = Systemd]
                    ELSE processes[q]
           rest == DOMAIN processes \ {p}
<1>1. ASSUME NEW q \in rest
      PROVE  to(q) \in Process /\ to(q).parent \in rest
             /\ to(q).regular = processes[q].regular
             /\ to(q).kind = processes[q].kind /\ to(q).desktop = processes[q].desktop
  <2>1. processes[q] \in Process /\ processes[q].parent \in DOMAIN processes
    BY DEF Picture
  <2>2. Systemd \in AllPids /\ Systemd \in rest
    BY ScanAssumption DEF Picture, AllPids
  <2> QED
    BY <2>1, <2>2 DEF Process
<1>2. Without(p) = [q \in rest |-> to(q)]
  BY DEF Without
<1>3. {Systemd, Self} \subseteq rest /\ rest \subseteq AllPids /\ ~processes[Self].regular
  BY ScanAssumption DEF Picture
<1> HIDE DEF to, rest
<1>4. /\ DOMAIN Without(p) = rest /\ \A q \in rest : Without(p)[q] = to(q)
      /\ Without(p) \in [rest -> Process]
  BY <1>1, <1>2
<1> QED
  BY <1>1, <1>3, <1>4 DEF Picture

\* A process that starts has a parent that runs.
LEMMA StartGives ==
    ASSUME Picture(processes), NEW p \in Pids, NEW parent \in Pids \cup {Systemd},
           NEW program \in Programs, StartProcess(p, parent, program)
    PROVE  Picture(processes')
<1> DEFINE new == [kind |-> program.kind, regular |-> program.regular,
                   desktop |-> Desktop(program, parent), parent |-> parent]
           now == DOMAIN processes \cup {p}
<1>1. parent \in DOMAIN processes /\ p \notin DOMAIN processes
  BY DEF StartProcess
<1>2. new \in Process /\ new.parent = parent
  <2>1. program.kind \in Kinds /\ program.regular \in BOOLEAN
    BY ScanAssumption DEF Kinds
  <2>2. Desktop(program, parent) \in Kinds \cup {None}
    BY <1>1, <2>1 DEF Desktop, Picture, Process
  <2>3. parent \in AllPids
    BY DEF AllPids
  <2> QED
    BY <2>1, <2>2, <2>3 DEF Process
<1>3. processes' = [q \in now |-> IF q = p THEN new ELSE processes[q]]
  BY <1>1 DEF StartProcess
<1> HIDE DEF new
<1>4. processes' \in [now -> Process] /\ DOMAIN processes' = now
  BY <1>2, <1>3 DEF Picture
<1>5. \A q \in now : processes'[q] = IF q = p THEN new ELSE processes[q]
  BY <1>3
<1>6. now \subseteq AllPids
  BY DEF Picture, AllPids
<1>7. Self # p
  BY ScanAssumption
<1> QED
  BY <1>1, <1>2, <1>4, <1>5, <1>6, <1>7 DEF Picture

\* What the scan has judged stays as it is while processes come and go.
LEMMA WorldKeeps ==
    ASSUME ScanKept, Picture(processes'), UNCHANGED <<scan, report>>
    PROVE  ScanKept'
BY DEF ScanKept, ScanInvariant, ScanTypeOK, OwnAreSpared, EachIsAnswered, OneNotice, Picture

LEMMA ReadKeeps ==
    ASSUME ScanKept, ReadProcesses
    PROVE  ScanKept'
<1>1. /\ scan'.at = "read" /\ scan'.seen = processes /\ scan'.judged = <<>>
      /\ scan'.left = {} /\ scan'.named = {} /\ ScanRecord(scan')
      /\ UNCHANGED <<processes, report>>
  BY DEF ReadProcesses, NotScanning, ScanRecord
<1>2. report' = NoReport
  BY <1>1 DEF ReadProcesses, ScanKept
<1>3. (OwnAreSpared /\ EachIsAnswered /\ OneNotice)' /\ report' \in KillReports
  BY <1>1, <1>2, NothingJudged, FS_EmptySet
     DEF OwnAreSpared, EachIsAnswered, OneNotice, NoReport, KillReports
<1>4. ScanTypeOK'
  BY <1>1 DEF ScanKept, ScanInvariant, ScanTypeOK
<1> QED
  BY <1>1, <1>2, <1>3, <1>4 DEF ScanKept, ScanInvariant, Picture

LEMMA JudgeKeeps ==
    ASSUME ScanKept, Judge
    PROVE  ScanKept'
<1>0. /\ scan.at = "read" /\ Picture(scan.seen) /\ ScanRecord(scan)
      /\ UNCHANGED <<processes, policy>>
  BY DEF Judge, ScanKept
<1> DEFINE seen == scan.seen
           judged == Judged(seen)
<1>1. CASE judged = {}
  <2>1. scan' = NotScanning /\ report' = report
    BY <1>1 DEF Judge
  <2>2. /\ scan'.at = "idle" /\ scan'.judged = <<>> /\ scan'.left = {}
        /\ scan'.named = {} /\ ScanRecord(scan')
    BY <2>1 DEF NotScanning, ScanRecord
  <2>3. report' = NoReport
    BY <1>0, <2>1 DEF ScanKept
  <2>4. (OwnAreSpared /\ EachIsAnswered /\ OneNotice)' /\ report' \in KillReports
    BY <2>2, <2>3, NothingJudged, FS_EmptySet
       DEF OwnAreSpared, EachIsAnswered, OneNotice, NoReport, KillReports
  <2>5. ScanTypeOK'
    BY <1>0, <2>2 DEF ScanKept, ScanInvariant, ScanTypeOK
  <2> QED
    BY <1>0, <2>2, <2>3, <2>4, <2>5 DEF ScanKept, ScanInvariant, Picture
<1>2. CASE judged # {}
  <2>1. PICK named \in Named(seen) :
            scan' = [scan EXCEPT !.at = "kill", !.left = judged,
                       !.judged = [p \in judged |-> EventKind(seen, p)], !.named = named]
    BY <1>2 DEF Judge
  <2> DEFINE kinds == [p \in judged |-> EventKind(seen, p)]
  <2>2. DOMAIN kinds = judged /\ \A p \in judged : kinds[p] = EventKind(seen, p)
    OBVIOUS
  <2>3. judged \subseteq DOMAIN seen
    BY DEF Judged
  <2>4. report' = NoReport
    BY <1>2 DEF Judge
  <2>5. /\ named \subseteq judged
        /\ Cardinality({p \in named : EventKind(seen, p) = "app_killed_allowlist"}) <= 1
    BY NamedOnce
  <2>6. \A p \in judged : EventKind(seen, p) # "browser_killed_extension_stale" =>
            /\ p \notin {Systemd, Self} /\ ~Is(seen[p], Component)
            /\ EventKind(seen, p) = "app_killed_allowlist" =>
                  /\ seen[p].regular
                  /\ ~Is(seen[seen[p].parent], Component)
                  /\ ~Is(seen[seen[seen[p].parent].parent], Component)
    BY <1>0, JudgedAreStrange
  <2>12. {Systemd, Self} \cap judged = {}
    BY <1>0, OwnAreNotJudged
  <2> HIDE DEF judged, kinds
  <2>7. /\ scan'.at = "kill" /\ scan'.seen = seen /\ scan'.judged = kinds
        /\ scan'.left = judged /\ scan'.named = named /\ ScanRecord(scan')
    BY <1>0, <2>1 DEF ScanRecord, kinds
  <2>8. OwnAreSpared'
    BY <2>2, <2>6, <2>7 DEF OwnAreSpared, Is, Identity
  <2>9. OneNotice'
    <3>1. {p \in named : kinds[p] = "app_killed_allowlist"}
             = {p \in named : EventKind(seen, p) = "app_killed_allowlist"}
      BY <2>2, <2>5
    <3> QED
      BY <2>5, <2>7, <3>1 DEF OneNotice
  <2>10. EachIsAnswered' /\ report' \in KillReports
    BY <2>2, <2>4, <2>7 DEF EachIsAnswered, NoReport, KillReports
  <2>11. ScanTypeOK'
    BY <1>0, <2>2, <2>5, <2>7 DEF ScanKept, ScanInvariant, ScanTypeOK
  <2> QED
    BY <1>0, <2>2, <2>7, <2>8, <2>9, <2>10, <2>11, <2>12 DEF ScanKept, ScanInvariant, Picture
<1> QED
  BY <1>1, <1>2

LEMMA KillKeeps ==
    ASSUME ScanKept, NEW p \in AllPids, Kill(p)
    PROVE  ScanKept'
<1>0. /\ scan.at = "kill" /\ p \in scan.left /\ ScanRecord(scan) /\ report \in KillReports
      /\ Picture(processes)
      /\ scan.left \subseteq DOMAIN scan.judged
  BY DEF Kill, ScanKept, ScanInvariant, ScanTypeOK
<1>1. /\ scan'.at = "kill" /\ scan'.seen = scan.seen /\ scan'.judged = scan.judged
      /\ scan'.left = scan.left \ {p} /\ scan'.named = scan.named /\ ScanRecord(scan')
  BY <1>0 DEF Kill, ScanRecord
<1>2. \/ /\ report' = [report EXCEPT !.gone = @ \cup {p}]
         /\ processes' = processes
      \/ /\ report' = [report EXCEPT !.events = @ \cup {p}]
         /\ p \in DOMAIN processes /\ processes' \in {processes, Without(p)}
      \/ /\ report' = [report EXCEPT !.failures = @ \cup {p}]
         /\ processes' = processes
  BY DEF Kill
<1>3. report' \in KillReports
      /\ \/ /\ report'.gone = report.gone \cup {p}
            /\ report'.events = report.events /\ report'.failures = report.failures
         \/ /\ report'.events = report.events \cup {p}
            /\ report'.gone = report.gone /\ report'.failures = report.failures
         \/ /\ report'.failures = report.failures \cup {p}
            /\ report'.events = report.events /\ report'.gone = report.gone
  BY <1>0, <1>2 DEF KillReports
<1>4. EachIsAnswered'
  BY <1>0, <1>1, <1>3 DEF ScanKept, ScanInvariant, EachIsAnswered, KillReports
<1>5. OwnAreSpared' /\ OneNotice'
  <2>1. OwnAreSpared'
    BY <1>1 DEF ScanKept, ScanInvariant, OwnAreSpared, Is, Identity
  <2>2. OneNotice'
    BY <1>1 DEF ScanKept, ScanInvariant, OneNotice
  <2> QED
    BY <2>1, <2>2
<1>6. Picture(processes')
  <2>1. p \in Pids
    BY <1>0 DEF ScanKept, AllPids
  <2> QED
    BY <1>0, <1>2, <2>1, WithoutGives
<1>7. ScanTypeOK'
  BY <1>1, <1>6 DEF ScanKept, ScanInvariant, ScanTypeOK, Picture
<1> QED
  BY <1>1, <1>3, <1>4, <1>5, <1>6, <1>7 DEF ScanKept, ScanInvariant

LEMMA RecordKeeps ==
    ASSUME ScanKept, Record
    PROVE  ScanKept'
<1>1. /\ scan'.at = "idle" /\ scan'.judged = <<>> /\ scan'.left = {}
      /\ scan'.named = {} /\ ScanRecord(scan') /\ report' = NoReport
      /\ processes' = processes
  BY DEF Record, NotScanning, ScanRecord
<1>2. (OwnAreSpared /\ EachIsAnswered /\ OneNotice)' /\ report' \in KillReports
  BY <1>1, NothingJudged, FS_EmptySet
     DEF OwnAreSpared, EachIsAnswered, OneNotice, NoReport, KillReports
<1>3. ScanTypeOK'
  BY <1>1 DEF ScanKept, ScanInvariant, ScanTypeOK
<1> QED
  BY <1>1, <1>2, <1>3 DEF ScanKept, ScanInvariant

LEMMA ScanStep == ScanKept /\ [ScanNext]_scanVars => ScanKept'
<1> SUFFICES ASSUME ScanKept, [ScanNext]_scanVars PROVE ScanKept'
  OBVIOUS
<1>0. Picture(processes)
  BY DEF ScanKept
<1>1. CASE ReadProcesses \/ Judge \/ Record
  BY <1>1, ReadKeeps, JudgeKeeps, RecordKeeps
<1>2. ASSUME NEW p \in AllPids, Kill(p) PROVE ScanKept'
  BY <1>2, KillKeeps
<1>3. ASSUME NEW p \in Pids, NEW parent \in Pids \cup {Systemd}, NEW program \in Programs,
             StartProcess(p, parent, program)
      PROVE  ScanKept'
  BY <1>0, <1>3, StartGives, WorldKeeps DEF StartProcess
<1>4. ASSUME NEW p \in Pids, EndProcess(p) PROVE ScanKept'
  BY <1>0, <1>4, WithoutGives, WorldKeeps DEF EndProcess
<1>5. CASE UNCHANGED scanVars
  BY <1>0, <1>5, WorldKeeps DEF scanVars
<1> QED
  BY <1>1, <1>2, <1>3, <1>4, <1>5 DEF ScanNext, Scan

\* However many processes start, end and lose their parents while a scan goes on,
\* no application rule lists init, the daemon, a component or, by the allowlist,
\* what a component started; each listed process has one outcome, and an allowlist
\* names one (scan_processes_once, application_allowlist_exempt_process_ids).
THEOREM ScansSpareTheirOwn == ScanSpec => []ScanInvariant
<1>1. ScanKept => ScanInvariant
  BY DEF ScanKept
<1> QED
  BY <1>1, ScanStart, ScanStep, PTL DEF ScanSpec

-----------------------------------------------------------------------------
(* The watch's inductive invariant.                                         *)

\* A call under way sampled its time no longer than MaxDelay ago, and counts for
\* the browser that made it if that gave its own name.
BeatsKept ==
    \A b \in Browsers : beat[b] # None =>
        /\ beat[b].at <= time.wall /\ time.wall - beat[b].at <= MaxDelay
        /\ beat[b].mine => beat[b].component = b

\* A report that is overwritten is overwritten by one not much older.
OwnKept ==
    \A b \in Browsers : ghost.own[b] # None =>
        /\ ghost.own[b] <= time.wall
        /\ heartbeat[b] # None /\ ghost.own[b] - heartbeat[b] <= MaxDelay

\* A window ends in time; a browser that was deferred, and was not heard or found
\* healthy since, is in no position to be given another window.
WindowsKept ==
    \A b \in Browsers :
        /\ grace.window[b] # None => grace.window[b].deadline <= time.mono + Reconnect
        /\ ghost.deferredFrom[b] # None =>
              /\ grace.lastScan # None /\ b \notin grace.healthy
              /\ grace.window[b] # None =>
                    grace.window[b].deadline <= ghost.deferredFrom[b] + Reconnect

\* A session began in the past, and that of a browser found silent is as old.
SilenceKept ==
    \A b \in Browsers :
        /\ session[b] # None => session[b] <= time.wall
        /\ ghost.silentFrom[b] # None =>
              /\ session[b] # None
              /\ time.mono - ghost.silentFrom[b] <= time.wall - session[b]

WatchKept == WatchTypeOK /\ BeatsKept /\ OwnKept /\ WindowsKept /\ SilenceKept

-----------------------------------------------------------------------------
\* The greater of two numbers.
LEMMA MaxOfTwo ==
    ASSUME NEW m \in Nat, NEW n \in Nat
    PROVE  Max({m, n}) \in Nat /\ Max({m, n}) >= m /\ Max({m, n}) >= n
<1>1. \E x \in {m, n} : \A y \in {m, n} : x >= y
  <2>1. CASE m >= n
    BY <2>1
  <2>2. CASE n >= m
    BY <2>2
  <2> QED
    BY <2>1, <2>2
<1>2. Max({m, n}) \in {m, n} /\ \A y \in {m, n} : Max({m, n}) >= y
  BY <1>1 DEF Max
<1> QED
  BY <1>2

LEMMA StartupIsLonger == StartupGrace \in Nat /\ StartupGrace >= Grace
BY MaxOfTwo, BrowserWatchAssumption DEF StartupGrace

\* The only browser that runs is the one that reports.
LEMMA OnlyOneRuns ==
    ASSUME Cardinality(Running) = 1
    PROVE  (CHOOSE b \in Running : TRUE) \in Running
           /\ \A b \in Running : (CHOOSE c \in Running : TRUE) = b
<1>1. IsFiniteSet(Running)
  BY FS_Subset, BrowserWatchAssumption DEF Running
<1>2. PICK only : Running = {only}
  BY <1>1, FS_Singleton
<1> QED
  BY <1>2

LEMMA ResolvedGives ==
    ASSUME NEW reported \in Browsers
    PROVE  Resolved(reported) \in Browsers
           /\ (reported \in Running => Resolved(reported) = reported)
<1>1. CASE reported = Generic /\ Cardinality(Running) = 1
  BY <1>1, OnlyOneRuns DEF Resolved, Running
<1>2. CASE ~(reported = Generic /\ Cardinality(Running) = 1)
  BY <1>2 DEF Resolved
<1> QED
  BY <1>1, <1>2

-----------------------------------------------------------------------------
LEMMA WatchStart == WatchInit => WatchKept
<1> SUFFICES ASSUME WatchInit PROVE WatchKept
  OBVIOUS
<1>1. WatchTypeOK
  BY BrowserWatchAssumption
     DEF WatchInit, WatchTypeOK, Launches, Times, Beats, Windows, NoRows, Started, NotWatching
<1>2. BeatsKept /\ OwnKept /\ WindowsKept /\ SilenceKept
  BY DEF WatchInit, BeatsKept, OwnKept, WindowsKept, SilenceKept, NoRows, Started
<1> QED
  BY <1>1, <1>2 DEF WatchKept

LEMMA SampleKeeps ==
    ASSUME WatchKept, NEW b \in Browsers, NEW reported \in Browsers, SampleBeat(b, reported)
    PROVE  WatchKept'
<1> DEFINE new == [at |-> time.wall, component |-> Resolved(reported),
                   mine |-> reported = b, launch |-> opened[b].number]
<1>1. /\ b \in Running /\ beat' = [beat EXCEPT ![b] = new]
      /\ UNCHANGED <<time, opened, heartbeat, session, grace, strict, trusted, watch, setup, ghost>>
  BY DEF SampleBeat, tables
<1>2. /\ new \in Beats /\ new.at = time.wall
      /\ new.mine => new.component = b
  <2>1. opened[b].number \in Nat
    BY <1>1 DEF WatchKept, WatchTypeOK, Launches, Running
  <2> QED
    BY <1>1, <2>1, ResolvedGives DEF Beats, WatchKept, WatchTypeOK
<1> HIDE DEF new
<1>3. WatchTypeOK'
  BY <1>1, <1>2 DEF WatchKept, WatchTypeOK, Seen
<1>4. BeatsKept'
  BY <1>1, <1>2, BrowserWatchAssumption DEF WatchKept, WatchTypeOK, BeatsKept
<1> QED
  BY <1>1, <1>3, <1>4 DEF WatchKept, OwnKept, WindowsKept, SilenceKept

LEMMA WriteKeeps ==
    ASSUME WatchKept, NEW b \in Browsers, WriteBeat(b)
    PROVE  WatchKept'
<1> DEFINE c == beat[b].component
           t == beat[b].at
<1>1. /\ beat[b] # None /\ heartbeat' = [heartbeat EXCEPT ![c] = t]
      /\ beat' = [beat EXCEPT ![b] = None] /\ ghost' = Connected(ghost, b, c)
      /\ UNCHANGED <<time, opened, session, grace, strict, trusted, watch, setup>>
  BY DEF WriteBeat
<1>2. /\ c \in Browsers /\ t \in Nat /\ t <= time.wall /\ time.wall - t <= MaxDelay
      /\ beat[b].mine => c = b
  BY <1>1 DEF WatchKept, WatchTypeOK, Beats, BeatsKept
<1> HIDE DEF c, t
<1>3. /\ ghost'.own \in {ghost.own, [ghost.own EXCEPT ![b] = t]}
      /\ ghost'.own # ghost.own => c = b
      /\ ghost'.deferredFrom = [ghost.deferredFrom EXCEPT ![c] = None]
      /\ ghost'.silentFrom = [ghost.silentFrom EXCEPT ![c] = None]
      /\ ghost' = [own |-> ghost'.own, deferredFrom |-> ghost'.deferredFrom,
                   silentFrom |-> ghost'.silentFrom]
  BY <1>1, <1>2 DEF Connected, t
<1>4. WatchTypeOK'
  <2>1. ghost' \in [own : Times, deferredFrom : Times, silentFrom : Times]
    BY <1>2, <1>3 DEF WatchKept, WatchTypeOK, Times
  <2>2. heartbeat' \in Times /\ beat' \in [Browsers -> Beats \cup {None}]
    BY <1>1, <1>2 DEF WatchKept, WatchTypeOK, Times
  <2> QED
    BY <1>1, <2>1, <2>2 DEF WatchKept, WatchTypeOK, Seen
<1>5. BeatsKept'
  BY <1>1 DEF WatchKept, WatchTypeOK, BeatsKept
<1>6. OwnKept'
  <2> SUFFICES ASSUME NEW d \in Browsers, ghost'.own[d] # None
               PROVE  /\ ghost'.own[d] <= time.wall
                      /\ heartbeat'[d] # None /\ ghost'.own[d] - heartbeat'[d] <= MaxDelay
    BY <1>1 DEF OwnKept
  <2>1. CASE ghost'.own[d] = ghost.own[d]
    BY <1>1, <1>2, <2>1, BrowserWatchAssumption DEF WatchKept, WatchTypeOK, Times, OwnKept
  <2>2. CASE ghost'.own[d] # ghost.own[d]
    <3>1. c = b /\ d = b /\ ghost'.own[d] = t
      BY <1>3, <2>2 DEF WatchKept, WatchTypeOK, Times
    <3> QED
      BY <1>1, <1>2, <3>1, BrowserWatchAssumption DEF WatchKept, WatchTypeOK, Times
  <2> QED
    BY <2>1, <2>2
<1>7. WindowsKept' /\ SilenceKept'
  <2>1. \A d \in Browsers :
           /\ ghost'.deferredFrom[d] # None => ghost'.deferredFrom[d] = ghost.deferredFrom[d]
           /\ ghost'.silentFrom[d] # None => ghost'.silentFrom[d] = ghost.silentFrom[d]
    BY <1>3 DEF WatchKept, WatchTypeOK, Times
  <2> QED
    BY <1>1, <2>1 DEF WatchKept, WindowsKept, SilenceKept
<1> QED
  BY <1>4, <1>5, <1>6, <1>7 DEF WatchKept

LEMMA ReadBrowsersKeeps ==
    ASSUME WatchKept, ReadBrowsers
    PROVE  WatchKept'
<1>1. /\ watch' = [at |-> "read", seen |-> opened, kills |-> {}]
      /\ UNCHANGED <<time, opened, beat, heartbeat, session, grace, strict, trusted, setup, ghost>>
  BY DEF ReadBrowsers, NotWatching, tables
<1>2. WatchTypeOK'
  BY <1>1 DEF WatchKept, WatchTypeOK
<1> QED
  BY <1>1, <1>2 DEF WatchKept, BeatsKept, OwnKept, WindowsKept, SilenceKept

LEMMA KillProcessesKeeps ==
    ASSUME WatchKept, KillProcesses
    PROVE  WatchKept'
<1>1. /\ watch' = [at |-> "idle", seen |-> NoRows, kills |-> {}]
      /\ opened' \in Launches
      /\ UNCHANGED <<time, beat, heartbeat, session, grace, strict, trusted, setup, ghost>>
  BY DEF KillProcesses, NotWatching, tables, WatchKept, WatchTypeOK, Launches
<1>2. WatchTypeOK'
  BY <1>1 DEF WatchKept, WatchTypeOK, Launches, NoRows
<1> QED
  BY <1>1, <1>2 DEF WatchKept, BeatsKept, OwnKept, WindowsKept, SilenceKept

LEMMA LaunchKeeps ==
    ASSUME WatchKept, NEW b \in Browsers, Launch(b)
    PROVE  WatchKept'
<1> DEFINE new == [number |-> setup.launches, since |-> time.wall]
<1>1. /\ setup.launches > 0
      /\ setup' = [setup EXCEPT !.launches = @ - 1]
      /\ opened' = [opened EXCEPT ![b] = new]
      /\ ghost' = [own |-> [ghost.own EXCEPT ![b] = None],
                   deferredFrom |-> [ghost.deferredFrom EXCEPT ![b] = None],
                   silentFrom |-> [ghost.silentFrom EXCEPT ![b] = None]]
      /\ UNCHANGED <<time, beat, heartbeat, session, grace, strict, trusted, watch>>
  BY DEF Launch, tables
<1>2. WatchTypeOK'
  <2>1. new \in [number : Nat, since : Nat]
    BY DEF WatchKept, WatchTypeOK
  <2>2. opened' \in Launches
    BY <1>1, <2>1 DEF WatchKept, WatchTypeOK, Launches
  <2>3. ghost' \in [own : Times, deferredFrom : Times, silentFrom : Times]
    BY <1>1 DEF WatchKept, WatchTypeOK, Times
  <2> QED
    BY <1>1, <2>2, <2>3 DEF WatchKept, WatchTypeOK, Seen
<1>3. \A d \in Browsers :
         /\ ghost'.own[d] # None => ghost'.own[d] = ghost.own[d]
         /\ ghost'.deferredFrom[d] # None => ghost'.deferredFrom[d] = ghost.deferredFrom[d]
         /\ ghost'.silentFrom[d] # None => ghost'.silentFrom[d] = ghost.silentFrom[d]
  BY <1>1 DEF WatchKept, WatchTypeOK, Times
<1> QED
  BY <1>1, <1>2, <1>3 DEF WatchKept, BeatsKept, OwnKept, WindowsKept, SilenceKept

LEMMA CloseKeeps ==
    ASSUME WatchKept, NEW b \in Browsers, Close(b)
    PROVE  WatchKept'
<1>1. /\ opened' \in Launches
      /\ UNCHANGED <<time, beat, heartbeat, session, grace, strict, trusted, watch, setup, ghost>>
  BY DEF Close, tables, WatchKept, WatchTypeOK, Launches
<1>2. WatchTypeOK'
  BY <1>1 DEF WatchKept, WatchTypeOK, Seen
<1> QED
  BY <1>1, <1>2 DEF WatchKept, BeatsKept, OwnKept, WindowsKept, SilenceKept

\* Time that passes, awake or asleep: the wall's clock gains what the other does or more.
LEMMA TimeKeeps ==
    ASSUME WatchKept, NEW awake \in Nat, NEW passed \in Nat, awake <= passed,
           time' = [wall |-> time.wall + passed, mono |-> time.mono + awake],
           InTime(passed), setup' \in {setup, [setup EXCEPT !.troubles = @ - 1]},
           setup' # setup => setup.troubles > 0,
           UNCHANGED <<opened, beat, heartbeat, session, grace, strict, trusted, watch, ghost>>
    PROVE  WatchKept'
<1>1. /\ time.wall \in Nat /\ time.mono \in Nat
      /\ time'.wall = time.wall + passed /\ time'.mono = time.mono + awake
      /\ ghost.own \in Times /\ ghost.deferredFrom \in Times /\ ghost.silentFrom \in Times
      /\ heartbeat \in Times /\ session \in Times
  BY DEF WatchKept, WatchTypeOK
<1>2. WatchTypeOK'
  BY <1>1 DEF WatchKept, WatchTypeOK, Seen
<1>3. BeatsKept'
  BY <1>1 DEF WatchKept, WatchTypeOK, BeatsKept, Beats, InTime
<1>4. OwnKept'
  BY <1>1 DEF WatchKept, OwnKept, Times
<1>5. WindowsKept'
  BY <1>1, BrowserWatchAssumption DEF WatchKept, WatchTypeOK, WindowsKept, Windows
<1>6. SilenceKept'
  BY <1>1 DEF WatchKept, SilenceKept, Times
<1> QED
  BY <1>2, <1>3, <1>4, <1>5, <1>6 DEF WatchKept

LEMMA TickKeeps ==
    ASSUME WatchKept, Tick
    PROVE  WatchKept'
<1>1. UNCHANGED <<opened, beat, heartbeat, session, grace, strict, trusted, watch, ghost>>
      /\ time' = [wall |-> time.wall + 1, mono |-> time.mono + 1]
      /\ InTime(1) /\ setup' = setup
  BY DEF Tick, tables
<1> QED
  BY <1>1, TimeKeeps

LEMMA SleepKeeps ==
    ASSUME WatchKept, Sleep
    PROVE  WatchKept'
<1>1. UNCHANGED <<opened, beat, heartbeat, session, grace, strict, trusted, watch, ghost>>
      /\ time' = [time EXCEPT !.wall = @ + SleepTime]
      /\ InTime(SleepTime) /\ setup.troubles > 0
      /\ setup' = [setup EXCEPT !.troubles = @ - 1]
  BY DEF Sleep, tables
<1>2. time' = [wall |-> time.wall + SleepTime, mono |-> time.mono + 0]
  BY <1>1 DEF WatchKept, WatchTypeOK
<1>3. SleepTime \in Nat /\ 0 \in Nat /\ 0 <= SleepTime
  BY BrowserWatchAssumption
<1> QED
  BY <1>1, <1>2, <1>3, TimeKeeps

LEMMA RestartKeeps ==
    ASSUME WatchKept, RestartDaemon
    PROVE  WatchKept'
<1>1. /\ setup.troubles > 0 /\ setup' = [setup EXCEPT !.troubles = @ - 1]
      /\ grace' = [lastScan |-> None, healthy |-> {}, window |-> NoRows]
      /\ watch' = [at |-> "idle", seen |-> NoRows, kills |-> {}]
      /\ beat' = NoRows
      /\ ghost' = [ghost EXCEPT !.deferredFrom = NoRows, !.silentFrom = NoRows]
      /\ UNCHANGED <<time, opened, heartbeat, session, strict, trusted>>
  BY DEF RestartDaemon, Started, NotWatching, tables
<1>2. WatchTypeOK'
  <2>1. NoRows \in Times /\ NoRows \in Launches
        /\ NoRows \in [Browsers -> Beats \cup {None}]
        /\ NoRows \in [Browsers -> Windows \cup {None}]
    BY DEF NoRows, Times, Launches
  <2>2. ghost' \in [own : Times, deferredFrom : Times, silentFrom : Times]
    BY <1>1, <2>1 DEF WatchKept, WatchTypeOK
  <2>3. /\ grace' \in [lastScan : Nat \cup {None}, healthy : SUBSET Browsers,
                       window : [Browsers -> Windows \cup {None}]]
        /\ watch' \in [at : {"idle", "read", "judged"}, seen : Launches,
                       kills : SUBSET Browsers]
        /\ watch'.kills = {}
    BY <1>1, <2>1
  <2> QED
    BY <1>1, <2>1, <2>2, <2>3 DEF WatchKept, WatchTypeOK
<1>3. ghost'.own = ghost.own /\ ghost'.deferredFrom = NoRows /\ ghost'.silentFrom = NoRows
  BY <1>1 DEF WatchKept, WatchTypeOK
<1> QED
  BY <1>1, <1>2, <1>3
     DEF WatchKept, BeatsKept, OwnKept, WindowsKept, SilenceKept, NoRows

LEMMA SwitchKeeps ==
    ASSUME WatchKept, Switch
    PROVE  WatchKept'
<1>1. /\ setup.troubles > 0 /\ setup' = [setup EXCEPT !.troubles = @ - 1]
      /\ strict' \in BOOLEAN /\ trusted' \in BOOLEAN
      /\ UNCHANGED <<time, opened, beat, heartbeat, session, grace, watch, ghost>>
  BY DEF Switch, tables, WatchKept, WatchTypeOK
<1>2. WatchTypeOK'
  BY <1>1 DEF WatchKept, WatchTypeOK, Seen
<1> QED
  BY <1>1, <1>2 DEF WatchKept, BeatsKept, OwnKept, WindowsKept, SilenceKept

-----------------------------------------------------------------------------
(* The judgement.                                                           *)

LEMMA HealthyIsCurrent ==
    ASSUME NEW b \in Browsers, HealthyAfter(b)
    PROVE  Healthy(b) /\ WindowAfter(b) = None
BY DEF HealthyAfter, WindowAfter, Reconnected

\* The window a judgement leaves open was open, or it is a new one.
LEMMA WindowGives ==
    ASSUME WatchTypeOK, NEW b \in Browsers
    PROVE  WindowAfter(b) \in {None, grace.window[b],
                               [start |-> time.wall, deadline |-> time.mono + Reconnect]}
BY DEF WindowAfter

\* A deferred browser that was deferred before keeps the window it has.
LEMMA DeferredKeepsWindow ==
    ASSUME WatchKept, NEW b \in Browsers, ghost.deferredFrom[b] # None,
           WindowAfter(b) # None
    PROVE  WindowAfter(b) = grace.window[b] /\ grace.window[b] # None
<1>1. grace.lastScan # None /\ b \notin grace.healthy
  BY DEF WatchKept, WindowsKept
<1>2. ~Recovering(b)
  BY <1>1 DEF Recovering, FirstScan
<1> QED
  BY <1>2 DEF WindowAfter

LEMMA JudgeBrowsersKeeps ==
    ASSUME WatchKept, JudgeBrowsers
    PROVE  WatchKept'
<1> DEFINE deferredFrom(b) == IF b \in Deferred THEN First(time.mono, ghost.deferredFrom[b])
                              ELSE IF Healthy(b) THEN None ELSE ghost.deferredFrom[b]
           silentFrom(b) == IF Silent(b) THEN First(time.mono, ghost.silentFrom[b]) ELSE None
           began(b) == IF b \notin WatchedBrowsers THEN session[b]
                         ELSE IF Seen(b) THEN SessionStart(b) ELSE None
<1>1. /\ watch.at = "read"
      /\ grace' = IF trusted THEN GraceAfter ELSE grace
      /\ session' = [b \in Browsers |-> began(b)]
      /\ watch' = IF KillList = {} THEN NotWatching
                 ELSE [watch EXCEPT !.at = "judged", !.kills = KillList]
      /\ ghost' = [ghost EXCEPT !.deferredFrom = [b \in Browsers |-> deferredFrom(b)],
                                !.silentFrom = [b \in Browsers |-> silentFrom(b)]]
      /\ UNCHANGED <<time, opened, beat, heartbeat, strict, trusted, setup>>
  BY DEF JudgeBrowsers
<1>2. /\ time.wall \in Nat /\ time.mono \in Nat /\ Reconnect \in Nat
      /\ heartbeat \in Times /\ session \in Times
      /\ ghost.own \in Times /\ ghost.deferredFrom \in Times /\ ghost.silentFrom \in Times
      /\ grace.window \in [Browsers -> Windows \cup {None}]
  BY BrowserWatchAssumption DEF WatchKept, WatchTypeOK
<1>3. \A b \in Browsers :
         /\ deferredFrom(b) \in Nat \cup {None}
         /\ silentFrom(b) \in Nat \cup {None}
         /\ began(b) \in Nat \cup {None}
  BY <1>2 DEF First, SessionStart, Times
<1>4. ghost'.own = ghost.own
      /\ \A b \in Browsers : /\ ghost'.deferredFrom[b] = deferredFrom(b)
                             /\ ghost'.silentFrom[b] = silentFrom(b)
                             /\ session'[b] = began(b)
  BY <1>1 DEF WatchKept, WatchTypeOK
<1> HIDE DEF deferredFrom, silentFrom, began
<1>5. WatchTypeOK'
  <2>1. ghost' \in [own : Times, deferredFrom : Times, silentFrom : Times]
        /\ session' \in Times
    BY <1>1, <1>2, <1>3 DEF WatchKept, WatchTypeOK, Times
  <2>2. \A b \in Browsers : WindowAfter(b) \in Windows \cup {None}
    BY <1>2, WindowGives DEF WatchKept, Windows
  <2>3. GraceAfter \in [lastScan : Nat \cup {None}, healthy : SUBSET Browsers,
                        window : [Browsers -> Windows \cup {None}]]
    BY <1>2, <2>2 DEF GraceAfter
  <2>4. /\ watch' \in [at : {"idle", "read", "judged"}, seen : Launches, kills : SUBSET Browsers]
        /\ watch'.kills \subseteq {b \in Browsers : Seen(b)'}
    <3>1. CASE KillList = {}
      BY <1>1, <3>1 DEF NotWatching, NoRows, Launches
    <3>2. CASE KillList # {}
      <4>1. KillList \subseteq {b \in Browsers : Seen(b)}
        BY DEF KillList, WatchedBrowsers
      <4>2. watch' \in [at : {"idle", "read", "judged"}, seen : Launches,
                        kills : SUBSET Browsers]
            /\ watch'.kills = KillList /\ watch'.seen = watch.seen
        BY <1>1, <3>2, <4>1 DEF WatchKept, WatchTypeOK
      <4> QED
        BY <4>1, <4>2 DEF Seen
    <3> QED
      BY <3>1, <3>2
  <2> QED
    BY <1>1, <2>1, <2>3, <2>4 DEF WatchKept, WatchTypeOK
<1>6. BeatsKept' /\ OwnKept'
  BY <1>1, <1>4 DEF WatchKept, BeatsKept, OwnKept
<1>7. WindowsKept'
  <2> SUFFICES ASSUME NEW b \in Browsers
               PROVE  /\ grace'.window[b] # None =>
                            grace'.window[b].deadline <= time.mono + Reconnect
                      /\ deferredFrom(b) # None =>
                            /\ grace'.lastScan # None /\ b \notin grace'.healthy
                            /\ grace'.window[b] # None =>
                                  grace'.window[b].deadline <= deferredFrom(b) + Reconnect
    BY <1>1, <1>4 DEF WindowsKept
  <2>1. /\ grace.window[b] # None => grace.window[b].deadline <= time.mono + Reconnect
        /\ ghost.deferredFrom[b] # None =>
              /\ grace.lastScan # None /\ b \notin grace.healthy
              /\ grace.window[b] # None =>
                    grace.window[b].deadline <= ghost.deferredFrom[b] + Reconnect
    BY DEF WatchKept, WindowsKept
  <2>2. CASE ~trusted
    BY <1>1, <2>1, <2>2 DEF deferredFrom, Deferred
  <2>3. CASE trusted
    <3>1. /\ grace'.lastScan = time.mono /\ grace'.window[b] = WindowAfter(b)
          /\ b \in grace'.healthy <=> HealthyAfter(b)
      BY <1>1, <2>3 DEF GraceAfter
    <3>2. grace'.lastScan # None
      BY <1>2, <3>1, BrowserWatchAssumption
    <3>3. WindowAfter(b) # None => WindowAfter(b).deadline <= time.mono + Reconnect
      BY <1>2, <2>1, WindowGives DEF WatchKept
    <3>4. CASE b \in Deferred
      <4>1. WindowAfter(b) # None /\ ~HealthyAfter(b)
        BY <2>3, <3>4, HealthyIsCurrent DEF Deferred, DeferredBrowsers
      <4>2. CASE ghost.deferredFrom[b] = None
        BY <3>1, <3>2, <3>3, <3>4, <4>1, <4>2 DEF deferredFrom, First
      <4>3. CASE ghost.deferredFrom[b] # None
        BY <2>1, <3>1, <3>2, <3>3, <3>4, <4>1, <4>3, DeferredKeepsWindow
           DEF deferredFrom, First
      <4> QED
        BY <4>2, <4>3
    <3>5. CASE b \notin Deferred /\ Healthy(b)
      BY <3>1, <3>3, <3>5 DEF deferredFrom
    <3>6. CASE b \notin Deferred /\ ~Healthy(b)
      BY <2>1, <3>1, <3>2, <3>3, <3>6, HealthyIsCurrent, DeferredKeepsWindow
         DEF deferredFrom
    <3> QED
      BY <3>4, <3>5, <3>6
  <2> QED
    BY <2>2, <2>3
<1>8. SilenceKept'
  <2> SUFFICES ASSUME NEW b \in Browsers
               PROVE  /\ began(b) # None => began(b) <= time.wall
                      /\ silentFrom(b) # None =>
                            /\ began(b) # None
                            /\ time.mono - silentFrom(b) <= time.wall - began(b)
    BY <1>1, <1>4 DEF SilenceKept
  <2>1. /\ session[b] # None => session[b] <= time.wall
        /\ ghost.silentFrom[b] # None =>
              /\ session[b] # None
              /\ time.mono - ghost.silentFrom[b] <= time.wall - session[b]
    BY DEF WatchKept, SilenceKept
  <2>2. began(b) # None => began(b) <= time.wall
    BY <1>2, <2>1 DEF began, SessionStart
  <2>3. ASSUME Silent(b) PROVE began(b) = SessionStart(b)
    BY <2>3 DEF Silent, began
  <2>4. SessionStart(b) \in Nat /\ SessionStart(b) # None /\ SessionStart(b) <= time.wall
    BY <1>2, <2>1, BrowserWatchAssumption DEF SessionStart, Times
  <2>5. ASSUME Silent(b), ghost.silentFrom[b] = None
        PROVE  time.mono - silentFrom(b) <= time.wall - began(b)
    BY <1>2, <2>3, <2>4, <2>5 DEF silentFrom, First
  <2>6. ASSUME Silent(b), ghost.silentFrom[b] # None
        PROVE  time.mono - silentFrom(b) <= time.wall - began(b)
    BY <2>1, <2>3, <2>6 DEF silentFrom, First, SessionStart
  <2> QED
    BY <2>2, <2>3, <2>4, <2>5, <2>6 DEF silentFrom
<1> QED
  BY <1>5, <1>6, <1>7, <1>8 DEF WatchKept

LEMMA WatchStep == WatchKept /\ [WatchNext]_watchVars => WatchKept'
<1> SUFFICES ASSUME WatchKept, [WatchNext]_watchVars PROVE WatchKept'
  OBVIOUS
<1>1. ASSUME NEW b \in Browsers, NEW reported \in Browsers, SampleBeat(b, reported)
      PROVE  WatchKept'
  BY <1>1, SampleKeeps
<1>2. ASSUME NEW b \in Browsers, WriteBeat(b) \/ Launch(b) \/ Close(b) PROVE WatchKept'
  BY <1>2, WriteKeeps, LaunchKeeps, CloseKeeps
<1>3. CASE ReadBrowsers \/ JudgeBrowsers \/ KillProcesses
  BY <1>3, ReadBrowsersKeeps, JudgeBrowsersKeeps, KillProcessesKeeps
<1>4. CASE Tick \/ Sleep \/ RestartDaemon \/ Switch
  BY <1>4, TickKeeps, SleepKeeps, RestartKeeps, SwitchKeeps
<1>5. CASE UNCHANGED watchVars
  <2>1. UNCHANGED <<time, opened, beat, heartbeat, session, grace, strict, trusted, watch,
                    setup, ghost>>
    BY <1>5 DEF watchVars
  <2>2. WatchTypeOK'
    BY <2>1 DEF WatchKept, WatchTypeOK, Seen
  <2> QED
    BY <2>1, <2>2 DEF WatchKept, BeatsKept, OwnKept, WindowsKept, SilenceKept
<1> QED
  BY <1>1, <1>2, <1>3, <1>4, <1>5 DEF WatchNext

LEMMA WatchHolds == WatchSpec => []WatchKept
BY WatchStart, WatchStep, PTL DEF WatchSpec

-----------------------------------------------------------------------------
(* What the invariant says of a judgement.                                  *)

LEMMA WatchNumbers ==
    ASSUME WatchKept, NEW b \in Browsers
    PROVE  /\ time.wall \in Nat /\ time.mono \in Nat
           /\ heartbeat[b] \in Nat \cup {None} /\ session[b] \in Nat \cup {None}
           /\ SessionStart(b) \in Nat /\ SessionStart(b) <= time.wall
           /\ Grace \in Nat /\ StartupGrace \in Nat /\ Grace <= StartupGrace
           /\ MaxDelay \in Nat /\ Reconnect \in Nat
BY StartupIsLonger, BrowserWatchAssumption
   DEF WatchKept, WatchTypeOK, Times, SessionStart, SilenceKept

LEMMA KeptSpares == WatchKept => ConnectedIsSpared
<1> SUFFICES ASSUME WatchKept, NEW b \in KillList, ghost.own[b] # None
             PROVE  time.wall - ghost.own[b] > Grace - MaxDelay
  BY DEF ConnectedIsSpared
<1>1. b \in Browsers /\ Unhealthy(b, SessionStart(b))
  BY DEF KillList, WatchedBrowsers
<1>2. /\ heartbeat[b] # None /\ ghost.own[b] - heartbeat[b] <= MaxDelay
      /\ ghost.own[b] \in Nat /\ heartbeat[b] \in Nat
  BY <1>1, WatchNumbers DEF WatchKept, WatchTypeOK, Times, OwnKept
<1>3. CASE heartbeat[b] >= SessionStart(b)
  BY <1>1, <1>2, <1>3, WatchNumbers DEF Unhealthy
<1>4. CASE heartbeat[b] < SessionStart(b)
  <2>1. time.wall - SessionStart(b) > StartupGrace
    BY <1>1, <1>2, <1>4, WatchNumbers DEF Unhealthy
  <2> QED
    BY <1>1, <1>2, <1>4, <2>1, WatchNumbers
<1> QED
  BY <1>1, <1>2, <1>3, <1>4, WatchNumbers

LEMMA KeptDefersOnce == WatchKept => OneWindow
<1> SUFFICES ASSUME WatchKept, NEW b \in Deferred, ghost.deferredFrom[b] # None
             PROVE  time.mono - ghost.deferredFrom[b] <= Reconnect
  BY DEF OneWindow
<1>1. b \in Browsers /\ WindowAfter(b) # None /\ time.mono <= WindowAfter(b).deadline
  BY DEF Deferred, DeferredBrowsers
<1>2. WindowAfter(b) = grace.window[b] /\ grace.window[b] # None
  BY <1>1, DeferredKeepsWindow
<1>3. /\ grace.window[b].deadline <= ghost.deferredFrom[b] + Reconnect
      /\ grace.window[b].deadline \in Nat /\ ghost.deferredFrom[b] \in Nat
  BY <1>1, <1>2 DEF WatchKept, WindowsKept, WatchTypeOK, Windows, Times
<1> QED
  BY <1>1, <1>2, <1>3, WatchNumbers

LEMMA KeptCloses == WatchKept => SilentIsClosed
<1> SUFFICES ASSUME WatchKept, NEW b \in Browsers, Silent(b), ghost.silentFrom[b] # None,
                    time.mono - ghost.silentFrom[b] > StartupGrace
             PROVE  b \in KillList
  BY DEF SilentIsClosed
<1>1. b \in WatchedBrowsers /\ Seen(b) /\ ~Healthy(b)
  BY DEF Silent
<1>2. /\ session[b] # None /\ SessionStart(b) = session[b]
      /\ time.mono - ghost.silentFrom[b] <= time.wall - session[b]
      /\ ghost.silentFrom[b] \in Nat /\ session[b] \in Nat
  BY WatchNumbers DEF WatchKept, WatchTypeOK, Times, SilenceKept, SessionStart
<1>3. Unhealthy(b, SessionStart(b))
  BY <1>1, <1>2, WatchNumbers DEF Unhealthy, Healthy, Current
<1> QED
  BY <1>1, <1>3 DEF KillList

LEMMA KeptAgrees == WatchKept => StatusAgrees
<1> SUFFICES ASSUME WatchKept, strict, opened = watch.seen, NEW b \in Browsers
             PROVE  /\ b \in KillList => Status(b) \notin {"inactive", "starting"}
                    /\ Status(b) = "missing" => b \in KillList \cup Deferred \cup Unconnected
  BY DEF StatusAgrees
<1>1. ASSUME b \in KillList PROVE Status(b) \notin {"inactive", "starting"}
  <2>1. b \in Running /\ Unhealthy(b, SessionStart(b))
    BY <1>1 DEF KillList, Seen, Running
  <2>2. ~Current(b) => session[b] # None /\ time.wall - session[b] > StartupGrace
    BY <2>1, WatchNumbers DEF Unhealthy, Current, SessionStart
  <2>3. session[b] # None /\ time.wall - session[b] > StartupGrace =>
            ~(session[b] = None \/ time.wall - session[b] <= StartupGrace)
    BY WatchNumbers
  <2> QED
    BY <2>1, <2>2, <2>3 DEF Status
<1>2. ASSUME Status(b) = "missing" PROVE b \in KillList \cup Deferred \cup Unconnected
  <2>1. /\ b \in Running /\ ~Current(b) /\ session[b] # None
        /\ ~(time.wall - session[b] <= StartupGrace)
    BY <1>2 DEF Status
  <2>2. Seen(b) /\ Unhealthy(b, SessionStart(b))
    BY <2>1, WatchNumbers DEF Unhealthy, Current, SessionStart, Seen, Running
  <2> QED
    BY <2>2 DEF KillList, WatchedBrowsers
<1> QED
  BY <1>1, <1>2

\* Whatever holds scans up, interrupts them or switches strict mode off and on, a
\* deferral lasts one reconnect window, and the dashboard calls missing the very
\* browsers that are about to be closed (BrowserReconnectGrace, app.rs;
\* browser_extension_status_json, rpc.rs).
THEOREM DeferralsEnd == WatchSpec => []WatchInvariant
<1>1. WatchKept => WatchInvariant
  BY KeptDefersOnce, KeptAgrees DEF WatchInvariant, WatchKept
<1> QED
  BY <1>1, WatchHolds, PTL

\* However long the calls of a family's extensions are held up, up to MaxDelay, and
\* in whichever order they are written, a browser that reported under its own name
\* is not closed within the grace, less that delay (strict_browser_unhealthy_reason).
THEOREM ReportedIsSpared == WatchSpec => []ConnectedIsSpared
BY KeptSpares, WatchHolds, PTL

\* Neither a new session nor a gap in the scans lets a browser that scans find
\* silent outlast the startup grace (BrowserReconnectGrace, strict_browser_session_started_at).
THEOREM SilenceIsClosed == WatchSpec => []SilentIsClosed
BY KeptCloses, WatchHolds, PTL
-------------------------------------------------------------------------------
(* Sums.                                                                     *)

\* A sum is defined, and is made row by row.
LEMMA TotalIsDefined ==
    ASSUME NEW w \in Seq(Int)
    PROVE  \E f \in [0..Len(w) -> Int] :
              /\ f[0] = 0 /\ Total(w) = f[Len(w)]
              /\ \A n \in 1..Len(w) : f[n] = f[n - 1] + w[n]
<1> DEFINE size == Len(w)
           Defined(m) == \E f \in [0..m -> Int] : f = [n \in 0..m |-> SumAt(n, f, w)]
           S == {m \in Nat : m <= size => Defined(m)}
<1>1. 0 \in S
  <2> DEFINE f == [n \in 0..0 |-> 0]
  <2>1. f = [n \in 0..0 |-> SumAt(n, f, w)] /\ f \in [0..0 -> Int]
    BY DEF SumAt
  <2> QED
    BY <2>1
<1>2. ASSUME NEW m \in Nat, m \in S PROVE m + 1 \in S
  <2> SUFFICES ASSUME m + 1 <= size PROVE Defined(m + 1)
    OBVIOUS
  <2>0. Defined(m)
    <3>1. m <= size
      OBVIOUS
    <3> HIDE DEF Defined, size
    <3> QED
      BY <1>2, <3>1
  <2>1. PICK f \in [0..m -> Int] : f = [n \in 0..m |-> SumAt(n, f, w)]
    BY <2>0
  <2>at. \A n \in 0..m : f[n] = SumAt(n, f, w)
    BY <2>1, Zenon
  <2> DEFINE g == [n \in 0..m + 1 |-> IF n = m + 1 THEN f[m] + w[m + 1] ELSE f[n]]
  <2>2. w[m + 1] \in Int /\ f[m] \in Int
    OBVIOUS
  <2>3. g \in [0..m + 1 -> Int] /\ g[m + 1] = f[m] + w[m + 1] /\ \A n \in 0..m : g[n] = f[n]
    BY <2>2
  <2>4. g = [n \in 0..m + 1 |-> g[n]]
    OBVIOUS
  <2> HIDE DEF g
  <2>5. ASSUME NEW n \in 0..m + 1 PROVE g[n] = SumAt(n, g, w)
    <3>1. CASE n = m + 1
      <4>1. n - 1 = m /\ n # 0 /\ g[n - 1] = f[m]
        BY <3>1, <2>3
      <4> QED
        BY <4>1, <3>1, <2>3 DEF SumAt
    <3>2. CASE n = 0
      <4>1. f[n] = SumAt(n, f, w) /\ g[n] = f[n]
        <5>1. n \in 0..m
          BY <3>2
        <5> QED
          BY <2>at, <2>3, <5>1, Zenon
      <4> QED
        BY <4>1, <3>2 DEF SumAt
    <3>3. CASE n \in 1..m
      <4>1. f[n] = SumAt(n, f, w) /\ g[n] = f[n]
        <5>1. n \in 0..m
          BY <3>3
        <5> QED
          BY <2>at, <2>3, <5>1, Zenon
      <4>2. g[n - 1] = f[n - 1] /\ n # 0
        BY <2>3, <3>3
      <4> QED
        BY <4>1, <4>2 DEF SumAt
    <3> QED
      BY <3>1, <3>2, <3>3
  <2>6. g = [n \in 0..m + 1 |-> SumAt(n, g, w)]
    BY <2>4, <2>5
  <2> QED
    BY <2>3, <2>6
<1>3. size \in Nat /\ size \in S
  <2> HIDE DEF S
  <2> QED
    BY <1>1, <1>2, InductiveSet
<1>4. \E f : f = [n \in 0..size |-> SumAt(n, f, w)] /\ f \in [0..size -> Int]
  BY <1>3
<1>5. \A f, g : /\ f = [n \in 0..size |-> SumAt(n, f, w)] /\ f \in [0..size -> Int]
                /\ g = [n \in 0..size |-> SumAt(n, g, w)]
                => f = g
  <2> SUFFICES ASSUME NEW f, NEW g,
                      f = [n \in 0..size |-> SumAt(n, f, w)], f \in [0..size -> Int],
                      g = [n \in 0..size |-> SumAt(n, g, w)]
               PROVE  f = g
    OBVIOUS
  <2> DEFINE T == {m \in Nat : m <= size => f[m] = g[m]}
  <2>1. 0 \in T
    BY <1>3 DEF SumAt
  <2>2. ASSUME NEW m \in Nat, m \in T PROVE m + 1 \in T
    <3> SUFFICES ASSUME m + 1 <= size PROVE f[m + 1] = g[m + 1]
      OBVIOUS
    <3>1. m + 1 \in 0..size /\ m + 1 # 0 /\ m + 1 - 1 = m /\ f[m] = g[m]
      BY <1>3, <2>2
    <3>2. f[m + 1] = SumAt(m + 1, f, w) /\ g[m + 1] = SumAt(m + 1, g, w)
      BY <3>1
    <3> QED
      BY <3>1, <3>2 DEF SumAt
  <2>3. Nat \subseteq T
    <3> HIDE DEF T
    <3> QED
      BY <2>1, <2>2, InductiveSet
  <2>4. \A n \in 0..size : f[n] = g[n]
    BY <2>3
  <2>5. DOMAIN f = 0..size /\ DOMAIN g = 0..size /\ f = [n \in 0..size |-> f[n]]
        /\ g = [n \in 0..size |-> g[n]]
    OBVIOUS
  <2> QED
    BY <2>4, <2>5
<1> DEFINE upTo == CHOOSE f : f = [n \in 0..size |-> SumAt(n, f, w)]
<1>6. upTo = [n \in 0..size |-> SumAt(n, upTo, w)] /\ upTo \in [0..size -> Int]
  BY <1>4, <1>5
<1>7. Total(w) = upTo[size]
  BY DEF Total
<1> HIDE DEF upTo
<1>8. upTo[0] = 0
  BY <1>3, <1>6 DEF SumAt
<1>9. ASSUME NEW n \in 1..size PROVE upTo[n] = upTo[n - 1] + w[n]
  <2>1. upTo[n] = SumAt(n, upTo, w) /\ n # 0
    <3>1. n \in 0..size /\ n # 0
      BY <1>3
    <3> HIDE DEF size
    <3> QED
      BY <3>1, <1>6
  <2> QED
    BY <2>1 DEF SumAt
<1> QED
  BY <1>6, <1>7, <1>8, <1>9

LEMMA TotalType == ASSUME NEW w \in Seq(Int) PROVE Total(w) \in Int
<1>1. PICK f \in [0..Len(w) -> Int] : Total(w) = f[Len(w)]
  BY TotalIsDefined
<1> QED
  BY <1>1

\* Rows that add nothing are not noticed.
LEMMA TotalIgnoresZeros ==
    ASSUME NEW w \in Seq(Int), NEW v \in Seq(Int), Len(w) <= Len(v),
           \A n \in 1..Len(w) : v[n] = w[n],
           \A n \in Len(w) + 1..Len(v) : v[n] = 0
    PROVE  Total(v) = Total(w)
<1>1. PICK f \in [0..Len(w) -> Int] :
          /\ f[0] = 0 /\ Total(w) = f[Len(w)]
          /\ \A n \in 1..Len(w) : f[n] = f[n - 1] + w[n]
  BY TotalIsDefined
<1>2. PICK g \in [0..Len(v) -> Int] :
          /\ g[0] = 0 /\ Total(v) = g[Len(v)]
          /\ \A n \in 1..Len(v) : g[n] = g[n - 1] + v[n]
  BY TotalIsDefined
<1>0. /\ Len(w) \in Nat /\ \A n \in 1..Len(w) : w[n] \in Int
      /\ Len(v) \in Nat /\ \A n \in 1..Len(v) : v[n] \in Int
  OBVIOUS
<1> DEFINE S == {n \in Nat : n <= Len(v) => g[n] = f[IF n <= Len(w) THEN n ELSE Len(w)]}
<1>3. 0 \in S
  BY <1>1, <1>2
<1>4. ASSUME NEW n \in Nat, n \in S PROVE n + 1 \in S
  <2> SUFFICES ASSUME n + 1 <= Len(v)
               PROVE  g[n + 1] = f[IF n + 1 <= Len(w) THEN n + 1 ELSE Len(w)]
    OBVIOUS
  <2>1. g[n + 1] = g[n] + v[n + 1] /\ g[n] = f[IF n <= Len(w) THEN n ELSE Len(w)]
    <3>1. n + 1 \in 1..Len(v) /\ n + 1 - 1 = n
      OBVIOUS
    <3> QED
      BY <3>1, <1>2, <1>4
  <2>2. CASE n + 1 <= Len(w)
    <3>1. f[n + 1] = f[n] + w[n + 1] /\ v[n + 1] = w[n + 1]
      <4>1. n + 1 \in 1..Len(w) /\ n + 1 - 1 = n
        BY <2>2
      <4> QED
        BY <4>1, <1>1
    <3> QED
      BY <2>1, <2>2, <3>1
  <2>3. CASE ~ (n + 1 <= Len(w))
    <3>1. v[n + 1] = 0 /\ g[n] \in Int
      <4>1. n + 1 \in 1..Len(v) /\ n \in 0..Len(v)
        BY <1>0
      <4>2. g[n] \in Int
        BY <4>1
      <4>3. v[n + 1] = 0
        BY <2>3, <4>1
      <4> QED
        BY <4>2, <4>3
    <3>2. (IF n <= Len(w) THEN n ELSE Len(w)) = Len(w)
      BY <2>3
    <3> QED
      BY <2>1, <2>3, <3>1, <3>2
  <2> QED
    BY <2>2, <2>3
<1>5. Len(v) \in S
  <2> HIDE DEF S
  <2> QED
    BY <1>0, <1>3, <1>4, InductiveSet
<1> QED
  BY <1>1, <1>2, <1>5

\* A row that adds one adds one.
LEMMA TotalOfOneMore ==
    ASSUME NEW w \in Seq(Int), NEW v \in Seq(Int), Len(w) = Len(v), NEW i \in 1..Len(w),
           \A n \in 1..Len(w) : v[n] = IF n = i THEN w[n] + 1 ELSE w[n]
    PROVE  Total(v) = Total(w) + 1
<1>1. PICK f \in [0..Len(w) -> Int] :
          /\ f[0] = 0 /\ Total(w) = f[Len(w)]
          /\ \A n \in 1..Len(w) : f[n] = f[n - 1] + w[n]
  BY TotalIsDefined
<1>2. PICK g \in [0..Len(v) -> Int] :
          /\ g[0] = 0 /\ Total(v) = g[Len(v)]
          /\ \A n \in 1..Len(v) : g[n] = g[n - 1] + v[n]
  BY TotalIsDefined
<1>0. /\ Len(w) \in Nat /\ \A n \in 1..Len(w) : w[n] \in Int
      /\ Len(v) \in Nat /\ \A n \in 1..Len(v) : v[n] \in Int
  OBVIOUS
<1> DEFINE S == {n \in Nat : n <= Len(v) => g[n] = IF n >= i THEN f[n] + 1 ELSE f[n]}
<1>3. 0 \in S
  BY <1>1, <1>2
<1>4. ASSUME NEW n \in Nat, n \in S PROVE n + 1 \in S
  <2> SUFFICES ASSUME n + 1 <= Len(v)
               PROVE  g[n + 1] = IF n + 1 >= i THEN f[n + 1] + 1 ELSE f[n + 1]
    OBVIOUS
  <2>1. n + 1 \in 1..Len(v) /\ n + 1 - 1 = n /\ n \in 0..Len(v) /\ Len(v) = Len(w)
    BY <1>0
  <2>2. g[n + 1] = g[n] + v[n + 1] /\ f[n + 1] = f[n] + w[n + 1]
    BY <2>1, <1>1, <1>2
  <2>3. g[n] = IF n >= i THEN f[n] + 1 ELSE f[n]
    BY <1>4
  <2>4. v[n + 1] = IF n + 1 = i THEN w[n + 1] + 1 ELSE w[n + 1]
    BY <2>1
  <2>5. f[n] \in Int /\ w[n + 1] \in Int
    <3>1. w[n + 1] \in Int
      BY <1>0, <2>1
    <3>2. f[n] \in Int
      BY <2>1
    <3> QED
      BY <3>1, <3>2
  <2> DEFINE sum == f[n]
             share == w[n + 1]
  <2>6. /\ sum \in Int /\ share \in Int /\ f[n + 1] = sum + share
        /\ g[n + 1] = (IF n >= i THEN sum + 1 ELSE sum)
                       + (IF n + 1 = i THEN share + 1 ELSE share)
    BY <2>2, <2>3, <2>4, <2>5
  <2> HIDE DEF sum, share
  <2> QED
    BY <2>6
<1>5. Len(v) \in S
  <2> HIDE DEF S
  <2> QED
    BY <1>0, <1>3, <1>4, InductiveSet
<1> QED
  BY <1>1, <1>2, <1>5

\* What adds no less sums up to no less.
LEMMA TotalIsMonotone ==
    ASSUME NEW w \in Seq(Int), NEW v \in Seq(Int), Len(w) = Len(v),
           \A n \in 1..Len(w) : w[n] <= v[n]
    PROVE  Total(w) <= Total(v)
<1>1. PICK f \in [0..Len(w) -> Int] :
          /\ f[0] = 0 /\ Total(w) = f[Len(w)]
          /\ \A n \in 1..Len(w) : f[n] = f[n - 1] + w[n]
  BY TotalIsDefined
<1>2. PICK g \in [0..Len(v) -> Int] :
          /\ g[0] = 0 /\ Total(v) = g[Len(v)]
          /\ \A n \in 1..Len(v) : g[n] = g[n - 1] + v[n]
  BY TotalIsDefined
<1>0. /\ Len(w) \in Nat /\ \A n \in 1..Len(w) : w[n] \in Int
      /\ Len(v) \in Nat /\ \A n \in 1..Len(v) : v[n] \in Int
  OBVIOUS
<1> DEFINE S == {n \in Nat : n <= Len(v) => f[n] <= g[n]}
<1>3. 0 \in S
  BY <1>1, <1>2
<1>4. ASSUME NEW n \in Nat, n \in S PROVE n + 1 \in S
  <2> SUFFICES ASSUME n + 1 <= Len(v) PROVE f[n + 1] <= g[n + 1]
    OBVIOUS
  <2>1. n + 1 \in 1..Len(v) /\ n + 1 - 1 = n /\ n \in 0..Len(v) /\ Len(v) = Len(w)
    BY <1>0
  <2>2. g[n + 1] = g[n] + v[n + 1] /\ f[n + 1] = f[n] + w[n + 1] /\ f[n] <= g[n]
    BY <2>1, <1>1, <1>2, <1>4
  <2>3. /\ f[n] \in Int /\ w[n + 1] \in Int /\ g[n] \in Int /\ v[n + 1] \in Int
        /\ w[n + 1] <= v[n + 1]
    <3>1. w[n + 1] \in Int /\ v[n + 1] \in Int /\ w[n + 1] <= v[n + 1]
      BY <1>0, <2>1
    <3>2. f[n] \in Int /\ g[n] \in Int
      BY <2>1
    <3> QED
      BY <3>1, <3>2
  <2> QED
    BY <2>2, <2>3
<1>5. Len(v) \in S
  <2> HIDE DEF S
  <2> QED
    BY <1>0, <1>3, <1>4, InductiveSet
<1> QED
  BY <1>1, <1>2, <1>5

LEMMA TotalOfZeros ==
    ASSUME NEW w \in Seq(Int), \A n \in 1..Len(w) : w[n] = 0
    PROVE  Total(w) = 0
<1>1. PICK f \in [0..Len(w) -> Int] :
          /\ f[0] = 0 /\ Total(w) = f[Len(w)]
          /\ \A n \in 1..Len(w) : f[n] = f[n - 1] + w[n]
  BY TotalIsDefined
<1> DEFINE S == {n \in Nat : n <= Len(w) => f[n] = 0}
<1>2. Len(w) \in Nat /\ 0 \in S
  BY <1>1
<1>3. ASSUME NEW n \in Nat, n \in S PROVE n + 1 \in S
  <2> SUFFICES ASSUME n + 1 <= Len(w) PROVE f[n + 1] = 0
    OBVIOUS
  <2>1. n + 1 \in 1..Len(w) /\ n + 1 - 1 = n /\ f[n] = 0
    BY <1>2, <1>3
  <2> QED
    BY <1>1, <2>1
<1>4. Len(w) \in S
  <2> HIDE DEF S
  <2> QED
    BY <1>2, <1>3, InductiveSet
<1> QED
  BY <1>1, <1>2, <1>4

\* The two halves of a concatenation.
LEMMA Joined ==
    ASSUME NEW S, NEW first \in Seq(S), NEW second \in Seq(S)
    PROVE  /\ first \o second \in Seq(S)
           /\ Len(first \o second) = Len(first) + Len(second)
           /\ \A n \in 1..Len(first) : (first \o second)[n] = first[n]
           /\ \A n \in Len(first) + 1..Len(first) + Len(second) :
                 (first \o second)[n] = second[n - Len(first)]
OBVIOUS

\* A set written down as a sequence.
LEMMA Listing ==
    ASSUME NEW S, IsFiniteSet(S)
    PROVE  /\ SetToSeq(S) \in Seq(S)
           /\ \A x \in S : \E n \in DOMAIN SetToSeq(S) : SetToSeq(S)[n] = x
           /\ \A m, n \in DOMAIN SetToSeq(S) :
                 SetToSeq(S)[m] = SetToSeq(S)[n] => m = n
<1> DEFINE size == Cardinality(S)
           seq == SetToSeq(S)
<1>1. IsFiniteSet(S)
  OBVIOUS
<1>2. size \in Nat /\ ExistsBijection(1..size, S)
  BY <1>1, FS_CardinalityType
<1>3. PICK f \in [1..size -> S] : IsInjective(f)
  BY <1>2 DEF ExistsBijection, Bijection, Injection
<1>4. seq \in [1..size -> S] /\ IsInjective(seq)
  BY <1>3 DEF SetToSeq
<1>5. seq \in Injection(1..size, S)
  BY <1>4 DEF Injection
<1>6. IsFiniteSet(1..size) /\ Cardinality(1..size) = size
  BY <1>2, FS_Interval
<1>7. seq \in Surjection(1..size, S)
  BY <1>1, <1>5, <1>6, FS_Injection
<1>8. DOMAIN seq = 1..size /\ seq \in Seq(S)
  BY <1>2, <1>4
<1> HIDE DEF seq, size
<1> QED
  BY <1>4, <1>7, <1>8 DEF IsInjective, Surjection, seq

-------------------------------------------------------------------------------
(* The time of applications.                                                 *)

Session == [rule : AppRules, start : Nat, lastSeen : Nat, end : Nat \cup {None}]

\* What a list is charged session by session.
Amounts(rule, rows, now) ==
    [id \in DOMAIN rows |-> IF rows[id].rule = rule THEN LengthOn(rows[id], DayOf(now), now) ELSE 0]

\* After a scan the lists with an open session are those it saw in use, and what a
\* list was charged by then are the ticks it was seen for.
UsageKept ==
    /\ UsageTypeOK /\ sessions \in Seq(Session)
    /\ \A id \in DOMAIN sessions : sessions[id].start <= instant
                                   /\ (sessions[id].end # None => sessions[id].end <= instant)
    /\ scanned = None \/ scanned \subseteq AppRules
    /\ scanned # None => OpenRules(sessions) = scanned
    /\ counted \in [AppRules -> SUBSET Nat]
    /\ \A rule \in AppRules : \A t \in counted[rule] : t < instant
    /\ ScannedIsCharged

LEMMA Extremes ==
    ASSUME NEW a \in Int, NEW b \in Int, NEW c \in Int
    PROVE  /\ Max({a, b}) = IF a >= b THEN a ELSE b
           /\ Min({a, b, c}) \in {a, b, c}
           /\ Min({a, b, c}) <= a /\ Min({a, b, c}) <= b /\ Min({a, b, c}) <= c
<1>1. \A x \in {a, b} : (\A y \in {a, b} : x >= y) <=> x = IF a >= b THEN a ELSE b
  OBVIOUS
<1>2. \E x \in {a, b, c} : \A y \in {a, b, c} : x <= y
  <2>1. CASE a <= b /\ a <= c
    BY <2>1
  <2>2. CASE b <= a /\ b <= c
    BY <2>2
  <2>3. CASE c <= a /\ c <= b
    BY <2>3
  <2> QED
    BY <2>1, <2>2, <2>3
<1>3. Max({a, b}) \in {a, b} /\ \A y \in {a, b} : Max({a, b}) >= y
  BY <1>1 DEF Max
<1>4. Min({a, b, c}) \in {a, b, c} /\ \A y \in {a, b, c} : Min({a, b, c}) <= y
  BY <1>2 DEF Min
<1> QED
  BY <1>1, <1>3, <1>4

LEMMA DayOfNow ==
    ASSUME NEW now \in Nat
    PROVE  /\ now \div UsageDay \in Nat /\ DayOf(now) \in Nat
           /\ DayOf(now) <= now /\ now < DayOf(now) + UsageDay
  BY UsageAssumption DEF DayOf

\* The next tick is of the same day, or begins one.
LEMMA NextDay ==
    ASSUME NEW now \in Nat
    PROVE  \/ DayOf(now + 1) = DayOf(now) /\ (now + 1) \div UsageDay = now \div UsageDay
           \/ DayOf(now + 1) = now + 1 /\ (now + 1) \div UsageDay # now \div UsageDay
<1> DEFINE q == now \div UsageDay
           r == (now + 1) \div UsageDay
<1>1. q \in Nat /\ r \in Nat /\ UsageDay \in Nat \ {0}
  BY DayOfNow, UsageAssumption
<1>2. q * UsageDay <= now /\ now < q * UsageDay + UsageDay
  BY DayOfNow DEF DayOf
<1>3. r * UsageDay <= now + 1 /\ now + 1 < r * UsageDay + UsageDay
  BY DayOfNow DEF DayOf
<1> HIDE DEF q, r
<1>4. q <= r
  <2>1. q >= r + 1 => q * UsageDay >= (r + 1) * UsageDay
    BY <1>1
  <2>2. (r + 1) * UsageDay = r * UsageDay + UsageDay
    BY <1>1
  <2> QED
    BY <2>1, <2>2, <1>1, <1>2, <1>3
<1>5. q # r => r * UsageDay = now + 1
  <2>1. q + 1 <= r => r * UsageDay >= (q + 1) * UsageDay
    BY <1>1
  <2>2. (q + 1) * UsageDay = q * UsageDay + UsageDay
    BY <1>1
  <2> QED
    BY <2>1, <2>2, <1>1, <1>2, <1>3, <1>4
<1> QED
  BY <1>5 DEF q, r, DayOf

\* What a session adds to a day: nothing that begins now does, and a tick does to
\* those that are open.
LEMMA LengthFacts ==
    ASSUME NEW row \in Session, NEW from \in Nat, NEW now \in Nat
    PROVE  /\ LengthOn(row, from, now) \in Nat
           /\ row.start >= now => LengthOn(row, from, now) = 0
           /\ from <= now /\ now + 1 < from + UsageDay /\ row.start <= now
              => IF row.end = None THEN LengthOn(row, from, now + 1) = LengthOn(row, from, now) + 1
                 ELSE row.end <= now => LengthOn(row, from, now + 1) = LengthOn(row, from, now)
           /\ from = now => LengthOn(row, from, now) = 0
<1>1. UsageDay \in Nat \ {0} /\ None \notin Nat
  BY UsageAssumption
<1>2. row.start \in Nat /\ row.end \in Nat \cup {None}
  BY DEF Session
<1> DEFINE end(at) == IF row.end = None THEN at ELSE row.end
<1>3. \A at \in Nat : end(at) \in Nat
  BY <1>2
<1> DEFINE begin == Max({row.start, from})
           last(at) == Min({end(at), at, from + UsageDay})
<1>4. begin = IF row.start >= from THEN row.start ELSE from
  <2>1. row.start \in Int /\ from \in Int
    BY <1>2
  <2> QED
    BY <2>1, Extremes
<1>5. \A at \in Nat :
          /\ last(at) \in {end(at), at, from + UsageDay}
          /\ last(at) <= end(at) /\ last(at) <= at /\ last(at) <= from + UsageDay
  <2> TAKE at \in Nat
  <2>1. end(at) \in Int /\ at \in Int /\ from + UsageDay \in Int
    BY <1>1, <1>3
  <2> HIDE DEF end
  <2> QED
    BY <2>1, Extremes
<1>6. \A at \in Nat : LengthOn(row, from, at) = IF last(at) > begin THEN last(at) - begin ELSE 0
  BY DEF LengthOn
<1>7. now + 1 \in Nat /\ begin \in Nat /\ last(now) \in Nat /\ last(now + 1) \in Nat
  BY <1>1, <1>2, <1>3, <1>4, <1>5
<1> HIDE DEF begin, last
<1>8. LengthOn(row, from, now) \in Nat
  BY <1>6, <1>7
<1>9. row.start >= now => LengthOn(row, from, now) = 0
  BY <1>2, <1>4, <1>5, <1>6, <1>7
<1>10. ASSUME from <= now, now + 1 < from + UsageDay, row.start <= now
       PROVE  IF row.end = None THEN LengthOn(row, from, now + 1) = LengthOn(row, from, now) + 1
              ELSE row.end <= now => LengthOn(row, from, now + 1) = LengthOn(row, from, now)
  <2>1. begin <= now
    BY <1>2, <1>4, <1>10
  <2>2. CASE row.end = None
    <3>1. last(now) = now /\ last(now + 1) = now + 1
      BY <1>1, <1>5, <1>7, <1>10, <2>2
    <3> QED
      BY <3>1, <2>1, <2>2, <1>6, <1>7
  <2>3. CASE row.end # None
    <3> SUFFICES ASSUME row.end <= now
                 PROVE  LengthOn(row, from, now + 1) = LengthOn(row, from, now)
      BY <2>3
    <3>1. last(now) = row.end /\ last(now + 1) = row.end
      BY <1>1, <1>2, <1>5, <1>7, <1>10, <2>3
    <3> QED
      BY <3>1, <1>6, <1>7
  <2> QED
    BY <2>2, <2>3
<1>11. from = now => LengthOn(row, from, now) = 0
  BY <1>2, <1>4, <1>5, <1>6, <1>7
<1> QED
  BY <1>8, <1>9, <1>10, <1>11

\* The rows after a scan, one by one.
SyncedRow(row, rules, now) ==
    [row EXCEPT !.lastSeen = IF row.end = None THEN now ELSE @,
                !.end = IF row.end = None /\ row.rule \notin rules THEN now ELSE @]

NewRow(rule, now) == [rule |-> rule, start |-> now, lastSeen |-> now, end |-> None]

EndedRow(row, rules, now) ==
    IF row.end = None /\ row.rule \in rules
    THEN [row EXCEPT !.end = now, !.lastSeen = now] ELSE row

LEMMA EndedRows ==
    ASSUME NEW rows \in Seq(Session), NEW rules, NEW now \in Nat
    PROVE  /\ EndedAt(rows, rules, now) \in Seq(Session)
           /\ Len(EndedAt(rows, rules, now)) = Len(rows)
           /\ \A id \in 1..Len(rows) :
                 EndedAt(rows, rules, now)[id] = EndedRow(rows[id], rules, now)
<1>1. DOMAIN rows = 1..Len(rows) /\ Len(rows) \in Nat /\ \A id \in 1..Len(rows) : rows[id] \in Session
  OBVIOUS
<1> DEFINE ended(id) == EndedRow(rows[id], rules, now)
<1>2. EndedAt(rows, rules, now) = [id \in 1..Len(rows) |-> ended(id)]
  BY <1>1 DEF EndedAt, OpenIds, EndedRow
<1>3. \A id \in 1..Len(rows) : ended(id) \in Session
  BY <1>1 DEF Session, EndedRow
<1> HIDE DEF ended
<1>4. EndedAt(rows, rules, now) \in [1..Len(rows) -> Session]
  BY <1>2, <1>3
<1>5. /\ EndedAt(rows, rules, now) \in Seq(Session)
      /\ Len(EndedAt(rows, rules, now)) = Len(rows)
  BY <1>1, <1>4
<1> QED
  BY <1>2, <1>5 DEF ended

\* No list has two open sessions, so that none is closed for it.
LEMMA NoDuplicates ==
    ASSUME UsageTypeOK, sessions \in Seq(Session)
    PROVE  Deduplicated(sessions) = sessions
<1>1. ASSUME NEW id \in OpenIds(sessions), NEW later \in OpenIds(sessions),
             later > id, sessions[later].rule = sessions[id].rule
      PROVE  FALSE
  <2>1. id = later
    BY <1>1 DEF UsageTypeOK
  <2>2. id \in Nat
    BY DEF OpenIds
  <2> QED
    BY <1>1, <2>1, <2>2
<1>2. Deduplicated(sessions) = [id \in DOMAIN sessions |-> sessions[id]]
  BY <1>1 DEF Deduplicated
<1> QED
  BY <1>2

\* What a scan does to the sessions.
LEMMA SyncedRows ==
    ASSUME UsageTypeOK, sessions \in Seq(Session),
           NEW rules \in SUBSET AppRules, NEW now \in Nat
    PROVE  \E rows \in Seq(Session) :
              /\ rows = SyncedUsage(sessions, rules, now) /\ Len(sessions) <= Len(rows)
              /\ \A id \in 1..Len(sessions) : rows[id] = SyncedRow(sessions[id], rules, now)
              /\ \A id \in Len(sessions) + 1..Len(rows) :
                    \E rule \in rules \ OpenRules(sessions) : rows[id] = NewRow(rule, now)
              /\ \A rule \in rules \ OpenRules(sessions) :
                    \E id \in Len(sessions) + 1..Len(rows) : rows[id] = NewRow(rule, now)
              /\ \A i, j \in Len(sessions) + 1..Len(rows) :
                    rows[i].rule = rows[j].rule => i = j
<1> DEFINE size == Len(sessions)
           open == OpenRules(sessions)
           new == SetToSeq(rules \ open)
           begun == [n \in DOMAIN new |-> NewRow(new[n], now)]
           kept == [id \in DOMAIN sessions |->
                       IF id \in OpenIds(sessions) /\ sessions[id].rule \in rules
                       THEN [sessions[id] EXCEPT !.lastSeen = now] ELSE sessions[id]]
           rows == EndedAt(kept \o begun, open \ rules, now)
<1>1. /\ size \in Nat /\ DOMAIN sessions = 1..size
      /\ \A id \in 1..size : sessions[id] \in Session
  OBVIOUS
<1>2. SyncedUsage(sessions, rules, now) = rows
  BY NoDuplicates, Zenon DEF SyncedUsage, NewRow
<1>3. /\ new \in Seq(rules \ open) /\ Len(new) \in Nat /\ DOMAIN new = 1..Len(new)
      /\ \A x \in rules \ open : \E n \in DOMAIN new : new[n] = x
      /\ \A m, n \in DOMAIN new : new[m] = new[n] => m = n
  <2>1. IsFiniteSet(rules \ open)
    BY UsageAssumption, FS_Subset
  <2>2. /\ new \in Seq(rules \ open)
        /\ \A x \in rules \ open : \E n \in DOMAIN new : new[n] = x
        /\ \A m, n \in DOMAIN new : new[m] = new[n] => m = n
    <3> HIDE DEF open
    <3> QED
      BY <2>1, Listing
  <2> HIDE DEF new, open
  <2> QED
    BY <2>2
<1> HIDE DEF new
<1>4. \A n \in 1..Len(new) : new[n] \in rules \ open
  BY <1>3
<1>5. /\ begun \in Seq(Session) /\ Len(begun) = Len(new)
      /\ \A n \in 1..Len(new) : begun[n] = NewRow(new[n], now)
  <2>1. \A n \in 1..Len(new) : NewRow(new[n], now) \in Session
    BY <1>4 DEF NewRow, Session
  <2>2. begun \in [1..Len(new) -> Session]
    BY <1>3, <2>1
  <2> QED
    BY <1>3, <2>2
<1>6. /\ kept \in Seq(Session) /\ Len(kept) = size
      /\ \A id \in 1..size :
            kept[id] = IF sessions[id].end = None /\ sessions[id].rule \in rules
                       THEN [sessions[id] EXCEPT !.lastSeen = now] ELSE sessions[id]
  <2>1. \A id \in 1..size : [sessions[id] EXCEPT !.lastSeen = now] \in Session
    BY <1>1 DEF Session
  <2>2. kept \in [1..size -> Session]
    BY <1>1, <2>1
  <2> QED
    BY <1>1, <2>2 DEF OpenIds
<1> HIDE DEF begun, kept
<1> DEFINE both == kept \o begun
<1>7. /\ both \in Seq(Session) /\ Len(both) = size + Len(new)
      /\ \A id \in 1..size : both[id] = kept[id]
      /\ \A id \in size + 1..size + Len(new) : both[id] = begun[id - size]
  <2> DEFINE added == Len(new)
  <2>1. kept \in Seq(Session) /\ begun \in Seq(Session) /\ Len(kept) = size /\ Len(begun) = added
    BY <1>5, <1>6
  <2> HIDE DEF size, added
  <2>2. /\ both \in Seq(Session) /\ Len(both) = Len(kept) + Len(begun)
        /\ \A id \in 1..Len(kept) : both[id] = kept[id]
        /\ \A id \in Len(kept) + 1..Len(kept) + Len(begun) : both[id] = begun[id - Len(kept)]
    BY <2>1, Joined, Zenon
  <2> HIDE DEF both
  <2>3. /\ both \in Seq(Session) /\ Len(both) = size + added
        /\ \A id \in 1..size : both[id] = kept[id]
        /\ \A id \in size + 1..size + added : both[id] = begun[id - size]
    BY <2>1, <2>2, Zenon
  <2> QED
    BY <2>3, Zenon DEF added
<1> HIDE DEF both, size
<1>8. /\ rows \in Seq(Session) /\ Len(rows) = size + Len(new)
      /\ \A id \in 1..size + Len(new) :
            rows[id] = EndedRow(both[id], open \ rules, now)
  <2>1. rows = EndedAt(both, open \ rules, now)
    BY DEF both
  <2> DEFINE over == open \ rules
  <2>2. rows = EndedAt(both, over, now)
    BY <2>1
  <2> HIDE DEF rows, open, over
  <2>3. /\ rows \in Seq(Session) /\ Len(rows) = Len(both)
        /\ \A id \in 1..Len(both) :
              rows[id] = EndedRow(both[id], over, now)
    <3>1. both \in Seq(Session)
      BY <1>7
    <3>2. /\ EndedAt(both, over, now) \in Seq(Session)
          /\ Len(EndedAt(both, over, now)) = Len(both)
          /\ \A id \in 1..Len(both) :
                EndedAt(both, over, now)[id] = EndedRow(both[id], over, now)
      BY <3>1, EndedRows
    <3> QED
      BY <2>2, <3>2
  <2> QED
    BY <1>7, <2>3 DEF over
<1> HIDE DEF rows
<1>sizes. size \in Nat /\ Len(new) \in Nat /\ Len(rows) = size + Len(new)
  BY <1>1, <1>3, <1>8
<1>9. ASSUME NEW id \in 1..size PROVE rows[id] = SyncedRow(sessions[id], rules, now)
  <2>1. sessions[id].end = None => sessions[id].rule \in open
    BY <1>1 DEF OpenRules, OpenIds, size
  <2>2. /\ both[id] = kept[id] /\ id \in 1..size + Len(new) /\ sessions[id] \in Session
    BY <1>1, <1>3, <1>7
  <2>3. rows[id] = IF kept[id].end = None /\ kept[id].rule \in open \ rules
                   THEN [kept[id] EXCEPT !.end = now, !.lastSeen = now] ELSE kept[id]
    BY <1>8, <2>2 DEF EndedRow
  <2>4. kept[id] = IF sessions[id].end = None /\ sessions[id].rule \in rules
                   THEN [sessions[id] EXCEPT !.lastSeen = now] ELSE sessions[id]
    BY <1>6 DEF size
  <2> HIDE DEF open
  <2>5. CASE sessions[id].end # None
    BY <2>2, <2>3, <2>4, <2>5 DEF SyncedRow, Session
  <2>6. CASE sessions[id].end = None /\ sessions[id].rule \in rules
    <3>1. rows[id] = [sessions[id] EXCEPT !.lastSeen = now]
      BY <2>2, <2>3, <2>4, <2>6 DEF Session
    <3> QED
      BY <2>2, <2>6, <3>1 DEF SyncedRow, Session
  <2>7. CASE sessions[id].end = None /\ sessions[id].rule \notin rules
    <3>1. rows[id] = [sessions[id] EXCEPT !.end = now, !.lastSeen = now]
      BY <2>1, <2>2, <2>3, <2>4, <2>7 DEF Session
    <3> QED
      BY <2>2, <2>7, <3>1 DEF SyncedRow, Session
  <2> QED
    BY <2>5, <2>6, <2>7
<1>10. \A n \in 1..Len(new) : rows[size + n] = NewRow(new[n], now)
  <2> TAKE n \in 1..Len(new)
  <2>1. size + n \in size + 1..size + Len(new) /\ size + n \in 1..size + Len(new)
        /\ size + n - size = n
    BY <1>sizes
  <2>2. both[size + n] = NewRow(new[n], now)
    <3>1. \A id \in size + 1..size + Len(new) : both[id] = begun[id - size]
      BY <1>7
    <3> DEFINE id == size + n
    <3>2. id \in size + 1..size + Len(new) /\ id - size = n
      BY <1>sizes, <2>1
    <3> HIDE DEF id
    <3>3. both[id] = begun[n]
      BY <3>1, <3>2
    <3> QED
      BY <1>5, <3>3 DEF id
  <2>3. new[n] \notin open \ rules
    BY <1>4
  <2>4. rows[size + n] = IF both[size + n].end = None /\ both[size + n].rule \in open \ rules
                         THEN [both[size + n] EXCEPT !.end = now, !.lastSeen = now]
                         ELSE both[size + n]
    BY <1>8, <2>1 DEF EndedRow
  <2>5. NewRow(new[n], now).rule = new[n]
    BY DEF NewRow
  <2> HIDE DEF open
  <2> QED
    BY <2>2, <2>3, <2>4, <2>5
<1>11. \A id \in size + 1..Len(rows) : id - size \in 1..Len(new) /\ size + (id - size) = id
  BY <1>sizes
<1>12. /\ \A id \in size + 1..Len(rows) : \E rule \in rules \ open : rows[id] = NewRow(rule, now)
       /\ \A i, j \in size + 1..Len(rows) : rows[i].rule = rows[j].rule => i = j
  <2>1. \A id \in size + 1..Len(rows) : rows[id] = NewRow(new[id - size], now)
    BY <1>10, <1>11
  <2>2. \A id \in size + 1..Len(rows) : \E rule \in rules \ open : rows[id] = NewRow(rule, now)
    BY <1>4, <1>11, <2>1
  <2>3. ASSUME NEW i \in size + 1..Len(rows), NEW j \in size + 1..Len(rows),
               rows[i].rule = rows[j].rule
        PROVE  i = j
    <3>1. new[i - size] = new[j - size]
      <4>1. rows[i] = NewRow(new[i - size], now) /\ rows[j] = NewRow(new[j - size], now)
        BY <2>1
      <4> QED
        BY <4>1, <2>3 DEF NewRow
    <3>2. i - size = j - size
      BY <1>3, <1>11, <3>1
    <3> QED
      BY <1>11, <3>2
  <2> QED
    BY <2>2, <2>3
<1>13. \A rule \in rules \ open : \E id \in size + 1..Len(rows) : rows[id] = NewRow(rule, now)
  <2> TAKE rule \in rules \ open
  <2>1. PICK n \in 1..Len(new) : new[n] = rule
    BY <1>3
  <2>2. size + n \in size + 1..Len(rows) /\ rows[size + n] = NewRow(rule, now)
    BY <1>sizes, <1>3, <1>10, <2>1
  <2> QED
    BY <2>2
<1>14. size <= Len(rows)
  BY <1>sizes
<1> QED
  BY <1>2, <1>8, <1>9, <1>12, <1>13, <1>14 DEF size

LEMMA AmountsFit ==
    ASSUME NEW rule, NEW rows \in Seq(Session), NEW now \in Nat
    PROVE  /\ Amounts(rule, rows, now) \in Seq(Int)
           /\ Len(Amounts(rule, rows, now)) = Len(rows)
           /\ \A id \in 1..Len(rows) :
                 Amounts(rule, rows, now)[id] =
                    IF rows[id].rule = rule THEN LengthOn(rows[id], DayOf(now), now) ELSE 0
           /\ UsedToday(rule, rows, now) = Total(Amounts(rule, rows, now))
<1>1. DOMAIN rows = 1..Len(rows) /\ Len(rows) \in Nat /\ \A id \in 1..Len(rows) : rows[id] \in Session
  OBVIOUS
<1>2. \A id \in 1..Len(rows) : LengthOn(rows[id], DayOf(now), now) \in Int
  <2> TAKE id \in 1..Len(rows)
  <2>1. rows[id] \in Session /\ DayOf(now) \in Nat
    BY <1>1, DayOfNow
  <2>2. LengthOn(rows[id], DayOf(now), now) \in Nat
    BY <2>1, LengthFacts
  <2> QED
    BY <2>2
<1>3. Amounts(rule, rows, now) \in [1..Len(rows) -> Int]
  BY <1>1, <1>2 DEF Amounts
<1>4. UsedToday(rule, rows, now) = Total(Amounts(rule, rows, now))
  BY DEF UsedToday, Amounts
<1>5. \A id \in 1..Len(rows) :
         Amounts(rule, rows, now)[id] =
            IF rows[id].rule = rule THEN LengthOn(rows[id], DayOf(now), now) ELSE 0
  BY <1>1 DEF Amounts
<1> QED
  BY <1>1, <1>3, <1>4, <1>5

\* A scan charges nothing by itself: a session it ends lasted to this instant, one it
\* begins lasts nothing yet.
LEMMA ScanChargesNothing ==
    ASSUME NEW now \in Nat, NEW rule, NEW old \in Seq(Session), NEW rows \in Seq(Session),
           Len(old) <= Len(rows),
           \A id \in 1..Len(old) :
              /\ rows[id].rule = old[id].rule /\ rows[id].start = old[id].start
              /\ (IF rows[id].end = None THEN now ELSE rows[id].end)
                   = IF old[id].end = None THEN now ELSE old[id].end,
           \A id \in Len(old) + 1..Len(rows) : rows[id].start = now
    PROVE  UsedToday(rule, rows, now) = UsedToday(rule, old, now)
<1> DEFINE w == Amounts(rule, old, now)
           v == Amounts(rule, rows, now)
<1>1. /\ w \in Seq(Int) /\ Len(w) = Len(old)
      /\ \A id \in 1..Len(old) :
            w[id] = IF old[id].rule = rule THEN LengthOn(old[id], DayOf(now), now) ELSE 0
      /\ UsedToday(rule, old, now) = Total(w)
  BY AmountsFit
<1>2. /\ v \in Seq(Int) /\ Len(v) = Len(rows)
      /\ \A id \in 1..Len(rows) :
            v[id] = IF rows[id].rule = rule THEN LengthOn(rows[id], DayOf(now), now) ELSE 0
      /\ UsedToday(rule, rows, now) = Total(v)
  BY AmountsFit
<1> HIDE DEF w, v
<1>3. /\ Len(old) \in Nat /\ Len(rows) \in Nat
      /\ \A id \in 1..Len(old) : id \in 1..Len(rows)
      /\ \A id \in Len(old) + 1..Len(rows) : id \in 1..Len(rows) /\ rows[id] \in Session
  OBVIOUS
<1>4. ASSUME NEW id \in 1..Len(old) PROVE v[id] = w[id]
  <2>1. LengthOn(rows[id], DayOf(now), now) = LengthOn(old[id], DayOf(now), now)
    BY DEF LengthOn
  <2> QED
    BY <1>1, <1>2, <1>3, <2>1
<1>5. ASSUME NEW id \in Len(old) + 1..Len(rows) PROVE v[id] = 0
  <2>1. rows[id] \in Session /\ rows[id].start >= now /\ id \in 1..Len(rows)
    BY <1>3
  <2>2. LengthOn(rows[id], DayOf(now), now) = 0
    BY <2>1, DayOfNow, LengthFacts
  <2> QED
    BY <1>2, <2>1, <2>2
<1> QED
  BY <1>1, <1>2, <1>4, <1>5, TotalIgnoresZeros

\* What was counted is finite and of instants that are over.
LEMMA CountedToday ==
    ASSUME UsageKept, NEW rule \in AppRules
    PROVE  /\ instant \in Nat /\ instant <= MaxUsage /\ MaxUsage \in Nat
           /\ counted[rule] \subseteq Nat /\ \A t \in counted[rule] : t < instant
           /\ IsFiniteSet(counted[rule])
<1>1. instant \in Nat /\ instant <= MaxUsage /\ MaxUsage \in Nat
  BY UsageAssumption DEF UsageKept, UsageTypeOK
<1>2. counted[rule] \subseteq Nat /\ \A t \in counted[rule] : t < instant
  BY DEF UsageKept
<1>3. counted[rule] \subseteq 0..instant
  BY <1>1, <1>2
<1>4. IsFiniteSet(0..instant)
  BY <1>1, FS_Interval
<1> QED
  BY <1>1, <1>2, <1>3, <1>4, FS_Subset

LEMMA UsageKeptFromInit == UsageInit => UsageKept
<1> SUFFICES ASSUME UsageInit PROVE UsageKept
  OBVIOUS
<1> USE DEF UsageInit
<1>1. UsageTypeOK
  BY UsageAssumption DEF UsageTypeOK, OpenIds
<1>2. sessions \in Seq(Session) /\ OpenRules(sessions) = {} /\ Len(sessions) = 0
  BY DEF OpenRules, OpenIds
<1>3. ASSUME NEW rule \in AppRules
      PROVE  UsedToday(rule, sessions, instant) = Cardinality(counted[rule] \cap Today)
  <2> DEFINE w == Amounts(rule, sessions, instant)
  <2>1. w \in Seq(Int) /\ Len(w) = 0 /\ UsedToday(rule, sessions, instant) = Total(w)
    <3>1. instant \in Nat /\ sessions \in Seq(Session)
      BY <1>2
    <3> HIDE DEF UsageInit
    <3>2. /\ w \in Seq(Int) /\ Len(w) = Len(sessions)
          /\ UsedToday(rule, sessions, instant) = Total(w)
      BY <3>1, AmountsFit
    <3> QED
      BY <1>2, <3>2
  <2> HIDE DEF w
  <2>2. Total(w) = 0
    BY <2>1, TotalIsDefined
  <2>3. counted[rule] \cap Today = {}
    OBVIOUS
  <2> QED
    BY <2>1, <2>2, <2>3, FS_EmptySet
<1> QED
  BY <1>1, <1>2, <1>3 DEF UsageKept, ScannedIsCharged

\* What the scan leaves: each list has at most one open session, and those that have
\* one are what it saw in use.
LEMMA ScanKeepsUsage == ASSUME UsageKept, ScanUsage PROVE UsageKept'
<1> DEFINE k == Len(sessions)
           rules == IF daemon = "suspended" THEN {} ELSE inUse
<1>1. /\ sessions \in Seq(Session) /\ k \in Nat /\ DOMAIN sessions = 1..k
      /\ \A id \in 1..k : sessions[id] \in Session
      /\ UsageTypeOK
  BY DEF UsageKept
<1>2. instant \in Nat /\ None \notin Nat /\ rules \in SUBSET AppRules
  BY UsageAssumption DEF UsageKept, UsageTypeOK
<1>3. \E rows \in Seq(Session) :
         /\ rows = sessions' /\ k <= Len(rows)
         /\ \A id \in 1..k :
               /\ rows[id] = SyncedRow(sessions[id], rules, instant)
         /\ \A id \in k + 1..Len(rows) :
               \E rule \in rules \ OpenRules(sessions) : rows[id] = NewRow(rule, instant)
         /\ \A rule \in rules \ OpenRules(sessions) :
               \E id \in k + 1..Len(rows) : rows[id] = NewRow(rule, instant)
         /\ \A i, j \in k + 1..Len(rows) : rows[i].rule = rows[j].rule => i = j
  <2>1. CASE daemon = "suspended"
    <3> DEFINE rows == EndedAt(sessions, AppRules, instant)
    <3>1. /\ rows \in Seq(Session) /\ Len(rows) = k
          /\ \A id \in 1..k : rows[id] = EndedRow(sessions[id], AppRules, instant)
      BY <1>1, <1>2, EndedRows
    <3>2. sessions' = rows
      BY <2>1 DEF ScanUsage
    <3> HIDE DEF rows
    <3>3. ASSUME NEW id \in 1..k PROVE rows[id] = SyncedRow(sessions[id], {}, instant)
      <4>1. sessions[id] \in Session /\ rows[id] = EndedRow(sessions[id], AppRules, instant)
        BY <1>1, <3>1
      <4> QED
        BY <4>1 DEF EndedRow, SyncedRow, Session
    <3>4. k <= Len(rows) /\ k + 1..Len(rows) = {}
      BY <1>1, <3>1
    <3> QED
      BY <2>1, <3>1, <3>2, <3>3, <3>4
  <2>2. CASE daemon # "suspended"
    <3>1. sessions' = SyncedUsage(sessions, inUse, instant) /\ rules = inUse
      BY <2>2 DEF ScanUsage
    <3> HIDE DEF rules
    <3>2. \E rows \in Seq(Session) :
             /\ rows = SyncedUsage(sessions, rules, instant) /\ Len(sessions) <= Len(rows)
             /\ \A id \in 1..Len(sessions) : rows[id] = SyncedRow(sessions[id], rules, instant)
             /\ \A id \in Len(sessions) + 1..Len(rows) :
                   \E rule \in rules \ OpenRules(sessions) : rows[id] = NewRow(rule, instant)
             /\ \A rule \in rules \ OpenRules(sessions) :
                   \E id \in Len(sessions) + 1..Len(rows) : rows[id] = NewRow(rule, instant)
             /\ \A i, j \in Len(sessions) + 1..Len(rows) :
                   rows[i].rule = rows[j].rule => i = j
      <4>1. UsageTypeOK /\ sessions \in Seq(Session)
        BY <1>1
      <4>2. rules \in SUBSET AppRules /\ instant \in Nat
        BY <1>2
      <4> QED
        BY <4>1, <4>2, SyncedRows, Zenon
    <3> QED
      BY <3>1, <3>2
  <2> QED
    BY <2>1, <2>2
<1> DEFINE rows == sessions'
<1>4. /\ rows \in Seq(Session) /\ k <= Len(rows) /\ DOMAIN rows = 1..Len(rows) /\ Len(rows) \in Nat
      /\ \A id \in 1..k : rows[id] = SyncedRow(sessions[id], rules, instant)
      /\ \A id \in k + 1..Len(rows) :
            \E rule \in rules \ OpenRules(sessions) : rows[id] = NewRow(rule, instant)
      /\ \A rule \in rules \ OpenRules(sessions) :
            \E id \in k + 1..Len(rows) : rows[id] = NewRow(rule, instant)
      /\ \A i, j \in k + 1..Len(rows) : rows[i].rule = rows[j].rule => i = j
      /\ \A id \in 1..Len(rows) : id \in 1..k \/ id \in k + 1..Len(rows)
  BY <1>1, <1>3
<1>5. scanned' = rules /\ UNCHANGED <<instant, inUse, daemon, turns, counted, blind>>
  BY DEF ScanUsage
<1> HIDE DEF rules, rows, k
<1>6. ASSUME NEW id \in 1..k
      PROVE  /\ rows[id].rule = sessions[id].rule /\ rows[id].start = sessions[id].start
             /\ rows[id].start <= rows[id].lastSeen /\ rows[id].start <= instant
             /\ rows[id].end \in {None, rows[id].lastSeen}
             /\ rows[id].end = None <=> sessions[id].end = None /\ sessions[id].rule \in rules
             /\ rows[id].end # None => rows[id].end <= instant
             /\ (IF rows[id].end = None THEN instant ELSE rows[id].end)
                  = IF sessions[id].end = None THEN instant ELSE sessions[id].end
             /\ sessions[id].end = None => sessions[id].rule \in OpenRules(sessions)
  <2>1. /\ sessions[id] \in Session
        /\ sessions[id].start <= sessions[id].lastSeen
        /\ sessions[id].end \in {None, sessions[id].lastSeen}
        /\ sessions[id].start <= instant
        /\ sessions[id].end # None => sessions[id].end <= instant
    BY <1>1 DEF UsageTypeOK, UsageKept
  <2>2. /\ rows[id].rule = sessions[id].rule /\ rows[id].start = sessions[id].start
        /\ rows[id].lastSeen = IF sessions[id].end = None THEN instant ELSE sessions[id].lastSeen
        /\ rows[id].end = IF sessions[id].end = None /\ sessions[id].rule \notin rules
                          THEN instant ELSE sessions[id].end
    BY <1>4, <2>1 DEF SyncedRow, Session
  <2>3. sessions[id].end = None => sessions[id].rule \in OpenRules(sessions)
    BY <1>1 DEF OpenRules, OpenIds
  <2>4. sessions[id].start \in Nat /\ sessions[id].lastSeen \in Nat
    BY <2>1 DEF Session
  <2> QED
    BY <1>2, <2>1, <2>2, <2>3, <2>4
<1>7. ASSUME NEW id \in k + 1..Len(rows)
      PROVE  /\ rows[id].start = instant /\ rows[id].lastSeen = instant /\ rows[id].end = None
             /\ rows[id].rule \in rules \ OpenRules(sessions)
  <2>1. PICK rule \in rules \ OpenRules(sessions) : rows[id] = NewRow(rule, instant)
    BY <1>4
  <2> QED
    BY <2>1 DEF NewRow
<1>8. \A id \in 1..Len(rows) :
         /\ rows[id].rule \in AppRules /\ rows[id].start <= rows[id].lastSeen
         /\ rows[id].end \in {None, rows[id].lastSeen} /\ rows[id].start <= instant
         /\ rows[id].end # None => rows[id].end <= instant
         /\ rows[id].end = None => rows[id].rule \in rules
  <2> TAKE id \in 1..Len(rows)
  <2>1. CASE id \in 1..k
    BY <1>1, <1>6, <2>1 DEF Session
  <2>2. CASE id \in k + 1..Len(rows)
    BY <1>2, <1>7, <2>2
  <2> QED
    BY <1>4, <2>1, <2>2
<1>9. ASSUME NEW i \in 1..Len(rows), NEW j \in 1..Len(rows),
             rows[i].end = None, rows[j].end = None, rows[i].rule = rows[j].rule
      PROVE  i = j
  <2>1. ASSUME i \in 1..k, j \in 1..k PROVE i = j
    <3>1. sessions[i].end = None /\ sessions[j].end = None /\ sessions[i].rule = sessions[j].rule
      BY <1>6, <1>9, <2>1
    <3> QED
      BY <1>1, <2>1, <3>1 DEF UsageTypeOK, OpenIds
  <2>2. \A m \in 1..k, n \in k + 1..Len(rows) :
           rows[m].end = None => rows[m].rule # rows[n].rule
    BY <1>6, <1>7
  <2> QED
    BY <1>4, <1>9, <2>1, <2>2
<1>10. UsageTypeOK'
  <2>1. OpenIds(rows) = {id \in 1..Len(rows) : rows[id].end = None}
    BY <1>4 DEF OpenIds
  <2> QED
    BY <1>1, <1>4, <1>5, <1>8, <1>9, <2>1 DEF UsageTypeOK, rows
<1>11. OpenRules(rows) = rules
  <2>1. OpenRules(rows) = {rows[id].rule : id \in {i \in 1..Len(rows) : rows[i].end = None}}
    BY <1>4 DEF OpenRules, OpenIds
  <2>2. ASSUME NEW rule \in rules
        PROVE  \E id \in 1..Len(rows) : rows[id].end = None /\ rows[id].rule = rule
    <3>1. CASE rule \in OpenRules(sessions)
      <4>1. PICK id \in 1..k : sessions[id].end = None /\ sessions[id].rule = rule
        BY <1>1, <3>1 DEF OpenRules, OpenIds
      <4> QED
        BY <1>1, <1>4, <1>6, <4>1
    <3>2. CASE rule \notin OpenRules(sessions)
      <4>1. PICK id \in k + 1..Len(rows) : rows[id] = NewRow(rule, instant)
        BY <1>4, <3>2
      <4> QED
        BY <1>1, <1>4, <4>1 DEF NewRow
    <3> QED
      BY <3>1, <3>2
  <2> QED
    BY <1>8, <2>1, <2>2
<1>12. ASSUME NEW rule \in AppRules
       PROVE  UsedToday(rule, rows, instant) = UsedToday(rule, sessions, instant)
  <2>1. \A id \in 1..Len(sessions) :
           /\ rows[id].rule = sessions[id].rule /\ rows[id].start = sessions[id].start
           /\ (IF rows[id].end = None THEN instant ELSE rows[id].end)
                = IF sessions[id].end = None THEN instant ELSE sessions[id].end
    BY <1>6 DEF k
  <2>2. \A id \in Len(sessions) + 1..Len(rows) : rows[id].start = instant
    BY <1>7 DEF k
  <2>3. Len(sessions) <= Len(rows)
    BY <1>4 DEF k
  <2> QED
    BY <1>1, <1>2, <1>4, <2>1, <2>2, <2>3, ScanChargesNothing
<1>13. ScannedIsCharged'
  BY <1>5, <1>12 DEF ScannedIsCharged, UsageKept, Today, rows
<1> QED
  BY <1>2, <1>4, <1>5, <1>8, <1>10, <1>11, <1>13 DEF UsageKept, rows

\* A tick is charged to the lists with an open session, once, unless it begins a day.
LEMMA TickIsCharged ==
    ASSUME UsageKept, NEW rule \in AppRules
    PROVE  IF DayOf(instant + 1) = DayOf(instant)
           THEN UsedToday(rule, sessions, instant + 1)
                  = UsedToday(rule, sessions, instant)
                    + (IF rule \in OpenRules(sessions) THEN 1 ELSE 0)
           ELSE UsedToday(rule, sessions, instant + 1) = 0
<1> DEFINE k == Len(sessions)
           w == Amounts(rule, sessions, instant)
           v == Amounts(rule, sessions, instant + 1)
<1>1. /\ sessions \in Seq(Session) /\ k \in Nat /\ DOMAIN sessions = 1..k
      /\ \A id \in 1..k : /\ sessions[id] \in Session /\ sessions[id].start <= instant
                           /\ sessions[id].end # None => sessions[id].end <= instant
      /\ instant \in Nat /\ instant + 1 \in Nat
  BY CountedToday DEF UsageKept
<1>rows. \A id \in 1..k : /\ sessions[id] \in Session /\ sessions[id].start <= instant
                          /\ sessions[id].end # None => sessions[id].end <= instant
  <2>1. DOMAIN sessions = 1..k /\ \A id \in 1..k : sessions[id] \in Session
    BY <1>1
  <2> QED
    BY <2>1 DEF UsageKept
<1>2. /\ w \in Seq(Int) /\ Len(w) = k /\ UsedToday(rule, sessions, instant) = Total(w)
      /\ \A id \in 1..k : w[id] = IF sessions[id].rule = rule
                                  THEN LengthOn(sessions[id], DayOf(instant), instant) ELSE 0
  BY <1>1, AmountsFit
<1>3. /\ v \in Seq(Int) /\ Len(v) = k /\ UsedToday(rule, sessions, instant + 1) = Total(v)
      /\ \A id \in 1..k : v[id] = IF sessions[id].rule = rule
                                  THEN LengthOn(sessions[id], DayOf(instant + 1), instant + 1) ELSE 0
  BY <1>1, AmountsFit
<1> HIDE DEF w, v, k
<1>4. DayOf(instant) \in Nat /\ DayOf(instant) <= instant
      /\ DayOf(instant + 1) \in Nat /\ instant + 1 < DayOf(instant + 1) + UsageDay
  BY <1>1, DayOfNow
<1>5. CASE DayOf(instant + 1) = DayOf(instant)
  <2>1. ASSUME NEW id \in 1..k
        PROVE  v[id] = IF sessions[id].rule = rule /\ sessions[id].end = None
                       THEN w[id] + 1 ELSE w[id]
    <3>1. IF sessions[id].end = None
          THEN LengthOn(sessions[id], DayOf(instant), instant + 1)
                 = LengthOn(sessions[id], DayOf(instant), instant) + 1
          ELSE LengthOn(sessions[id], DayOf(instant), instant + 1)
                 = LengthOn(sessions[id], DayOf(instant), instant)
      <4>1. /\ sessions[id] \in Session /\ sessions[id].start <= instant
            /\ sessions[id].end # None => sessions[id].end <= instant
        BY <1>rows
      <4>2. DayOf(instant) <= instant /\ instant + 1 < DayOf(instant) + UsageDay
            /\ DayOf(instant) \in Nat /\ instant \in Nat
        BY <1>1, <1>4, <1>5
      <4> QED
        BY <4>1, <4>2, LengthFacts
    <3> QED
      BY <1>2, <1>3, <1>5, <3>1
  <2>2. CASE rule \in OpenRules(sessions)
    <3>1. PICK i \in 1..k : sessions[i].end = None /\ sessions[i].rule = rule
      BY <1>1, <2>2 DEF OpenRules, OpenIds
    <3>2. \A id \in 1..k : sessions[id].rule = rule /\ sessions[id].end = None => id = i
      BY <1>1, <3>1 DEF UsageKept, UsageTypeOK, OpenIds
    <3>3. \A id \in 1..k : v[id] = IF id = i THEN w[id] + 1 ELSE w[id]
      BY <2>1, <3>1, <3>2
    <3>4. Total(v) = Total(w) + 1
      <4>1. /\ w \in Seq(Int) /\ v \in Seq(Int) /\ Len(w) = Len(v) /\ i \in 1..Len(w)
            /\ \A n \in 1..Len(w) : v[n] = IF n = i THEN w[n] + 1 ELSE w[n]
        BY <1>2, <1>3, <3>3
      <4> QED
        BY <4>1, TotalOfOneMore
    <3> QED
      BY <1>2, <1>3, <1>5, <2>2, <3>4
  <2>3. CASE rule \notin OpenRules(sessions)
    <3>1. \A id \in 1..k : ~(sessions[id].rule = rule /\ sessions[id].end = None)
      BY <1>1, <2>3 DEF OpenRules, OpenIds
    <3>2. \A id \in 1..k : v[id] = w[id]
      BY <2>1, <3>1
    <3>3. Total(v) = Total(w)
      <4>1. Len(w) <= Len(v) /\ \A id \in Len(w) + 1..Len(v) : v[id] = 0
        BY <1>1, <1>2, <1>3
      <4> QED
        BY <1>2, <1>3, <3>2, <4>1, TotalIgnoresZeros
    <3>4. Total(w) \in Int
      BY <1>2, TotalType
    <3> QED
      BY <1>2, <1>3, <1>5, <2>3, <3>3, <3>4
  <2> QED
    BY <2>2, <2>3
<1>6. CASE DayOf(instant + 1) # DayOf(instant)
  <2>1. DayOf(instant + 1) = instant + 1
    BY <1>1, <1>6, NextDay
  <2>2. ASSUME NEW id \in 1..k PROVE v[id] = 0
    <3>1. LengthOn(sessions[id], DayOf(instant + 1), instant + 1) = 0
      BY <1>1, <2>1, LengthFacts
    <3> QED
      BY <1>3, <3>1
  <2>3. Total(v) = 0
    BY <1>3, <2>2, TotalOfZeros
  <2> QED
    BY <1>3, <1>6, <2>3
<1> QED
  BY <1>5, <1>6

\* The ticks of the day are counted alike.
LEMMA TickIsCounted ==
    ASSUME UsageKept, UsageTick, NEW rule \in AppRules
    PROVE  IF DayOf(instant + 1) = DayOf(instant)
           THEN Cardinality(counted'[rule] \cap Today')
                  = Cardinality(counted[rule] \cap Today)
                    + (IF scanned # None /\ rule \in scanned THEN 1 ELSE 0)
           ELSE Cardinality(counted'[rule] \cap Today') = 0
<1>1. /\ instant \in Nat /\ instant <= MaxUsage /\ MaxUsage \in Nat
      /\ counted[rule] \subseteq Nat /\ \A t \in counted[rule] : t < instant
      /\ IsFiniteSet(counted[rule])
  BY CountedToday
<1>2. instant' = instant + 1
      /\ counted'[rule] = counted[rule] \cup (IF scanned # None /\ rule \in scanned THEN {instant} ELSE {})
  BY DEF UsageTick, UsageKept
<1> DEFINE was == counted[rule] \cap Today
<1>3. IsFiniteSet(was) /\ instant \notin was
  <2>1. IsFiniteSet(was)
    BY <1>1, FS_Intersection
  <2>2. instant \notin counted[rule]
    BY <1>1
  <2> QED
    BY <2>1, <2>2
<1>4. CASE DayOf(instant + 1) = DayOf(instant)
  <2>1. (instant + 1) \div UsageDay = instant \div UsageDay
    BY <1>1, <1>4, NextDay, UsageAssumption, DayOfNow
  <2>2. Today' = Today /\ instant \in Today
    BY <1>1, <1>2, <2>1 DEF Today
  <2>3. counted'[rule] \cap Today' =
          was \cup (IF scanned # None /\ rule \in scanned THEN {instant} ELSE {})
    BY <1>2, <2>2
  <2> HIDE DEF was
  <2>4. CASE scanned # None /\ rule \in scanned
    <3>1. Cardinality(was \cup {instant}) = Cardinality(was) + 1
      BY <1>3, FS_AddElement
    <3> QED
      BY <1>4, <2>3, <2>4, <3>1 DEF was
  <2>5. CASE ~ (scanned # None /\ rule \in scanned)
    <3>1. Cardinality(was) \in Nat
      BY <1>3, FS_CardinalityType
    <3>2. counted'[rule] \cap Today' = was
      BY <2>3, <2>5
    <3>3. Cardinality(counted'[rule] \cap Today') = Cardinality(was) + 0
      BY <3>1, <3>2
    <3> QED
      BY <1>4, <2>5, <3>3 DEF was
  <2> QED
    BY <2>4, <2>5
<1>5. CASE DayOf(instant + 1) # DayOf(instant)
  <2>1. DayOf(instant + 1) = instant + 1
    BY <1>1, <1>5, NextDay
  <2>2. ASSUME NEW t \in counted'[rule], t \in Today' PROVE FALSE
    <3>1. t \in Nat /\ t <= instant
      BY <1>1, <1>2, <2>2
    <3>2. t \div UsageDay = (instant + 1) \div UsageDay
      BY <1>2, <2>2 DEF Today
    <3>3. DayOf(t) = DayOf(instant + 1) /\ DayOf(t) <= t
      BY <3>1, <3>2, DayOfNow DEF DayOf
    <3> QED
      BY <1>1, <2>1, <3>1, <3>3
  <2>3. counted'[rule] \cap Today' = {}
    BY <2>2
  <2> QED
    BY <1>5, <2>3, FS_EmptySet
<1> QED
  BY <1>4, <1>5

LEMMA TickKeepsUsage == ASSUME UsageKept, UsageTick PROVE UsageKept'
<1>1. /\ instant' = instant + 1 /\ instant < MaxUsage
      /\ UNCHANGED <<inUse, daemon, sessions, turns, scanned>>
      /\ blind' = IF scanned = None THEN blind \cup OpenRules(sessions) ELSE blind
      /\ counted' = IF scanned = None THEN counted
                    ELSE [rule \in AppRules |-> IF rule \in scanned THEN counted[rule] \cup {instant}
                                                ELSE counted[rule]]
  BY DEF UsageTick
<1>2. instant \in Nat /\ MaxUsage \in Nat
  BY UsageAssumption DEF UsageKept, UsageTypeOK
<1>3. OpenRules(sessions) \subseteq AppRules
  BY DEF UsageKept, UsageTypeOK, OpenRules, OpenIds
<1>4. UsageTypeOK'
  BY <1>1, <1>2, <1>3 DEF UsageKept, UsageTypeOK, OpenIds
<1>5. \A id \in DOMAIN sessions :
         /\ sessions[id].start <= instant + 1
         /\ sessions[id].end # None => sessions[id].end <= instant + 1
  <2> TAKE id \in DOMAIN sessions
  <2>1. sessions[id] \in Session
    BY DEF UsageKept
  <2>2. /\ sessions[id].start <= instant
        /\ sessions[id].end # None => sessions[id].end <= instant
    BY DEF UsageKept
  <2> QED
    BY <1>2, <2>1, <2>2 DEF Session
<1>6. counted' \in [AppRules -> SUBSET Nat]
      /\ \A rule \in AppRules : \A t \in counted'[rule] : t < instant + 1
  <2>1. counted \in [AppRules -> SUBSET Nat]
    BY DEF UsageKept
  <2>2. \A rule \in AppRules : \A t \in counted[rule] : t \in Nat /\ t < instant
    BY <2>1 DEF UsageKept
  <2> QED
    BY <1>1, <1>2, <2>1, <2>2
<1>7. ASSUME NEW rule \in AppRules \ blind'
      PROVE  UsedToday(rule, sessions', instant') = Cardinality(counted'[rule] \cap Today')
  <2>1. /\ rule \in AppRules \ blind
        /\ scanned = None => rule \notin OpenRules(sessions)
    BY <1>1, <1>7
  <2>2. rule \in OpenRules(sessions) <=> scanned # None /\ rule \in scanned
    BY <2>1 DEF UsageKept
  <2>3. UsedToday(rule, sessions, instant) = Cardinality(counted[rule] \cap Today)
    BY <2>1 DEF UsageKept, ScannedIsCharged
  <2>4. UsedToday(rule, sessions', instant') = UsedToday(rule, sessions, instant + 1)
    BY <1>1
  <2> QED
    BY <2>1, <2>2, <2>3, <2>4, TickIsCharged, TickIsCounted
<1> QED
  BY <1>1, <1>4, <1>5, <1>6, <1>7 DEF UsageKept, ScannedIsCharged

\* Nothing else touches sessions, what is counted, or the time.
LEMMA OthersKeepUsage ==
    ASSUME UsageKept, UNCHANGED <<instant, sessions, counted, blind>>,
           UsageTypeOK', scanned' = None \/ scanned' = scanned
    PROVE  UsageKept'
<1>1. Today' = Today
  BY DEF Today
<1>2. ScannedIsCharged'
  BY <1>1 DEF UsageKept, ScannedIsCharged
<1> QED
  BY <1>2 DEF UsageKept

LEMMA UsageIsKept == ASSUME UsageKept, [UsageNext]_usageVars PROVE UsageKept'
<1>1. CASE ScanUsage
  BY <1>1, ScanKeepsUsage
<1>2. CASE UsageTick
  BY <1>2, TickKeepsUsage
<1>3. ASSUME NEW rule \in AppRules, Use(rule) PROVE UsageKept'
  <2>1. UsageTypeOK'
    BY <1>3, UsageAssumption DEF Use, Turns, UsageKept, UsageTypeOK, OpenIds
  <2> QED
    BY <1>3, <2>1, OthersKeepUsage DEF Use
<1>4. ASSUME NEW state \in {"up", "suspended", "down"}, Become(state) PROVE UsageKept'
  <2>1. UsageTypeOK'
    BY <1>4, UsageAssumption DEF Become, Turns, UsageKept, UsageTypeOK, OpenIds
  <2> QED
    BY <1>4, <2>1, OthersKeepUsage DEF Become
<1>5. CASE UNCHANGED usageVars
  <2>1. UsageTypeOK'
    BY <1>5 DEF usageVars, UsageKept, UsageTypeOK, OpenIds
  <2> QED
    BY <1>5, <2>1, OthersKeepUsage DEF usageVars
<1> QED
  BY <1>1, <1>2, <1>3, <1>4, <1>5 DEF UsageNext

\* For every day's length and all lists, through scans, suspensions and stops of the
\* daemon: an allowance is charged the ticks after a scan that saw its list in use.
THEOREM ScannedTimeIsCharged == UsageSpec => []UsageInvariant
<1>1. UsageInit => UsageKept
  BY UsageKeptFromInit
<1>2. UsageKept /\ [UsageNext]_usageVars => UsageKept'
  BY UsageIsKept
<1>3. UsageKept => UsageInvariant
  BY DEF UsageKept, UsageInvariant
<1> QED
  BY <1>1, <1>2, <1>3, PTL DEF UsageSpec

-------------------------------------------------------------------------------
(* The time of websites.                                                     *)

Row == [tab : Tabs, page : Metered, start : Nat, seen : Nat, end : Nat \cup {None}, told : Nat]

CallRecord ==
    [kind : {"evaluate", "start", "end", "beat"}, tab : Tabs, page : Pages \cup {None}, nav : Nat,
     visit : Nat \cup {None}, next : Metered \cup {None}, answer : Nat \cup {None, Failed}]

ExtensionRecord ==
    [active : [Tabs -> [visit : Nat, page : Metered] \cup {None}],
     pending : [Tabs -> Metered \cup {None}], token : [Tabs -> Nat], calls : Seq(CallRecord)]

RowOf(rows, id, tab, page) == id \in DOMAIN rows /\ rows[id].tab = tab /\ rows[id].page = page

Began(call) == call.kind = "start" /\ call.answer \notin {None, Failed}

\* What a call of the queue says of the rows is so.
CallKept(call, rows) ==
    /\ call.kind = "start" => call.page \in Metered
    /\ Began(call) => RowOf(rows, call.answer, call.tab, call.page)
    /\ call.kind \in {"end", "beat"} => call.visit \in DOMAIN rows /\ rows[call.visit].tab = call.tab

\* Calls are answered in their order, and a later start has the later row.
QueueKept(calls) ==
    \A m, n \in DOMAIN calls : m < n =>
        /\ calls[m].answer = None => calls[n].answer = None
        /\ Began(calls[m]) /\ Began(calls[n]) => calls[m].answer < calls[n].answer

\* A visit the extension knows has its row; the starts it has not heard of yet have
\* later ones.
ActiveKept(e, rows, tab) ==
    e.active[tab] # None =>
        /\ RowOf(rows, e.active[tab].visit, tab, e.active[tab].page)
        /\ \A n \in DOMAIN e.calls :
              Began(e.calls[n]) /\ e.calls[n].tab = tab => e.active[tab].visit < e.calls[n].answer

ExtensionKept(e, rows) ==
    /\ e \in ExtensionRecord
    /\ \A n \in DOMAIN e.calls : CallKept(e.calls[n], rows)
    /\ QueueKept(e.calls)
    /\ \A tab \in Tabs : ActiveKept(e, rows, tab)

\* The extension knows of an open row, is about to end it, or is about to hear of it.
Accounted(e, id, tab) ==
    \/ e.active[tab] # None /\ e.active[tab].visit = id
    \/ \E n \in DOMAIN e.calls :
          \/ e.calls[n].kind = "end" /\ e.calls[n].visit = id /\ e.calls[n].answer = None
          \/ Began(e.calls[n]) /\ e.calls[n].tab = tab /\ e.calls[n].answer = id

\* The visit of a tab is the page it shows in front, and so is the one it asked for.
KnownKept(e, rows, tab, at, shown) ==
    /\ e.active[tab] # None => at = tab /\ shown = e.active[tab].page
    /\ e.pending[tab] # None => at = tab /\ shown = e.pending[tab]
    /\ \A id \in Open(rows, tab) : Accounted(e, id, tab)

\* The most that rows can be charged by now.
Lasted(rows, tab, now) ==
    [id \in DOMAIN rows |-> IF rows[id].tab = tab
                            THEN (IF rows[id].end = None THEN now ELSE rows[id].end) - rows[id].start
                            ELSE 0]

Timely(row, now) ==
    /\ row.start <= row.seen /\ row.seen <= now
    /\ row.end # None => row.start <= row.end /\ row.end <= now

RowsKept(rows, now) ==
    /\ rows \in Seq(Row)
    /\ \A id \in DOMAIN rows : Timely(rows[id], now)
    /\ \A id, later \in DOMAIN rows :
          id < later /\ rows[id].tab = rows[later].tab =>
              rows[id].end # None /\ rows[id].end <= rows[later].start

\* A call that failed leaves its tab in doubt.
LostKept(e, lost) ==
    \A n \in DOMAIN e.calls : e.calls[n].answer = Failed => e.calls[n].tab \in lost

SurroundingsKept ==
    /\ clock \in 0..MaxClock /\ front \in Tabs \cup {None} /\ unknown \subseteq Tabs
    /\ shows \in [Tabs -> Pages \cup {Blocked, None}]
    /\ watched \in [Tabs -> 0..clock]
    /\ budget \in [moves : 0..MaxMoves, faults : 0..MaxFaults]

VisitsKept ==
    /\ SurroundingsKept
    /\ RowsKept(visits, clock)
    /\ ExtensionKept(extension, visits)
    /\ LostKept(extension, unknown)
    /\ \A tab \in Tabs \ unknown :
          /\ KnownKept(extension, visits, tab, front, shows[tab])
          /\ Total(Lasted(visits, tab, clock)) <= watched[tab]

-------------------------------------------------------------------------------
(* What the extension's functions do to what it knows.                       *)

LEMMA VisitTypes ==
    /\ None \notin Nat /\ Failed \notin Nat /\ None # Failed /\ None \notin Metered
    /\ None \notin [visit : Nat, page : Metered] /\ IsFiniteSet(Tabs)
    /\ Metered \subseteq Pages /\ Pages \subseteq Pages \cup {Blocked, None} /\ Plain \notin Metered
    /\ Blocked \notin Metered
BY VisitsAssumption DEF Pages

LEMMA ExtensionFields ==
    ASSUME NEW e \in ExtensionRecord
    PROVE  /\ e.active \in [Tabs -> [visit : Nat, page : Metered] \cup {None}]
           /\ e.pending \in [Tabs -> Metered \cup {None}]
           /\ e.token \in [Tabs -> Nat]
           /\ e.calls \in Seq(CallRecord)
           /\ Len(e.calls) \in Nat /\ DOMAIN e.calls = 1..Len(e.calls)
           /\ \A n \in DOMAIN e.calls : e.calls[n] \in CallRecord
BY DEF ExtensionRecord

\* Calls are added at the end of the queue and wait for their answers; of a tab's visit
\* the extension learns nothing new.
Sent(e, f, rows) ==
    /\ f \in ExtensionRecord /\ Len(e.calls) <= Len(f.calls)
    /\ \A n \in DOMAIN e.calls : f.calls[n] = e.calls[n]
    /\ \A n \in DOMAIN f.calls \ DOMAIN e.calls :
          f.calls[n].answer = None /\ CallKept(f.calls[n], rows)
    /\ \A tab \in Tabs : f.active[tab] \in {None, e.active[tab]}

LEMMA SentIsKept ==
    ASSUME NEW rows, NEW e, NEW f, ExtensionKept(e, rows), Sent(e, f, rows)
    PROVE  ExtensionKept(f, rows)
<1>1. e \in ExtensionRecord /\ f \in ExtensionRecord
  BY DEF ExtensionKept, Sent
<1>2. /\ Len(e.calls) \in Nat /\ DOMAIN e.calls = 1..Len(e.calls)
      /\ Len(f.calls) \in Nat /\ DOMAIN f.calls = 1..Len(f.calls)
  BY <1>1, ExtensionFields
<1>3. Len(e.calls) <= Len(f.calls)
  BY DEF Sent
<1>4. \A n \in DOMAIN e.calls : n \in DOMAIN f.calls /\ f.calls[n] = e.calls[n]
  BY <1>2, <1>3 DEF Sent
<1>5. \A n \in DOMAIN f.calls \ DOMAIN e.calls :
          f.calls[n].answer = None /\ CallKept(f.calls[n], rows) /\ ~Began(f.calls[n])
  BY DEF Sent, Began
<1>6. \A n \in DOMAIN f.calls : CallKept(f.calls[n], rows)
  BY <1>4, <1>5 DEF ExtensionKept
<1>7. QueueKept(f.calls)
  <2> SUFFICES ASSUME NEW m \in DOMAIN f.calls, NEW n \in DOMAIN f.calls, m < n
               PROVE  /\ f.calls[m].answer = None => f.calls[n].answer = None
                      /\ Began(f.calls[m]) /\ Began(f.calls[n]) =>
                            f.calls[m].answer < f.calls[n].answer
    BY DEF QueueKept
  <2>1. CASE n \in DOMAIN e.calls
    <3>1. m \in DOMAIN e.calls
      BY <1>2, <2>1
    <3>2. f.calls[m] = e.calls[m] /\ f.calls[n] = e.calls[n]
      BY <1>4, <2>1, <3>1
    <3>3. QueueKept(e.calls)
      BY DEF ExtensionKept
    <3> QED
      BY <2>1, <3>1, <3>2, <3>3 DEF QueueKept
  <2>2. CASE n \notin DOMAIN e.calls
    BY <1>5, <2>2
  <2> QED
    BY <2>1, <2>2
<1>8. ASSUME NEW tab \in Tabs PROVE ActiveKept(f, rows, tab)
  <2> SUFFICES ASSUME f.active[tab] # None PROVE ActiveKept(f, rows, tab)
    BY DEF ActiveKept
  <2>1. f.active[tab] = e.active[tab] /\ e.active[tab] # None
    BY DEF Sent
  <2>2. /\ RowOf(rows, e.active[tab].visit, tab, e.active[tab].page)
        /\ \A n \in DOMAIN e.calls :
              Began(e.calls[n]) /\ e.calls[n].tab = tab => e.active[tab].visit < e.calls[n].answer
    BY <2>1 DEF ExtensionKept, ActiveKept
  <2>3. ASSUME NEW n \in DOMAIN f.calls, Began(f.calls[n]), f.calls[n].tab = tab
        PROVE  f.active[tab].visit < f.calls[n].answer
    <3>1. n \in DOMAIN e.calls
      BY <1>5, <2>3
    <3> QED
      BY <1>4, <2>1, <2>2, <2>3, <3>1
  <2> QED
    BY <2>1, <2>2, <2>3 DEF ActiveKept
<1> QED
  BY <1>1, <1>6, <1>7, <1>8 DEF ExtensionKept

\* What was accounted for is, when a visit is forgotten only with a call that ends it.
LEMMA SentAccounts ==
    ASSUME NEW rows, NEW e, NEW f, ExtensionKept(e, rows), Sent(e, f, rows),
           NEW tab \in Tabs, NEW id, Accounted(e, id, tab),
           \/ f.active[tab] = e.active[tab]
           \/ e.active[tab] # None => \E n \in DOMAIN f.calls :
                  f.calls[n].kind = "end" /\ f.calls[n].answer = None
                  /\ f.calls[n].visit = e.active[tab].visit
    PROVE  Accounted(f, id, tab)
<1>1. e \in ExtensionRecord /\ f \in ExtensionRecord /\ Len(e.calls) <= Len(f.calls)
  BY DEF ExtensionKept, Sent
<1>2. /\ Len(e.calls) \in Nat /\ DOMAIN e.calls = 1..Len(e.calls)
      /\ Len(f.calls) \in Nat /\ DOMAIN f.calls = 1..Len(f.calls)
  BY <1>1, ExtensionFields
<1>4. \A n \in DOMAIN e.calls : n \in DOMAIN f.calls /\ f.calls[n] = e.calls[n]
  BY <1>1, <1>2 DEF Sent
<1>5. CASE e.active[tab] # None /\ e.active[tab].visit = id
  <2>1. CASE f.active[tab] = e.active[tab]
    BY <1>5, <2>1 DEF Accounted
  <2>2. CASE \E n \in DOMAIN f.calls :
                  f.calls[n].kind = "end" /\ f.calls[n].answer = None
                  /\ f.calls[n].visit = e.active[tab].visit
    BY <1>5, <2>2 DEF Accounted
  <2> QED
    BY <1>5, <2>1, <2>2
<1>6. CASE \E n \in DOMAIN e.calls :
              \/ e.calls[n].kind = "end" /\ e.calls[n].visit = id /\ e.calls[n].answer = None
              \/ Began(e.calls[n]) /\ e.calls[n].tab = tab /\ e.calls[n].answer = id
  BY <1>4, <1>6 DEF Accounted
<1> QED
  BY <1>5, <1>6 DEF Accounted

LEMMA CallFields ==
    ASSUME NEW kind \in {"evaluate", "start", "end", "beat"}, NEW tab \in Tabs,
           NEW page \in Pages \cup {None}, NEW visit \in Nat \cup {None}, NEW nav \in Nat
    PROVE  /\ Call(kind, tab, page, visit, nav) \in CallRecord
           /\ Call(kind, tab, page, visit, nav).kind = kind
           /\ Call(kind, tab, page, visit, nav).tab = tab
           /\ Call(kind, tab, page, visit, nav).page = page
           /\ Call(kind, tab, page, visit, nav).visit = visit
           /\ Call(kind, tab, page, visit, nav).answer = None
           /\ ~Began(Call(kind, tab, page, visit, nav))
BY DEF Call, CallRecord, Began

LEMMA EndCallFields ==
    ASSUME NEW tab \in Tabs, NEW visit \in Nat
    PROVE  /\ Call("end", tab, None, visit, 0) \in CallRecord
           /\ Call("end", tab, None, visit, 0).kind = "end"
           /\ Call("end", tab, None, visit, 0).tab = tab
           /\ Call("end", tab, None, visit, 0).visit = visit
           /\ Call("end", tab, None, visit, 0).answer = None
           /\ ~Began(Call("end", tab, None, visit, 0))
BY CallFields

LEMMA BeatCallFields ==
    ASSUME NEW tab \in Tabs, NEW visit \in Nat, NEW rows,
           visit \in DOMAIN rows, rows[visit].tab = tab
    PROVE  /\ Call("beat", tab, None, visit, 0) \in CallRecord
           /\ Call("beat", tab, None, visit, 0).answer = None
           /\ CallKept(Call("beat", tab, None, visit, 0), rows)
BY CallFields DEF CallKept, Began, Call

LEMMA EvaluateCallFields ==
    ASSUME NEW tab \in Tabs, NEW page \in Pages, NEW nav \in Nat, NEW rows
    PROVE  /\ Call("evaluate", tab, page, None, nav) \in CallRecord
           /\ Call("evaluate", tab, page, None, nav).kind = "evaluate"
           /\ Call("evaluate", tab, page, None, nav).answer = None
           /\ CallKept(Call("evaluate", tab, page, None, nav), rows)
BY CallFields DEF CallKept, Began, Call

LEMMA StartCallFields ==
    ASSUME NEW tab \in Tabs, NEW page \in Metered, NEW nav \in Nat, NEW rows
    PROVE  /\ Call("start", tab, page, None, nav) \in CallRecord
           /\ Call("start", tab, page, None, nav).kind = "start"
           /\ Call("start", tab, page, None, nav).page = page
           /\ Call("start", tab, page, None, nav).answer = None
           /\ CallKept(Call("start", tab, page, None, nav), rows)
BY CallFields, VisitTypes DEF CallKept, Began, Call

LEMMA SendIsSent ==
    ASSUME NEW rows, NEW e, ExtensionKept(e, rows),
           NEW call \in CallRecord, call.answer = None, CallKept(call, rows),
           NEW f, f = [e EXCEPT !.calls = Append(e.calls, call)]
    PROVE  /\ Sent(e, f, rows)
           /\ f.active = e.active /\ f.pending = e.pending /\ f.token = e.token
           /\ Len(f.calls) = Len(e.calls) + 1 /\ f.calls[Len(f.calls)] = call
<1>1. e \in ExtensionRecord
  BY DEF ExtensionKept
<1>2. /\ e.active \in [Tabs -> [visit : Nat, page : Metered] \cup {None}]
      /\ e.pending \in [Tabs -> Metered \cup {None}]
      /\ e.token \in [Tabs -> Nat]
      /\ e.calls \in Seq(CallRecord)
      /\ Len(e.calls) \in Nat /\ DOMAIN e.calls = 1..Len(e.calls)
  BY <1>1, ExtensionFields
<1>4. f.active = e.active /\ f.pending = e.pending /\ f.token = e.token
      /\ f.calls = Append(e.calls, call)
  BY <1>1 DEF ExtensionRecord
<1>5. /\ f.calls \in Seq(CallRecord) /\ Len(f.calls) = Len(e.calls) + 1
      /\ DOMAIN f.calls = 1..Len(e.calls) + 1
      /\ \A n \in 1..Len(e.calls) : f.calls[n] = e.calls[n]
      /\ f.calls[Len(e.calls) + 1] = call
  BY <1>2, <1>4
<1>6. f \in ExtensionRecord
  BY <1>1, <1>4, <1>5 DEF ExtensionRecord
<1>7. \A n \in DOMAIN f.calls \ DOMAIN e.calls : n = Len(e.calls) + 1
  BY <1>2, <1>5
<1>8. Sent(e, f, rows)
  BY <1>2, <1>4, <1>5, <1>6, <1>7 DEF Sent
<1> QED
  BY <1>4, <1>5, <1>8

\* endVisitForTab of some tabs: their visits are forgotten, and calls sent that end them.
VisitsEnded(e, f, rows, tabs) ==
    /\ ExtensionKept(f, rows) /\ f.token = e.token
    /\ \A tab \in Tabs : f.active[tab] = IF tab \in tabs THEN None ELSE e.active[tab]
    /\ \A tab \in Tabs : f.pending[tab] = IF tab \in tabs THEN None ELSE e.pending[tab]
    /\ \A tab \in Tabs : \A id \in Nat : Accounted(e, id, tab) => Accounted(f, id, tab)
    /\ Len(e.calls) <= Len(f.calls)
    /\ \A n \in DOMAIN e.calls : f.calls[n] = e.calls[n]
    /\ \A n \in DOMAIN f.calls \ DOMAIN e.calls :
          f.calls[n].kind = "end" /\ f.calls[n].answer = None
    /\ \A tab \in Tabs \cap tabs : e.active[tab] # None => Len(e.calls) < Len(f.calls)

LEMMA EndVisitsEnds ==
    ASSUME NEW rows, NEW e, ExtensionKept(e, rows), NEW tabs, NEW f, f = EndVisits(e, tabs)
    PROVE  VisitsEnded(e, f, rows, tabs)
<1> DEFINE S == tabs \cap Visited(e)
           ended == SetToSeq(S)
           new == [n \in DOMAIN ended |-> Call("end", ended[n], None, e.active[ended[n]].visit, 0)]
           active == [tab \in Tabs |-> IF tab \in tabs THEN None ELSE e.active[tab]]
           pending == [tab \in Tabs |-> IF tab \in tabs THEN None ELSE e.pending[tab]]
<1>1. e \in ExtensionRecord
  BY DEF ExtensionKept
<1>2. /\ e.active \in [Tabs -> [visit : Nat, page : Metered] \cup {None}]
      /\ e.pending \in [Tabs -> Metered \cup {None}]
      /\ e.token \in [Tabs -> Nat]
      /\ e.calls \in Seq(CallRecord)
      /\ Len(e.calls) \in Nat /\ DOMAIN e.calls = 1..Len(e.calls)
  BY <1>1, ExtensionFields
<1>3. S \subseteq Tabs /\ IsFiniteSet(S) /\ \A tab \in S : e.active[tab] # None
  <2>1. S \subseteq Tabs /\ \A tab \in S : e.active[tab] # None
    BY DEF Visited
  <2> QED
    BY <2>1, VisitTypes, FS_Subset
<1>4. /\ ended \in Seq(S)
      /\ \A x \in S : \E n \in DOMAIN ended : ended[n] = x
  <2> HIDE DEF S
  <2> QED
    BY <1>3, Listing
<1>5. f = [e EXCEPT !.pending = pending, !.active = active, !.calls = e.calls \o new]
  BY DEF EndVisits
<1>6. f.active = active /\ f.pending = pending /\ f.token = e.token /\ f.calls = e.calls \o new
      /\ f = [active |-> active, pending |-> pending, token |-> e.token, calls |-> e.calls \o new]
  <2> HIDE DEF active, pending, new
  <2> QED
    BY <1>1, <1>5 DEF ExtensionRecord
<1> HIDE DEF ended
<1>7. Len(ended) \in Nat /\ DOMAIN ended = 1..Len(ended) /\ \A n \in 1..Len(ended) : ended[n] \in S
  <2> HIDE DEF S
  <2> QED
    BY <1>4
<1>8. ASSUME NEW n \in 1..Len(ended)
      PROVE  /\ new[n] \in CallRecord /\ CallKept(new[n], rows)
             /\ new[n].kind = "end" /\ new[n].answer = None
             /\ new[n].visit = e.active[ended[n]].visit
  <2>1. ended[n] \in Tabs /\ e.active[ended[n]] # None
    <3> HIDE DEF S
    <3> QED
      BY <1>3, <1>7
  <2>2. e.active[ended[n]].visit \in Nat
    BY <1>2, <2>1
  <2>3. new[n] = Call("end", ended[n], None, e.active[ended[n]].visit, 0)
    BY <1>7
  <2>4. /\ new[n] \in CallRecord /\ new[n].kind = "end" /\ new[n].answer = None
        /\ new[n].visit = e.active[ended[n]].visit /\ new[n].tab = ended[n] /\ ~Began(new[n])
    <3> HIDE DEF new, S
    <3> DEFINE tab == ended[n]
               visit == e.active[ended[n]].visit
               call == Call("end", tab, None, visit, 0)
    <3>1. tab \in Tabs /\ visit \in Nat /\ new[n] = call
      BY <2>1, <2>2, <2>3
    <3> HIDE DEF tab, visit
    <3>2. /\ call \in CallRecord /\ call.kind = "end" /\ call.tab = tab
          /\ call.visit = visit /\ call.answer = None /\ ~Began(call)
      BY <3>1, EndCallFields, Zenon
    <3> HIDE DEF call
    <3> QED
      BY <3>1, <3>2 DEF tab, visit
  <2>5. RowOf(rows, e.active[ended[n]].visit, ended[n], e.active[ended[n]].page)
    BY <2>1 DEF ExtensionKept, ActiveKept
  <2> HIDE DEF new
  <2> QED
    BY <2>4, <2>5 DEF CallKept, RowOf
<1>9. new \in Seq(CallRecord) /\ Len(new) = Len(ended) /\ DOMAIN new = 1..Len(ended)
  <2>1. new \in [1..Len(ended) -> CallRecord]
    BY <1>7, <1>8
  <2> HIDE DEF new
  <2> QED
    BY <1>7, <2>1
<1>10. /\ f.calls \in Seq(CallRecord)
       /\ Len(f.calls) = Len(e.calls) + Len(ended)
       /\ DOMAIN f.calls = 1..Len(e.calls) + Len(ended)
       /\ \A n \in 1..Len(e.calls) + Len(ended) :
             f.calls[n] = IF n <= Len(e.calls) THEN e.calls[n] ELSE new[n - Len(e.calls)]
  <2>1. f.calls = e.calls \o new
    BY <1>6
  <2> HIDE DEF new
  <2>2. /\ e.calls \o new \in Seq(CallRecord)
        /\ Len(e.calls \o new) = Len(e.calls) + Len(new)
        /\ \A i \in 1..Len(e.calls) + Len(new) :
              (e.calls \o new)[i] = IF i <= Len(e.calls) THEN e.calls[i] ELSE new[i - Len(e.calls)]
    BY <1>2, <1>9, ConcatProperties
  <2> QED
    BY <1>2, <1>7, <1>9, <2>1, <2>2
<1>11. active \in [Tabs -> [visit : Nat, page : Metered] \cup {None}]
       /\ pending \in [Tabs -> Metered \cup {None}]
  BY <1>2
<1>12. \A tab \in Tabs : /\ f.active[tab] = IF tab \in tabs THEN None ELSE e.active[tab]
                         /\ f.pending[tab] = IF tab \in tabs THEN None ELSE e.pending[tab]
  BY <1>6
<1>13. f \in ExtensionRecord
  <2> HIDE DEF active, pending, new
  <2> QED
    BY <1>2, <1>6, <1>10, <1>11 DEF ExtensionRecord
<1> HIDE DEF active, pending, new
<1>14. ASSUME NEW n \in DOMAIN f.calls \ DOMAIN e.calls
       PROVE  f.calls[n].kind = "end" /\ f.calls[n].answer = None /\ CallKept(f.calls[n], rows)
  <2>1. n - Len(e.calls) \in 1..Len(ended) /\ f.calls[n] = new[n - Len(e.calls)]
    BY <1>2, <1>7, <1>10
  <2> QED
    BY <1>8, <2>1
<1>15. Sent(e, f, rows)
  BY <1>2, <1>7, <1>10, <1>12, <1>13, <1>14 DEF Sent
<1>16. ExtensionKept(f, rows)
  BY <1>15, SentIsKept
<1>17. ASSUME NEW tab \in Tabs \cap tabs, e.active[tab] # None
       PROVE  \E n \in DOMAIN f.calls \ DOMAIN e.calls :
                 f.calls[n].visit = e.active[tab].visit
  <2>1. tab \in S
    BY <1>17 DEF Visited
  <2>2. PICK n \in 1..Len(ended) : ended[n] = tab
    <3> HIDE DEF S
    <3> QED
      BY <1>4, <1>7, <2>1
  <2>3. n + Len(e.calls) \in DOMAIN f.calls \ DOMAIN e.calls /\ f.calls[n + Len(e.calls)] = new[n]
    <3>1. /\ n \in Nat /\ n >= 1 /\ n <= Len(ended)
          /\ n + Len(e.calls) \in 1..Len(e.calls) + Len(ended) /\ ~(n + Len(e.calls) <= Len(e.calls))
          /\ n + Len(e.calls) - Len(e.calls) = n
      BY <1>2, <1>7
    <3>2. f.calls[n + Len(e.calls)] = new[n + Len(e.calls) - Len(e.calls)]
      <4> HIDE DEF S
      <4> QED
        BY <1>10, <3>1
    <3>3. n + Len(e.calls) \in DOMAIN f.calls /\ n + Len(e.calls) \notin DOMAIN e.calls
      <4> HIDE DEF S
      <4> QED
        BY <1>2, <1>10, <3>1
    <3> QED
      BY <3>1, <3>2, <3>3
  <2> QED
    BY <1>8, <2>2, <2>3
<1>18. ASSUME NEW tab \in Tabs, NEW id \in Nat, Accounted(e, id, tab) PROVE Accounted(f, id, tab)
  <2>1. \/ f.active[tab] = e.active[tab]
        \/ e.active[tab] # None => \E n \in DOMAIN f.calls :
               f.calls[n].kind = "end" /\ f.calls[n].answer = None
               /\ f.calls[n].visit = e.active[tab].visit
    BY <1>12, <1>14, <1>17
  <2> QED
    BY <1>15, <1>18, <2>1, SentAccounts
<1>19. ASSUME NEW tab \in Tabs \cap tabs, e.active[tab] # None PROVE Len(e.calls) < Len(f.calls)
  <2>1. PICK n \in DOMAIN f.calls \ DOMAIN e.calls : TRUE
    BY <1>17, <1>19
  <2> QED
    BY <2>1, <1>2, <1>7, <1>10
<1>20. /\ Len(e.calls) <= Len(f.calls) /\ f.token = e.token
       /\ \A n \in DOMAIN e.calls : f.calls[n] = e.calls[n]
  BY <1>2, <1>6, <1>7, <1>10
<1> QED
  BY <1>12, <1>14, <1>16, <1>18, <1>19, <1>20 DEF VisitsEnded

\* Neither a token nor a pending start changes what is known of the rows.
LEMMA SameCallsAreKept ==
    ASSUME NEW rows, NEW e, ExtensionKept(e, rows), NEW f \in ExtensionRecord,
           f.active = e.active, f.calls = e.calls
    PROVE  /\ ExtensionKept(f, rows)
           /\ \A tab \in Tabs : \A id \in Nat : Accounted(e, id, tab) => Accounted(f, id, tab)
BY DEF ExtensionKept, ActiveKept, Accounted

\* startVisitForTab: a start is sent, unless the visit is known or asked for.
VisitAsked(e, f, rows, tab, page) ==
    /\ ExtensionKept(f, rows) /\ f.active = e.active
    /\ \A other \in Tabs \ {tab} : f.pending[other] = e.pending[other]
    /\ \A other \in Tabs : \A id \in Nat : Accounted(e, id, other) => Accounted(f, id, other)
    /\ \/ f.pending[tab] = e.pending[tab]
       \/ /\ f.pending[tab] = page /\ Len(f.calls) = Len(e.calls) + 1
          /\ f.calls[Len(f.calls)].kind = "start" /\ f.calls[Len(f.calls)].page = page

LEMMA StartVisitAsks ==
    ASSUME NEW rows, NEW e, ExtensionKept(e, rows), NEW tab \in Tabs, NEW page \in Metered,
           NEW nav \in Nat, NEW f, f = StartVisit(e, tab, page, nav)
    PROVE  VisitAsked(e, f, rows, tab, page)
<1>1. e \in ExtensionRecord
  BY DEF ExtensionKept
<1>2. CASE f = e
  BY <1>2 DEF VisitAsked
<1>3. CASE f # e
  <2> DEFINE g == [e EXCEPT !.pending = [e.pending EXCEPT ![tab] = page]]
  <2>1. g \in ExtensionRecord /\ g.active = e.active /\ g.calls = e.calls
        /\ g.pending = [e.pending EXCEPT ![tab] = page]
    BY <1>1 DEF ExtensionRecord
  <2>2. g = [e EXCEPT !.pending[tab] = page] /\ f = Send(g, "start", tab, page, None, nav)
    BY <1>3 DEF StartVisit
  <2> HIDE DEF g
  <2>3. /\ ExtensionKept(g, rows)
        /\ \A other \in Tabs : \A id \in Nat : Accounted(e, id, other) => Accounted(g, id, other)
    BY <2>1, SameCallsAreKept
  <2> DEFINE call == Call("start", tab, page, None, nav)
  <2>4. call \in CallRecord /\ call.kind = "start" /\ call.page = page /\ call.answer = None
        /\ CallKept(call, rows)
    BY StartCallFields
  <2>5. f = [g EXCEPT !.calls = Append(g.calls, call)]
    BY <2>2 DEF Send
  <2> HIDE DEF call
  <2>7. /\ Sent(g, f, rows)
        /\ f.active = g.active /\ f.pending = g.pending /\ f.token = g.token
        /\ Len(f.calls) = Len(g.calls) + 1 /\ f.calls[Len(f.calls)] = call
    BY <2>3, <2>4, <2>5, SendIsSent
  <2>8. ExtensionKept(f, rows)
    BY <2>3, <2>7, SentIsKept
  <2>9. ASSUME NEW other \in Tabs, NEW id \in Nat, Accounted(e, id, other)
        PROVE  Accounted(f, id, other)
    BY <2>3, <2>7, <2>9, SentAccounts
  <2>10. e.pending \in [Tabs -> Metered \cup {None}]
    BY <1>1, ExtensionFields
  <2>11. f.pending[tab] = page /\ \A other \in Tabs \ {tab} : f.pending[other] = e.pending[other]
    BY <2>1, <2>7, <2>10
  <2>12. /\ f.active = e.active /\ Len(f.calls) = Len(e.calls) + 1
         /\ f.calls[Len(f.calls)].kind = "start" /\ f.calls[Len(f.calls)].page = page
    BY <2>1, <2>4, <2>7
  <2> QED
    BY <2>8, <2>9, <2>11, <2>12 DEF VisitAsked
<1> QED
  BY <1>2, <1>3

AllAccounted(e, rows, tab) == \A id \in Open(rows, tab) : Accounted(e, id, tab)

LEMMA OpenType ==
    ASSUME NEW rows \in Seq(Row), NEW tab PROVE Open(rows, tab) \subseteq DOMAIN rows \cap Nat
BY DEF Open

LEMMA EndedIsKnown ==
    ASSUME NEW rows \in Seq(Row), NEW e, NEW tabs, NEW f, VisitsEnded(e, f, rows, tabs),
           NEW tab \in Tabs, AllAccounted(e, rows, tab), NEW at, NEW shown,
           tab \notin tabs => KnownKept(e, rows, tab, at, shown)
    PROVE  KnownKept(f, rows, tab, at, shown)
<1>1. ASSUME NEW id \in Open(rows, tab) PROVE Accounted(f, id, tab)
  <2>1. id \in Nat /\ Accounted(e, id, tab)
    BY OpenType DEF AllAccounted
  <2> QED
    BY <2>1 DEF VisitsEnded
<1>2. f.active[tab] = (IF tab \in tabs THEN None ELSE e.active[tab])
      /\ f.pending[tab] = (IF tab \in tabs THEN None ELSE e.pending[tab])
  BY DEF VisitsEnded
<1> QED
  BY <1>1, <1>2 DEF KnownKept

LEMMA SentIsKnown ==
    ASSUME NEW rows \in Seq(Row), NEW e, NEW f, ExtensionKept(e, rows), Sent(e, f, rows),
           f.active = e.active, f.pending = e.pending,
           NEW tab \in Tabs, NEW at, NEW shown, KnownKept(e, rows, tab, at, shown)
    PROVE  KnownKept(f, rows, tab, at, shown)
<1>1. ASSUME NEW id \in Open(rows, tab) PROVE Accounted(f, id, tab)
  <2>1. Accounted(e, id, tab)
    BY DEF KnownKept
  <2> QED
    BY <2>1, SentAccounts
<1> QED
  BY <1>1 DEF KnownKept

LEMMA SentIsLostKept ==
    ASSUME NEW rows, NEW e, NEW f, Sent(e, f, rows), NEW lost, LostKept(e, lost)
    PROVE  LostKept(f, lost)
BY VisitTypes DEF Sent, LostKept

LEMMA EndedIsLostKept ==
    ASSUME NEW rows, NEW e, NEW tabs, NEW f, VisitsEnded(e, f, rows, tabs), NEW lost, LostKept(e, lost)
    PROVE  LostKept(f, lost)
BY VisitTypes DEF VisitsEnded, LostKept

LEMMA StartIsLostKept ==
    ASSUME NEW rows, NEW e, ExtensionKept(e, rows), NEW tab \in Tabs, NEW page \in Metered,
           NEW nav \in Nat, NEW f, f = StartVisit(e, tab, page, nav), NEW lost, LostKept(e, lost)
    PROVE  LostKept(f, lost)
<1> DEFINE g == [e EXCEPT !.pending = [e.pending EXCEPT ![tab] = page]]
           call == Call("start", tab, page, None, nav)
<1>1. e \in ExtensionRecord /\ e.calls \in Seq(CallRecord) /\ Len(e.calls) \in Nat
  BY ExtensionFields DEF ExtensionKept
<1>2. f = e \/ f = Send(g, "start", tab, page, None, nav)
  BY DEF StartVisit
<1>3. g.calls = e.calls /\ g \in ExtensionRecord
  BY <1>1 DEF ExtensionRecord
<1> HIDE DEF g
<1>4. ASSUME f = Send(g, "start", tab, page, None, nav) PROVE LostKept(f, lost)
  <2>1. call \in CallRecord /\ call.answer = None
    BY StartCallFields
  <2> HIDE DEF call
  <2>2. f.calls = Append(e.calls, call)
    BY <1>3, <1>4 DEF Send, call, ExtensionRecord
  <2>3. /\ DOMAIN f.calls = 1..Len(e.calls) + 1
        /\ \A n \in 1..Len(e.calls) : f.calls[n] = e.calls[n]
        /\ f.calls[Len(e.calls) + 1] = call
    BY <1>1, <2>1, <2>2
  <2>4. ASSUME NEW n \in DOMAIN f.calls, f.calls[n].answer = Failed PROVE f.calls[n].tab \in lost
    <3>1. n # Len(e.calls) + 1
      BY <2>1, <2>3, <2>4, VisitTypes
    <3>2. n \in 1..Len(e.calls) /\ n \in DOMAIN e.calls
      BY <1>1, <2>3, <3>1
    <3> QED
      BY <2>3, <2>4, <3>2 DEF LostKept
  <2> QED
    BY <2>4 DEF LostKept
<1> QED
  BY <1>2, <1>4

\* revalidateOpenTabs
LEMMA RevalidatedIsKept ==
    ASSUME NEW rows \in Seq(Row), NEW e, ExtensionKept(e, rows),
           NEW active \in Tabs \cup {None}, NEW f, f = Revalidated(e, active),
           shows \in [Tabs -> Pages \cup {Blocked, None}]
    PROVE  /\ ExtensionKept(f, rows)
           /\ \A lost : LostKept(e, lost) => LostKept(f, lost)
           /\ \A tab \in Tabs : \A at, shown :
                 /\ AllAccounted(e, rows, tab)
                 /\ (shows[tab] \notin Pages \/ tab = active) => KnownKept(e, rows, tab, at, shown)
                 => KnownKept(f, rows, tab, at, shown)
<1> DEFINE T == {tab \in Tabs \ {active} : shows[tab] \in Pages}
           ended == EndVisits(e, T)
<1>1. VisitsEnded(e, ended, rows, T)
  BY EndVisitsEnds
<1>2. \/ f = ended
      \/ /\ active \in Tabs /\ shows[active] \in Pages
         /\ f = Send(ended, "evaluate", active, shows[active], None, 0)
  BY DEF Revalidated
<1> HIDE DEF ended
<1>3. ExtensionKept(ended, rows)
  BY <1>1 DEF VisitsEnded
<1>4. ASSUME NEW tab \in Tabs, NEW at, NEW shown, AllAccounted(e, rows, tab),
             (shows[tab] \notin Pages \/ tab = active) => KnownKept(e, rows, tab, at, shown)
      PROVE  KnownKept(ended, rows, tab, at, shown)
  <2>1. tab \notin T => KnownKept(e, rows, tab, at, shown)
    BY <1>4
  <2> HIDE DEF T
  <2> QED
    BY <1>1, <1>4, <2>1, EndedIsKnown
<1>7. \A lost : LostKept(e, lost) => LostKept(ended, lost)
  BY <1>1, EndedIsLostKept
<1>5. CASE f = ended
  BY <1>3, <1>4, <1>5, <1>7
<1>6. CASE active \in Tabs /\ shows[active] \in Pages
           /\ f = Send(ended, "evaluate", active, shows[active], None, 0)
  <2> DEFINE call == Call("evaluate", active, shows[active], None, 0)
  <2>1. call \in CallRecord /\ call.answer = None /\ CallKept(call, rows)
    BY <1>6, EvaluateCallFields
  <2>2. f = [ended EXCEPT !.calls = Append(ended.calls, call)]
    BY <1>6 DEF Send
  <2> HIDE DEF call
  <2>4. Sent(ended, f, rows) /\ f.active = ended.active /\ f.pending = ended.pending
    BY <1>3, <2>1, <2>2, SendIsSent
  <2>5. ExtensionKept(f, rows)
    BY <1>3, <2>4, SentIsKept
  <2>6. ASSUME NEW tab \in Tabs, NEW at, NEW shown, KnownKept(ended, rows, tab, at, shown)
        PROVE  KnownKept(f, rows, tab, at, shown)
    BY <1>3, <2>4, <2>6, SentIsKnown
  <2>7. \A lost : LostKept(ended, lost) => LostKept(f, lost)
    BY <2>4, SentIsLostKept
  <2> QED
    BY <1>4, <1>7, <2>5, <2>6, <2>7
<1> QED
  BY <1>2, <1>5, <1>6

-------------------------------------------------------------------------------
(* What the user and the timers do keeps it.                                 *)

\* A step that leaves the rows alone keeps the invariant if the extension stays true to
\* them, and the visits of the tabs that were never lost are those in front.
LEMMA RowsUntouched ==
    ASSUME VisitsKept, SurroundingsKept', UNCHANGED <<clock, visits, watched>>,
           unknown \subseteq unknown', ExtensionKept(extension', visits),
           LostKept(extension, unknown') => LostKept(extension', unknown'),
           \A tab \in Tabs \ unknown' :
              KnownKept(extension, visits, tab, front, shows[tab]) =>
                  KnownKept(extension', visits, tab, front', shows'[tab])
    PROVE  VisitsKept'
<1>1. RowsKept(visits, clock)' /\ ExtensionKept(extension, visits)'
  BY DEF VisitsKept
<1>2. ASSUME NEW tab \in Tabs \ unknown'
      PROVE  /\ KnownKept(extension', visits', tab, front', shows'[tab])
             /\ Total(Lasted(visits', tab, clock')) <= watched'[tab]
  BY <1>2 DEF VisitsKept
<1>3. LostKept(extension', unknown')
  BY DEF VisitsKept, LostKept
<1> QED
  BY <1>1, <1>2, <1>3 DEF VisitsKept

LEMMA KnownIsAccounted ==
    ASSUME NEW rows, NEW e, NEW tab, NEW at, NEW shown, KnownKept(e, rows, tab, at, shown)
    PROVE  AllAccounted(e, rows, tab)
BY DEF KnownKept, AllAccounted

LEMMA VisitsFacts ==
    ASSUME VisitsKept
    PROVE  /\ visits \in Seq(Row) /\ extension \in ExtensionRecord
           /\ ExtensionKept(extension, visits)
           /\ shows \in [Tabs -> Pages \cup {Blocked, None}] /\ front \in Tabs \cup {None}
           /\ extension.active \in [Tabs -> [visit : Nat, page : Metered] \cup {None}]
           /\ extension.pending \in [Tabs -> Metered \cup {None}]
           /\ extension.token \in [Tabs -> Nat]
BY ExtensionFields DEF VisitsKept, RowsKept, ExtensionKept, SurroundingsKept

LEMMA NewToken ==
    ASSUME NEW tab \in Tabs, NEW token \in Nat, VisitsKept, NEW e,
           e = [extension EXCEPT !.token[tab] = token]
    PROVE  /\ e \in ExtensionRecord /\ e.active = extension.active
           /\ e.calls = extension.calls /\ e.pending = extension.pending
           /\ e.token[tab] = token /\ ExtensionKept(e, visits)
           /\ \A other \in Tabs : AllAccounted(extension, visits, other) =>
                 AllAccounted(e, visits, other)
<1>1. extension \in ExtensionRecord /\ extension.token \in [Tabs -> Nat]
  BY VisitsFacts
<1>2. e = [extension EXCEPT !.token = [extension.token EXCEPT ![tab] = token]]
  OBVIOUS
<1>3. /\ e \in ExtensionRecord /\ e.active = extension.active
      /\ e.calls = extension.calls /\ e.pending = extension.pending
      /\ e.token = [extension.token EXCEPT ![tab] = token]
  BY <1>1, <1>2 DEF ExtensionRecord
<1>4. e.token[tab] = token
  BY <1>1, <1>3
<1>5. /\ ExtensionKept(e, visits)
      /\ \A other \in Tabs : \A id \in Nat : Accounted(extension, id, other) => Accounted(e, id, other)
  <2>1. ExtensionKept(extension, visits)
    BY VisitsFacts
  <2>2. e \in ExtensionRecord /\ e.active = extension.active /\ e.calls = extension.calls
    BY <1>3
  <2> QED
    BY <2>1, <2>2, SameCallsAreKept, Zenon
<1>6. \A other : Open(visits, other) \subseteq Nat
  BY VisitsFacts, OpenType
<1> QED
  BY <1>3, <1>4, <1>5, <1>6 DEF AllAccounted

LEMMA NavigateKeepsVisits ==
    ASSUME VisitsKept, NEW tab \in Tabs, NEW page \in Pages, Navigate(tab, page)
    PROVE  VisitsKept'
<1> DEFINE next == [extension EXCEPT !.token[tab] = extension.token[tab] + 1]
           ended == EndVisit(next, tab)
           call == Call("evaluate", tab, page, None, next.token[tab])
<1>1. /\ extension' = Send(ended, "evaluate", tab, page, None, next.token[tab])
      /\ shows' = [shows EXCEPT ![tab] = page]
      /\ UNCHANGED <<clock, front, visits, watched, unknown>> /\ Moves
  BY DEF Navigate
<1>2. extension' = [ended EXCEPT !.calls = Append(ended.calls, call)]
  BY <1>1 DEF Send
<1>3. ended = EndVisits(next, {tab}) /\ extension.token[tab] + 1 \in Nat
  BY VisitsFacts DEF EndVisit
<1>4. next = [extension EXCEPT !.token[tab] = extension.token[tab] + 1]
  OBVIOUS
<1> HIDE DEF next, ended
<1>5. /\ ExtensionKept(next, visits) /\ next.active = extension.active
      /\ next.calls = extension.calls
      /\ next.pending = extension.pending /\ next.token[tab] \in Nat
      /\ \A other \in Tabs : AllAccounted(extension, visits, other) =>
            AllAccounted(next, visits, other)
  BY <1>3, <1>4, NewToken
<1>6. VisitsEnded(next, ended, visits, {tab})
  BY <1>3, <1>5, EndVisitsEnds
<1>7. call \in CallRecord /\ call.answer = None /\ CallKept(call, visits)
  BY <1>5, EvaluateCallFields
<1> HIDE DEF call
<1>8. ExtensionKept(ended, visits)
  BY <1>6 DEF VisitsEnded
<1>9. Sent(ended, extension', visits) /\ extension'.active = ended.active
      /\ extension'.pending = ended.pending
  BY <1>2, <1>7, <1>8, SendIsSent
<1>10. ExtensionKept(extension', visits)
  BY <1>8, <1>9, SentIsKept
<1>11. ASSUME NEW other \in Tabs \ unknown',
              KnownKept(extension, visits, other, front, shows[other])
       PROVE  KnownKept(extension', visits, other, front', shows'[other])
  <2>1. AllAccounted(next, visits, other)
    BY <1>5, <1>11, KnownIsAccounted
  <2>2. other \notin {tab} => KnownKept(next, visits, other, front', shows'[other])
    <3> SUFFICES ASSUME other # tab PROVE KnownKept(next, visits, other, front', shows'[other])
      OBVIOUS
    <3>1. shows'[other] = shows[other] /\ front' = front
      BY <1>1, VisitsFacts
    <3> QED
      BY <1>5, <1>11, <2>1, <3>1 DEF KnownKept, AllAccounted
  <2>3. KnownKept(ended, visits, other, front', shows'[other])
    BY <1>6, <2>1, <2>2, EndedIsKnown, VisitsFacts
  <2> QED
    BY <1>8, <1>9, <2>3, SentIsKnown, VisitsFacts
<1>12. SurroundingsKept'
  BY <1>1, VisitsAssumption DEF Moves, VisitsKept, SurroundingsKept
<1>13. LostKept(extension, unknown') => LostKept(extension', unknown')
  <2>1. LostKept(extension, unknown') => LostKept(next, unknown')
    BY <1>5 DEF LostKept
  <2> QED
    BY <1>6, <1>9, <2>1, EndedIsLostKept, SentIsLostKept
<1> QED
  BY <1>1, <1>10, <1>11, <1>12, <1>13, RowsUntouched

LEMMA NavigateUnhealthyKeepsVisits ==
    ASSUME VisitsKept, NEW tab \in Tabs, NavigateUnhealthy(tab)
    PROVE  VisitsKept'
<1>1. /\ extension' = [extension EXCEPT !.token[tab] = extension.token[tab] + 1, !.active[tab] = None]
      /\ shows' = [shows EXCEPT ![tab] = Blocked] /\ unknown' = unknown \cup {tab}
      /\ UNCHANGED <<clock, front, visits, watched>> /\ Fault
  BY DEF NavigateUnhealthy
<1> DEFINE active == [extension.active EXCEPT ![tab] = None]
           token == [extension.token EXCEPT ![tab] = extension.token[tab] + 1]
<1>2. extension' = [extension EXCEPT !.token = token, !.active = active]
  BY <1>1
<1>3. active \in [Tabs -> [visit : Nat, page : Metered] \cup {None}] /\ token \in [Tabs -> Nat]
  BY VisitsFacts
<1>4. active[tab] = None /\ \A other \in Tabs \ {tab} : active[other] = extension.active[other]
  BY VisitsFacts
<1> HIDE DEF active, token
<1>5. extension' \in ExtensionRecord /\ extension'.active = active
      /\ extension'.calls = extension.calls /\ extension'.pending = extension.pending
  BY <1>2, <1>3, VisitsFacts DEF ExtensionRecord
<1>6. Sent(extension, extension', visits)
  <2>1. Len(extension.calls) \in Nat
    BY VisitsFacts, ExtensionFields
  <2> QED
    BY <1>4, <1>5, <2>1 DEF Sent
<1>7. ExtensionKept(extension', visits)
  BY <1>6, VisitsFacts, SentIsKept
<1>8. ASSUME NEW other \in Tabs \ unknown',
              KnownKept(extension, visits, other, front, shows[other])
       PROVE  KnownKept(extension', visits, other, front', shows'[other])
  <2>1. other # tab /\ front' = front /\ shows'[other] = shows[other]
    BY <1>1, <1>8, VisitsFacts
  <2>2. extension'.active[other] = extension.active[other]
    BY <1>4, <1>5, <1>8, <2>1
  <2>3. \A id \in Open(visits, other) : Accounted(extension', id, other)
    BY <1>6, <1>8, <2>2, SentAccounts, VisitsFacts DEF KnownKept
  <2> QED
    BY <1>5, <1>8, <2>1, <2>2, <2>3 DEF KnownKept
<1>9. SurroundingsKept'
  BY <1>1, VisitsAssumption DEF Fault, VisitsKept, SurroundingsKept
<1>10. LostKept(extension, unknown') => LostKept(extension', unknown')
  BY <1>6, SentIsLostKept
<1> QED
  BY <1>1, <1>7, <1>8, <1>9, <1>10, RowsUntouched

LEMMA CloseTabKeepsVisits ==
    ASSUME VisitsKept, NEW tab \in Tabs, CloseTab(tab)
    PROVE  VisitsKept'
<1> DEFINE next == [extension EXCEPT !.token[tab] = 0]
<1>1. /\ extension' = EndVisits(next, {tab}) /\ shows' = [shows EXCEPT ![tab] = None]
      /\ front' = IF front = tab THEN None ELSE front
      /\ UNCHANGED <<clock, visits, watched, unknown>> /\ Moves
  BY DEF CloseTab, EndVisit
<1>2. next = [extension EXCEPT !.token[tab] = 0]
  OBVIOUS
<1> HIDE DEF next
<1>3. /\ ExtensionKept(next, visits) /\ next.active = extension.active
      /\ next.calls = extension.calls
      /\ next.pending = extension.pending
      /\ \A other \in Tabs : AllAccounted(extension, visits, other) =>
            AllAccounted(next, visits, other)
  BY <1>2, NewToken
<1>4. VisitsEnded(next, extension', visits, {tab})
  BY <1>1, <1>3, EndVisitsEnds
<1>5. ExtensionKept(extension', visits)
  BY <1>4 DEF VisitsEnded
<1>6. ASSUME NEW other \in Tabs \ unknown',
              KnownKept(extension, visits, other, front, shows[other])
       PROVE  KnownKept(extension', visits, other, front', shows'[other])
  <2>1. AllAccounted(next, visits, other)
    BY <1>3, <1>6, KnownIsAccounted
  <2>2. other \notin {tab} => KnownKept(next, visits, other, front', shows'[other])
    <3> SUFFICES ASSUME other # tab PROVE KnownKept(next, visits, other, front', shows'[other])
      OBVIOUS
    <3>1. shows'[other] = shows[other]
      BY <1>1, VisitsFacts
    <3>2. front = other => front' = other
      BY <1>1
    <3> QED
      BY <1>3, <1>6, <2>1, <3>1, <3>2 DEF KnownKept, AllAccounted
  <2> QED
    BY <1>4, <2>1, <2>2, EndedIsKnown, VisitsFacts
<1>7. SurroundingsKept'
  BY <1>1, VisitsAssumption DEF Moves, VisitsKept, SurroundingsKept
<1>8. LostKept(extension, unknown') => LostKept(extension', unknown')
  <2>1. LostKept(extension, unknown') => LostKept(next, unknown')
    BY <1>3 DEF LostKept
  <2> QED
    BY <1>4, <2>1, EndedIsLostKept
<1> QED
  BY <1>1, <1>5, <1>6, <1>7, <1>8, RowsUntouched

LEMMA ActivateKeepsVisits ==
    ASSUME VisitsKept, NEW tab \in Tabs, Activate(tab)
    PROVE  VisitsKept'
<1> DEFINE left == Visited(extension) \ {tab}
           ended == EndVisits(extension, left)
<1>1. /\ extension' = Revalidated(ended, tab) /\ front' = tab /\ front # tab
      /\ UNCHANGED <<clock, shows, visits, watched, unknown>> /\ Moves
  BY DEF Activate
<1>2. VisitsEnded(extension, ended, visits, left)
  BY VisitsFacts, EndVisitsEnds
<1> HIDE DEF ended
<1>3. ExtensionKept(ended, visits)
  BY <1>2 DEF VisitsEnded
<1>4. /\ ExtensionKept(extension', visits)
      /\ \A lost : LostKept(ended, lost) => LostKept(extension', lost)
      /\ \A other \in Tabs : \A at, shown :
            /\ AllAccounted(ended, visits, other)
            /\ (shows[other] \notin Pages \/ other = tab) =>
                  KnownKept(ended, visits, other, at, shown)
            => KnownKept(extension', visits, other, at, shown)
  BY <1>1, <1>3, VisitsFacts, RevalidatedIsKept
<1>5. ASSUME NEW other \in Tabs \ unknown',
              KnownKept(extension, visits, other, front, shows[other])
       PROVE  KnownKept(extension', visits, other, front', shows'[other])
  <2>1. AllAccounted(ended, visits, other)
    <3>1. AllAccounted(extension, visits, other) /\ Open(visits, other) \subseteq Nat
      BY <1>5, KnownIsAccounted, VisitsFacts, OpenType
    <3> QED
      BY <1>2, <3>1 DEF AllAccounted, VisitsEnded
  <2>2. /\ ended.active[other] = IF other \in left THEN None ELSE extension.active[other]
        /\ ended.pending[other] = IF other \in left THEN None ELSE extension.pending[other]
    BY <1>2 DEF VisitsEnded
  <2>3. CASE other = tab
    <3>1. extension.active[other] = None /\ extension.pending[other] = None
      BY <1>1, <1>5, <2>3 DEF KnownKept
    <3>2. ended.active[other] = None /\ ended.pending[other] = None
      BY <2>2, <3>1
    <3>3. KnownKept(ended, visits, other, front', shows'[other])
      BY <2>1, <3>2 DEF KnownKept, AllAccounted
    <3> QED
      BY <1>4, <2>1, <3>3
  <2>4. CASE other # tab
    <3>1. ended.active[other] = None
      BY <2>2, <2>4 DEF Visited
    <3>2. ASSUME shows[other] \notin Pages
          PROVE  ended.pending[other] = None
      <4>1. extension.pending[other] \in Metered \cup {None}
        BY VisitsFacts
      <4>2. extension.pending[other] # None => extension.pending[other] = shows[other]
        BY <1>5 DEF KnownKept
      <4>3. extension.pending[other] = None
        BY <3>2, <4>1, <4>2, VisitTypes
      <4> QED
        BY <2>2, <4>3
    <3>3. shows[other] \notin Pages => KnownKept(ended, visits, other, front', shows'[other])
      BY <2>1, <3>1, <3>2 DEF KnownKept, AllAccounted
    <3> QED
      BY <1>4, <2>1, <2>4, <3>3
  <2> QED
    BY <2>3, <2>4
<1>6. SurroundingsKept'
  BY <1>1, VisitsAssumption DEF Moves, VisitsKept, SurroundingsKept
<1>7. LostKept(extension, unknown') => LostKept(extension', unknown')
  BY <1>2, <1>4, EndedIsLostKept
<1> QED
  BY <1>1, <1>4, <1>5, <1>6, <1>7, RowsUntouched

LEMMA RevalidateKeepsVisits ==
    ASSUME VisitsKept, Revalidate
    PROVE  VisitsKept'
<1>1. /\ extension' = Revalidated(extension, front)
      /\ UNCHANGED <<clock, shows, front, visits, budget, watched, unknown>>
  BY DEF Revalidate
<1>2. /\ ExtensionKept(extension', visits)
      /\ \A lost : LostKept(extension, lost) => LostKept(extension', lost)
      /\ \A tab \in Tabs : \A at, shown :
            /\ AllAccounted(extension, visits, tab)
            /\ (shows[tab] \notin Pages \/ tab = front) =>
                  KnownKept(extension, visits, tab, at, shown)
            => KnownKept(extension', visits, tab, at, shown)
  BY <1>1, VisitsFacts, RevalidatedIsKept
<1>3. ASSUME NEW tab \in Tabs \ unknown', KnownKept(extension, visits, tab, front, shows[tab])
      PROVE  KnownKept(extension', visits, tab, front', shows'[tab])
  BY <1>1, <1>2, <1>3, KnownIsAccounted
<1>4. SurroundingsKept'
  BY <1>1 DEF VisitsKept, SurroundingsKept
<1> QED
  BY <1>1, <1>2, <1>3, <1>4, RowsUntouched

LEMMA HeartbeatKeepsVisits ==
    ASSUME VisitsKept, Heartbeat
    PROVE  VisitsKept'
<1> DEFINE left == Visited(extension) \ {front}
           ended == EndVisits(extension, left)
           id == extension.active[front].visit
           call == Call("beat", front, None, id, 0)
<1>1. /\ UNCHANGED <<clock, shows, front, visits, budget, watched, unknown>>
      /\ extension' = IF front \in Tabs /\ extension.active[front] # None
                      THEN Send(ended, "beat", front, None, id, 0) ELSE ended
  BY DEF Heartbeat
<1>2. VisitsEnded(extension, ended, visits, left)
  BY VisitsFacts, EndVisitsEnds
<1> HIDE DEF ended
<1>3. ExtensionKept(ended, visits)
  BY <1>2 DEF VisitsEnded
<1>4. ASSUME NEW tab \in Tabs \ unknown, KnownKept(extension, visits, tab, front, shows[tab])
      PROVE  KnownKept(ended, visits, tab, front, shows[tab])
  BY <1>2, <1>4, KnownIsAccounted, EndedIsKnown, VisitsFacts
<1>5. SurroundingsKept'
  BY <1>1 DEF VisitsKept, SurroundingsKept
<1>8. LostKept(extension, unknown) => LostKept(ended, unknown)
  BY <1>2, EndedIsLostKept
<1>6. CASE extension' = ended
  BY <1>1, <1>3, <1>4, <1>5, <1>6, <1>8, RowsUntouched
<1>7. CASE /\ front \in Tabs /\ extension.active[front] # None
           /\ extension' = Send(ended, "beat", front, None, id, 0)
  <2>1. ActiveKept(extension, visits, front)
    BY <1>7, VisitsFacts DEF ExtensionKept
  <2>2. id \in Nat /\ id \in DOMAIN visits /\ visits[id].tab = front
    BY <1>7, <2>1, VisitsFacts DEF ActiveKept, RowOf
  <2>3. call \in CallRecord /\ call.answer = None /\ CallKept(call, visits)
    BY <1>7, <2>2, BeatCallFields
  <2>4. extension' = [ended EXCEPT !.calls = Append(ended.calls, call)]
    BY <1>7 DEF Send
  <2> HIDE DEF call, id
  <2>5. Sent(ended, extension', visits) /\ extension'.active = ended.active
        /\ extension'.pending = ended.pending
    BY <1>3, <2>3, <2>4, SendIsSent
  <2>6. ExtensionKept(extension', visits)
    BY <1>3, <2>5, SentIsKept
  <2>7. ASSUME NEW tab \in Tabs \ unknown', KnownKept(extension, visits, tab, front, shows[tab])
        PROVE  KnownKept(extension', visits, tab, front', shows'[tab])
    <3>1. KnownKept(ended, visits, tab, front, shows[tab])
      BY <1>1, <1>4, <2>7
    <3>2. KnownKept(extension', visits, tab, front, shows[tab])
      BY <1>3, <2>5, <3>1, SentIsKnown, VisitsFacts
    <3> QED
      BY <1>1, <3>2
  <2>8. LostKept(ended, unknown) => LostKept(extension', unknown)
    BY <2>5, SentIsLostKept
  <2> QED
    BY <1>1, <1>5, <1>8, <2>6, <2>7, <2>8, RowsUntouched
<1> QED
  BY <1>1, <1>6, <1>7

LEMMA RestartKeepsVisits ==
    ASSUME VisitsKept, NEW browser \in BOOLEAN, Restart(browser)
    PROVE  VisitsKept'
<1>1. /\ extension' = [active |-> Always(None), pending |-> Always(None), token |-> Always(0),
                       calls |-> <<>>]
      /\ shows' = (IF browser THEN Always(Plain) ELSE shows) /\ unknown' = Tabs
      /\ UNCHANGED <<clock, front, visits, watched>> /\ Fault
  BY DEF Restart
<1>2. ExtensionKept(extension', visits)
  <2>1. /\ extension'.active = Always(None) /\ extension'.calls = <<>>
        /\ extension' \in ExtensionRecord
    BY <1>1 DEF ExtensionRecord, Always
  <2> QED
    BY <2>1 DEF ExtensionKept, ActiveKept, QueueKept, Always
<1>3. SurroundingsKept'
  <2>1. shows' \in [Tabs -> Pages \cup {Blocked, None}]
    BY <1>1, VisitsFacts DEF Always, Pages
  <2>2. budget' \in [moves : 0..MaxMoves, faults : 0..MaxFaults]
    BY <1>1, VisitsAssumption DEF Fault, VisitsKept, SurroundingsKept
  <2> QED
    BY <1>1, <2>1, <2>2 DEF VisitsKept, SurroundingsKept
<1>4. unknown \subseteq Tabs
  BY DEF VisitsKept, SurroundingsKept
<1>5. LostKept(extension', unknown')
  BY <1>1 DEF LostKept
<1> QED
  BY <1>1, <1>2, <1>3, <1>4, <1>5, RowsUntouched

-------------------------------------------------------------------------------
(* What the rows can be charged.                                             *)

LEMMA LastedType ==
    ASSUME NEW now \in Nat, NEW rows, RowsKept(rows, now), NEW tab
    PROVE  /\ Lasted(rows, tab, now) \in Seq(Int)
           /\ Len(Lasted(rows, tab, now)) = Len(rows)
           /\ \A id \in 1..Len(rows) :
                 Lasted(rows, tab, now)[id] =
                    IF rows[id].tab = tab
                    THEN (IF rows[id].end = None THEN now ELSE rows[id].end) - rows[id].start
                    ELSE 0
<1>1. rows \in Seq(Row) /\ Len(rows) \in Nat /\ DOMAIN rows = 1..Len(rows)
  BY DEF RowsKept
<1>2. ASSUME NEW id \in 1..Len(rows)
      PROVE  rows[id].start \in Nat /\ (rows[id].end # None => rows[id].end \in Nat)
  <2>1. rows[id] \in Row
    BY <1>1
  <2> QED
    BY <2>1 DEF Row
<1> DEFINE amount(id) == IF rows[id].tab = tab
                         THEN (IF rows[id].end = None THEN now ELSE rows[id].end) - rows[id].start
                         ELSE 0
<1>3. \A id \in 1..Len(rows) : amount(id) \in Int
  BY <1>2
<1>4. Lasted(rows, tab, now) = [id \in 1..Len(rows) |-> amount(id)]
  BY <1>1 DEF Lasted
<1> HIDE DEF amount
<1>5. [id \in 1..Len(rows) |-> amount(id)] \in [1..Len(rows) -> Int]
  BY <1>3
<1>6. Lasted(rows, tab, now) \in Seq(Int) /\ Len(Lasted(rows, tab, now)) = Len(rows)
  BY <1>1, <1>4, <1>5
<1>7. \A id \in 1..Len(rows) : Lasted(rows, tab, now)[id] = amount(id)
  BY <1>4
<1> QED
  BY <1>6, <1>7 DEF amount

LEMMA TickKeepsVisits == ASSUME VisitsKept, VisitTick PROVE VisitsKept'
<1>1. /\ clock < MaxClock /\ extension.calls = <<>> /\ clock' = clock + 1
      /\ watched' = [tab \in Tabs |-> IF tab = front /\ shows[tab] \in Metered
                                      THEN watched[tab] + 1 ELSE watched[tab]]
      /\ UNCHANGED <<shows, front, extension, visits, budget, unknown>>
  BY DEF VisitTick
<1>2. clock \in Nat /\ MaxClock \in Nat /\ clock' \in Nat /\ clock' \in 0..MaxClock
      /\ watched \in [Tabs -> 0..clock]
  BY <1>1, VisitsAssumption DEF VisitsKept, SurroundingsKept
<1>3. SurroundingsKept'
  <2>1. watched' \in [Tabs -> 0..clock']
    <3>1. ASSUME NEW tab \in Tabs PROVE watched'[tab] \in 0..clock'
      <4>1. watched[tab] \in 0..clock
        BY <1>2
      <4>2. watched'[tab] = IF tab = front /\ shows[tab] \in Metered
                            THEN watched[tab] + 1 ELSE watched[tab]
        BY <1>1
      <4> QED
        BY <1>1, <1>2, <4>1, <4>2
    <3>2. watched' = [tab \in Tabs |-> watched'[tab]]
      BY <1>1
    <3> QED
      BY <3>1, <3>2
  <2> QED
    BY <1>1, <1>2, <2>1 DEF VisitsKept, SurroundingsKept
<1>4. RowsKept(visits, clock')
  <2>1. RowsKept(visits, clock) /\ visits \in Seq(Row)
    BY DEF VisitsKept, RowsKept
  <2>2. ASSUME NEW id \in DOMAIN visits PROVE Timely(visits[id], clock')
    <3>1. Timely(visits[id], clock) /\ visits[id] \in Row
      BY <2>1 DEF RowsKept
    <3> QED
      BY <1>1, <1>2, <3>1 DEF Timely, Row
  <2> QED
    BY <2>1, <2>2 DEF RowsKept
<1>5. ASSUME NEW tab \in Tabs \ unknown
      PROVE  /\ KnownKept(extension, visits, tab, front, shows[tab])
             /\ Total(Lasted(visits, tab, clock')) <= watched'[tab]
  <2>1. /\ KnownKept(extension, visits, tab, front, shows[tab])
        /\ Total(Lasted(visits, tab, clock)) <= watched[tab] /\ RowsKept(visits, clock)
    BY <1>5 DEF VisitsKept
  <2> DEFINE w == Lasted(visits, tab, clock)
             v == Lasted(visits, tab, clock')
             size == Len(visits)
  <2>2. /\ w \in Seq(Int) /\ Len(w) = size
        /\ \A id \in 1..size : w[id] =
              IF visits[id].tab = tab
              THEN (IF visits[id].end = None THEN clock ELSE visits[id].end) - visits[id].start
              ELSE 0
    BY <1>2, <2>1, LastedType
  <2>3. /\ v \in Seq(Int) /\ Len(v) = size
        /\ \A id \in 1..size : v[id] =
              IF visits[id].tab = tab
              THEN (IF visits[id].end = None THEN clock' ELSE visits[id].end) - visits[id].start
              ELSE 0
    BY <1>2, <1>4, LastedType
  <2> HIDE DEF w, v
  <2>4. /\ Total(w) \in Int /\ Total(v) \in Int /\ Total(w) <= watched[tab]
        /\ watched[tab] \in Int
    BY <1>2, <2>1, <2>2, <2>3, TotalType DEF w
  <2>5. /\ size \in Nat /\ DOMAIN visits = 1..size
        /\ \A id \in 1..size : visits[id].start \in Nat
    <3>1. size \in Nat /\ DOMAIN visits = 1..size /\ \A id \in 1..size : visits[id] \in Row
      BY VisitsFacts
    <3> QED
      BY <3>1 DEF Row
  <2>6. CASE \E id \in Open(visits, tab) : TRUE
    <3>1. PICK id \in Open(visits, tab) : TRUE
      BY <2>6
    <3>2. ASSUME NEW other \in Open(visits, tab)
          PROVE  extension.active[tab] # None /\ extension.active[tab].visit = other
      BY <1>1, <2>1 DEF KnownKept, Accounted
    <3>3. \A other \in Open(visits, tab) : other = id
      BY <3>1, <3>2
    <3>4. front = tab /\ shows[tab] \in Metered
      <4>1. extension.active[tab] # None
        BY <3>1, <3>2
      <4>2. extension.active[tab].page \in Metered
        BY <1>5, <4>1, VisitsFacts
      <4> QED
        BY <2>1, <4>1, <4>2 DEF KnownKept
    <3>5. id \in 1..size /\ visits[id].tab = tab /\ visits[id].end = None
      BY <2>5, <3>1 DEF Open
    <3>6. \A n \in 1..size : n # id => ~(visits[n].tab = tab /\ visits[n].end = None)
      BY <2>5, <3>3 DEF Open
    <3>7. ASSUME NEW n \in 1..size PROVE v[n] = IF n = id THEN w[n] + 1 ELSE w[n]
      <4>1. CASE n = id
        <5>1. w[id] = clock - visits[id].start /\ v[id] = clock' - visits[id].start
          BY <2>2, <2>3, <3>5
        <5>2. visits[id].start \in Nat
          BY <2>5, <3>5
        <5> DEFINE start == visits[id].start
        <5>3. clock' = clock + 1 /\ clock \in Nat /\ start \in Nat
          BY <1>1, <1>2, <5>2
        <5>4. w[id] = clock - start /\ v[id] = clock' - start
          BY <5>1
        <5> HIDE DEF start
        <5>5. v[id] = w[id] + 1
          BY <5>3, <5>4
        <5> QED
          BY <4>1, <5>5
      <4>2. CASE n # id
        BY <2>2, <2>3, <3>6, <4>2
      <4> QED
        BY <4>1, <4>2
    <3>8. Total(v) = Total(w) + 1
      BY <2>2, <2>3, <3>5, <3>7, TotalOfOneMore
    <3>9. watched'[tab] = watched[tab] + 1
      BY <1>1, <1>5, <3>4
    <3> QED
      BY <2>1, <2>4, <3>8, <3>9 DEF v
  <2>7. CASE ~ \E id \in Open(visits, tab) : TRUE
    <3>1. \A n \in 1..size : ~(visits[n].tab = tab /\ visits[n].end = None)
      BY <2>5, <2>7 DEF Open
    <3>2. \A n \in 1..size : v[n] <= w[n]
      <4> SUFFICES ASSUME NEW n \in 1..size PROVE v[n] <= w[n]
        OBVIOUS
      <4>1. v[n] = w[n]
        BY <2>2, <2>3, <3>1
      <4>2. w[n] \in Int
        BY <2>2
      <4> QED
        BY <4>1, <4>2
    <3>3. Total(v) <= Total(w)
      BY <2>2, <2>3, <3>2, TotalIsMonotone
    <3>4. watched'[tab] >= watched[tab]
      BY <1>1, <1>5, <2>4
    <3>5. watched'[tab] \in Int
      BY <1>3, <1>5, <1>2 DEF SurroundingsKept
    <3> QED
      BY <2>1, <2>4, <3>3, <3>4, <3>5 DEF v
  <2> QED
    BY <2>6, <2>7
<1>6. LostKept(extension, unknown)
  BY DEF VisitsKept
<1> QED
  BY <1>1, <1>3, <1>4, <1>5, <1>6 DEF VisitsKept

-------------------------------------------------------------------------------
(* What the daemon does to the rows.                                         *)

LEMMA RowFields ==
    ASSUME NEW row \in Row, NEW now \in Nat
    PROVE  /\ row.tab \in Tabs /\ row.page \in Metered /\ row.start \in Nat /\ row.seen \in Nat
           /\ row.end \in Nat \cup {None}
           /\ [row EXCEPT !.end = now, !.seen = now] \in Row
           /\ [row EXCEPT !.end = now, !.seen = now].tab = row.tab
           /\ [row EXCEPT !.end = now, !.seen = now].page = row.page
           /\ [row EXCEPT !.end = now, !.seen = now].start = row.start
           /\ [row EXCEPT !.end = now, !.seen = now].seen = now
           /\ [row EXCEPT !.end = now, !.seen = now].end = now
           /\ [row EXCEPT !.seen = now] \in Row
           /\ [row EXCEPT !.seen = now].tab = row.tab
           /\ [row EXCEPT !.seen = now].page = row.page
           /\ [row EXCEPT !.seen = now].start = row.start
           /\ [row EXCEPT !.seen = now].seen = now
           /\ [row EXCEPT !.seen = now].end = row.end
           /\ [row EXCEPT !.told = now] \in Row
           /\ [row EXCEPT !.told = now].tab = row.tab
           /\ [row EXCEPT !.told = now].page = row.page
           /\ [row EXCEPT !.told = now].start = row.start
           /\ [row EXCEPT !.told = now].seen = row.seen
           /\ [row EXCEPT !.told = now].end = row.end
BY DEF Row

\* A row is the same visit, and if it is closed it is closed now.
SameVisit(row, next, now) ==
    /\ next \in Row /\ next.tab = row.tab /\ next.page = row.page /\ next.start = row.start
    /\ next.seen \in {row.seen, now}
    /\ \/ next.end = row.end
       \/ row.end = None /\ next.end = now /\ next.seen = now

LEMMA RowChanges ==
    ASSUME NEW row \in Row, NEW now \in Nat
    PROVE  /\ SameVisit(row, row, now)
           /\ SameVisit(row, [row EXCEPT !.seen = now], now)
           /\ SameVisit(row, [row EXCEPT !.told = now], now)
           /\ row.end = None => SameVisit(row, [row EXCEPT !.end = now, !.seen = now], now)
           /\ [row EXCEPT !.end = now, !.seen = now].end # None
<1>1. now # None
  BY VisitTypes
<1>2. SameVisit(row, row, now)
  BY DEF SameVisit
<1>3. SameVisit(row, [row EXCEPT !.seen = now], now)
  BY RowFields DEF SameVisit
<1>4. SameVisit(row, [row EXCEPT !.told = now], now)
  BY RowFields DEF SameVisit
<1>5. ASSUME row.end = None PROVE SameVisit(row, [row EXCEPT !.end = now, !.seen = now], now)
  <2> DEFINE next == [row EXCEPT !.end = now, !.seen = now]
  <2>1. /\ next \in Row /\ next.tab = row.tab /\ next.page = row.page /\ next.start = row.start
        /\ next.seen = now /\ next.end = now
    BY DEF Row
  <2> HIDE DEF next
  <2>2. SameVisit(row, next, now)
    BY <1>5, <2>1 DEF SameVisit
  <2> QED
    BY <2>2 DEF next
<1>6. [row EXCEPT !.end = now, !.seen = now].end # None
  BY <1>1, RowFields
<1> QED
  BY <1>2, <1>3, <1>4, <1>5, <1>6

SameVisits(rows, next, now) ==
    /\ next \in Seq(Row) /\ Len(next) = Len(rows)
    /\ \A id \in 1..Len(rows) : SameVisit(rows[id], next[id], now)

LEMMA SameVisitsAreKept ==
    ASSUME NEW now \in Nat, NEW rows, RowsKept(rows, now), NEW next, SameVisits(rows, next, now)
    PROVE  /\ RowsKept(next, now)
           /\ \A tab : Total(Lasted(next, tab, now)) = Total(Lasted(rows, tab, now))
           /\ \A tab : Open(next, tab) \subseteq Open(rows, tab)
<1>1. /\ rows \in Seq(Row) /\ Len(rows) \in Nat /\ DOMAIN rows = 1..Len(rows)
      /\ next \in Seq(Row) /\ Len(next) = Len(rows) /\ DOMAIN next = 1..Len(rows)
  BY DEF RowsKept, SameVisits
<1>2. \A id \in 1..Len(rows) : SameVisit(rows[id], next[id], now)
  BY DEF SameVisits
<1>3. \A id \in 1..Len(rows) : rows[id] \in Row /\ Timely(rows[id], now)
  BY <1>1 DEF RowsKept
<1>4. ASSUME NEW id \in DOMAIN next PROVE Timely(next[id], now)
  <2>1. rows[id] \in Row /\ Timely(rows[id], now) /\ SameVisit(rows[id], next[id], now)
    BY <1>1, <1>2, <1>3
  <2>2. /\ rows[id].start \in Nat /\ rows[id].seen \in Nat
        /\ rows[id].end \in Nat \cup {None}
    BY <2>1, RowFields
  <2>3. now # None
    BY VisitTypes
  <2> QED
    BY <2>1, <2>2, <2>3 DEF Timely, SameVisit
<1>5. ASSUME NEW id \in DOMAIN next, NEW later \in DOMAIN next,
             id < later, next[id].tab = next[later].tab
      PROVE  next[id].end # None /\ next[id].end <= next[later].start
  <2>1. SameVisit(rows[id], next[id], now) /\ SameVisit(rows[later], next[later], now)
    BY <1>1, <1>2
  <2>2. rows[id].end # None /\ rows[id].end <= rows[later].start
    BY <1>1, <1>5, <2>1 DEF RowsKept, SameVisit
  <2> QED
    BY <2>1, <2>2 DEF SameVisit
<1>6. RowsKept(next, now)
  BY <1>1, <1>4, <1>5 DEF RowsKept
<1>7. ASSUME NEW tab PROVE Total(Lasted(next, tab, now)) = Total(Lasted(rows, tab, now))
  <2> DEFINE w == Lasted(rows, tab, now)
             v == Lasted(next, tab, now)
  <2>1. /\ w \in Seq(Int) /\ Len(w) = Len(rows)
        /\ \A id \in 1..Len(rows) : w[id] =
              IF rows[id].tab = tab
              THEN (IF rows[id].end = None THEN now ELSE rows[id].end) - rows[id].start ELSE 0
    BY LastedType
  <2>2. /\ v \in Seq(Int) /\ Len(v) = Len(rows)
        /\ \A id \in 1..Len(rows) : v[id] =
              IF next[id].tab = tab
              THEN (IF next[id].end = None THEN now ELSE next[id].end) - next[id].start ELSE 0
    BY <1>1, <1>6, LastedType
  <2> HIDE DEF w, v
  <2>3. ASSUME NEW id \in 1..Len(w) PROVE v[id] = w[id]
    <3>1. /\ next[id].tab = rows[id].tab /\ next[id].start = rows[id].start
          /\ \/ next[id].end = rows[id].end
             \/ rows[id].end = None /\ next[id].end = now
      BY <1>2, <2>1 DEF SameVisit
    <3>2. (IF next[id].end = None THEN now ELSE next[id].end)
          = (IF rows[id].end = None THEN now ELSE rows[id].end)
      BY <3>1
    <3> QED
      BY <2>1, <2>2, <3>1, <3>2
  <2>4. Len(w) <= Len(v) /\ \A id \in Len(w) + 1..Len(v) : v[id] = 0
    BY <1>1, <2>1, <2>2
  <2>5. Total(v) = Total(w)
    BY <2>1, <2>2, <2>3, <2>4, TotalIgnoresZeros
  <2> QED
    BY <2>5 DEF w, v
<1>8. ASSUME NEW tab, NEW id \in Open(next, tab) PROVE id \in Open(rows, tab)
  <2>1. id \in 1..Len(rows) /\ next[id].tab = tab /\ next[id].end = None /\ now # None
    BY <1>1, <1>8, VisitTypes DEF Open
  <2> QED
    BY <1>1, <1>2, <2>1 DEF Open, SameVisit
<1> QED
  BY <1>6, <1>7, <1>8

LEMMA EndedIsSame ==
    ASSUME clock \in Nat, NEW rows \in Seq(Row), NEW ids
    PROVE  /\ SameVisits(rows, Ended(rows, ids), clock)
           /\ \A id \in ids \cap (1..Len(rows)) : Ended(rows, ids)[id].end # None
<1>1. Len(rows) \in Nat /\ DOMAIN rows = 1..Len(rows) /\ \A id \in 1..Len(rows) : rows[id] \in Row
  OBVIOUS
<1> DEFINE row(id) == IF id \in ids /\ rows[id].end = None
                      THEN [rows[id] EXCEPT !.end = clock, !.seen = clock] ELSE rows[id]
<1>2. Ended(rows, ids) = [id \in 1..Len(rows) |-> row(id)]
  BY <1>1 DEF Ended
<1>3. ASSUME NEW id \in 1..Len(rows)
      PROVE  /\ row(id) \in Row /\ SameVisit(rows[id], row(id), clock)
             /\ id \in ids => row(id).end # None
  <2>1. rows[id] \in Row
    BY <1>1
  <2>2. CASE id \in ids /\ rows[id].end = None
    <3>1. row(id) = [rows[id] EXCEPT !.end = clock, !.seen = clock]
      BY <2>2
    <3>2. SameVisit(rows[id], [rows[id] EXCEPT !.end = clock, !.seen = clock], clock)
          /\ [rows[id] EXCEPT !.end = clock, !.seen = clock].end # None
      BY <2>1, <2>2, RowChanges
    <3> HIDE DEF row
    <3> QED
      BY <3>1, <3>2 DEF SameVisit
  <2>3. CASE ~(id \in ids /\ rows[id].end = None)
    BY <2>1, <2>3 DEF SameVisit
  <2> QED
    BY <2>2, <2>3
<1> HIDE DEF row
<1>4. [id \in 1..Len(rows) |-> row(id)] \in [1..Len(rows) -> Row]
  BY <1>3
<1>5. Ended(rows, ids) \in Seq(Row) /\ Len(Ended(rows, ids)) = Len(rows)
      /\ \A id \in 1..Len(rows) : Ended(rows, ids)[id] = row(id)
  BY <1>1, <1>2, <1>4
<1> QED
  BY <1>3, <1>5 DEF SameVisits

LEMMA ToldIsSame ==
    ASSUME clock \in Nat, NEW rows \in Seq(Row), NEW id \in 1..Len(rows)
    PROVE  /\ SameVisits(rows, Told(rows, id), clock)
           /\ Told(rows, id)[id].end = rows[id].end
<1>1. rows[id] \in Row
  OBVIOUS
<1> DEFINE row == [rows[id] EXCEPT !.told = clock]
<1>2. row \in Row /\ SameVisit(rows[id], row, clock) /\ row.end = rows[id].end
  BY <1>1, RowFields DEF SameVisit
<1>3. Told(rows, id) = [rows EXCEPT ![id] = row]
  BY DEF Told
<1> HIDE DEF row
<1>4. /\ Told(rows, id) \in Seq(Row) /\ Len(Told(rows, id)) = Len(rows)
      /\ \A n \in 1..Len(rows) : Told(rows, id)[n] = IF n = id THEN row ELSE rows[n]
  BY <1>2, <1>3, ExceptSeq
<1>5. ASSUME NEW n \in 1..Len(rows), n # id PROVE SameVisit(rows[n], rows[n], clock)
  <2>1. rows[n] \in Row
    OBVIOUS
  <2> QED
    BY <2>1 DEF SameVisit
<1> QED
  BY <1>2, <1>4, <1>5 DEF SameVisits

\* update_visit_heartbeat
Confirmed(rows, visit) ==
    [id \in DOMAIN rows |-> IF id = visit /\ rows[id].end = None
                            THEN [rows[id] EXCEPT !.seen = clock] ELSE rows[id]]

LEMMA BeatIsSame ==
    ASSUME clock \in Nat, NEW rows \in Seq(Row), NEW visit
    PROVE  SameVisits(rows, Confirmed(rows, visit), clock)
<1>1. Len(rows) \in Nat /\ DOMAIN rows = 1..Len(rows) /\ \A id \in 1..Len(rows) : rows[id] \in Row
  OBVIOUS
<1> DEFINE row(id) == IF id = visit /\ rows[id].end = None
                      THEN [rows[id] EXCEPT !.seen = clock] ELSE rows[id]
<1> DEFINE next == Confirmed(rows, visit)
<1>2. next = [id \in 1..Len(rows) |-> row(id)]
  BY <1>1 DEF Confirmed
<1> HIDE DEF next
<1>3. ASSUME NEW id \in 1..Len(rows)
      PROVE  row(id) \in Row /\ SameVisit(rows[id], row(id), clock)
  <2>1. rows[id] \in Row
    BY <1>1
  <2>2. CASE id = visit /\ rows[id].end = None
    <3>1. row(id) = [rows[id] EXCEPT !.seen = clock]
      BY <2>2
    <3>2. SameVisit(rows[id], [rows[id] EXCEPT !.seen = clock], clock)
      BY <2>1, RowChanges
    <3> HIDE DEF row
    <3> QED
      BY <3>1, <3>2 DEF SameVisit
  <2>3. CASE ~(id = visit /\ rows[id].end = None)
    BY <2>1, <2>3 DEF SameVisit
  <2> QED
    BY <2>2, <2>3
<1> HIDE DEF row
<1>4. [id \in 1..Len(rows) |-> row(id)] \in [1..Len(rows) -> Row]
  BY <1>3
<1>5. next \in Seq(Row) /\ Len(next) = Len(rows) /\ \A id \in 1..Len(rows) : next[id] = row(id)
  BY <1>1, <1>2, <1>4
<1> QED
  BY <1>3, <1>5 DEF SameVisits, next

LEMMA SameVisitsCompose ==
    ASSUME NEW now \in Nat, NEW rows \in Seq(Row), NEW next, NEW last,
           SameVisits(rows, next, now), SameVisits(next, last, now)
    PROVE  SameVisits(rows, last, now)
<1>1. ASSUME NEW id \in 1..Len(rows) PROVE SameVisit(rows[id], last[id], now)
  <2>1. SameVisit(rows[id], next[id], now) /\ SameVisit(next[id], last[id], now)
    BY DEF SameVisits
  <2> QED
    BY <2>1 DEF SameVisit
<1> QED
  BY <1>1 DEF SameVisits

\* record_visit_start, record_visit_heartbeat, record_visit_end: what is charged by now
\* stays, and open are the rows that were, less the ended one; after a start only its own.
RowsServed(rows, next, call) ==
    /\ RowsKept(next, clock)
    /\ \A tab \in Tabs : Total(Lasted(next, tab, clock)) = Total(Lasted(rows, tab, clock))
    /\ \A id \in DOMAIN rows :
          id \in DOMAIN next /\ next[id].tab = rows[id].tab /\ next[id].page = rows[id].page
    /\ IF call.kind = "start"
       THEN Len(next) = Len(rows) + 1 /\ RowOf(next, Len(next), call.tab, call.page)
       ELSE Len(next) = Len(rows)
    /\ \A tab \in Tabs : \A id \in Open(next, tab) :
          IF call.kind = "start" /\ tab = call.tab THEN id = Len(next)
          ELSE id \in Open(rows, tab) /\ ~(call.kind = "end" /\ id = call.visit)

LEMMA SameVisitsAreServed ==
    ASSUME clock \in Nat, NEW rows, RowsKept(rows, clock), NEW next, SameVisits(rows, next, clock),
           NEW call, call.kind # "start",
           call.kind = "end" => call.visit \in 1..Len(rows) /\ next[call.visit].end # None
    PROVE  RowsServed(rows, next, call)
<1>1. /\ rows \in Seq(Row) /\ Len(rows) \in Nat /\ DOMAIN rows = 1..Len(rows)
      /\ next \in Seq(Row) /\ Len(next) = Len(rows) /\ DOMAIN next = 1..Len(rows)
  BY DEF RowsKept, SameVisits
<1>2. /\ RowsKept(next, clock)
      /\ \A tab : Total(Lasted(next, tab, clock)) = Total(Lasted(rows, tab, clock))
      /\ \A tab : Open(next, tab) \subseteq Open(rows, tab)
  BY SameVisitsAreKept
<1>3. \A id \in DOMAIN rows :
          id \in DOMAIN next /\ next[id].tab = rows[id].tab /\ next[id].page = rows[id].page
  BY <1>1 DEF SameVisits, SameVisit
<1>4. ASSUME NEW tab, NEW id \in Open(next, tab)
      PROVE  id \in Open(rows, tab) /\ ~(call.kind = "end" /\ id = call.visit)
  BY <1>2, <1>4 DEF Open
<1> QED
  BY <1>1, <1>2, <1>3, <1>4 DEF RowsServed

LEMMA StartIsServed ==
    ASSUME clock \in Nat, NEW rows, RowsKept(rows, clock), NEW call \in CallRecord,
           call.kind = "start", call.page \in Metered,
           NEW next, next = WithStart(rows, call.tab, call.page)
    PROVE  RowsServed(rows, next, call)
<1> DEFINE mid == Ended(rows, Open(rows, call.tab))
           row == [tab |-> call.tab, page |-> call.page, start |-> clock, seen |-> clock,
                   end |-> None, told |-> clock]
<1>1. next = Append(mid, row)
  BY DEF WithStart
<1>2. /\ rows \in Seq(Row) /\ Len(rows) \in Nat /\ DOMAIN rows = 1..Len(rows)
  BY DEF RowsKept
<1>3. /\ SameVisits(rows, mid, clock)
      /\ \A id \in Open(rows, call.tab) \cap (1..Len(rows)) : mid[id].end # None
  BY <1>2, EndedIsSame
<1> HIDE DEF mid
<1>4. /\ mid \in Seq(Row) /\ Len(mid) = Len(rows) /\ DOMAIN mid = 1..Len(rows)
  BY <1>2, <1>3 DEF SameVisits
<1>5. /\ RowsKept(mid, clock)
      /\ \A tab : Total(Lasted(mid, tab, clock)) = Total(Lasted(rows, tab, clock))
      /\ \A tab : Open(mid, tab) \subseteq Open(rows, tab)
  BY <1>3, SameVisitsAreKept
<1>6. Open(mid, call.tab) = {}
  <2> SUFFICES ASSUME NEW id \in Open(mid, call.tab) PROVE FALSE
    OBVIOUS
  <2>1. id \in Open(rows, call.tab) /\ id \in 1..Len(rows) /\ mid[id].end = None
    BY <1>4, <1>5 DEF Open
  <2> QED
    BY <1>3, <2>1
<1>7. row \in Row /\ row.tab = call.tab /\ row.page = call.page /\ row.start = clock
      /\ row.seen = clock /\ row.end = None /\ Timely(row, clock)
  BY DEF Row, CallRecord, Timely
<1> HIDE DEF row
<1>8. /\ next \in Seq(Row) /\ Len(next) = Len(rows) + 1 /\ DOMAIN next = 1..Len(rows) + 1
      /\ \A id \in 1..Len(rows) : next[id] = mid[id]
      /\ next[Len(rows) + 1] = row
  BY <1>1, <1>2, <1>4, <1>7
<1>9. \A id \in DOMAIN next : id \in 1..Len(rows) \/ id = Len(rows) + 1
  BY <1>2, <1>8
<1>10. RowsKept(next, clock)
  <2>1. \A id \in DOMAIN next : Timely(next[id], clock)
    BY <1>4, <1>5, <1>7, <1>8, <1>9 DEF RowsKept
  <2>2. ASSUME NEW id \in DOMAIN next, NEW later \in DOMAIN next,
               id < later, next[id].tab = next[later].tab
        PROVE  next[id].end # None /\ next[id].end <= next[later].start
    <3>1. id \in 1..Len(rows)
      BY <1>2, <1>8, <2>2
    <3>2. CASE later \in 1..Len(rows)
      BY <1>4, <1>5, <1>8, <2>2, <3>1, <3>2 DEF RowsKept
    <3>3. CASE later = Len(rows) + 1
      <4>1. mid[id].tab = call.tab /\ next[later].start = clock
        BY <1>7, <1>8, <2>2, <3>1, <3>3
      <4>2. mid[id].end # None
        BY <1>4, <1>6, <3>1, <4>1 DEF Open
      <4>3. Timely(mid[id], clock)
        BY <1>4, <1>5, <3>1 DEF RowsKept
      <4> QED
        BY <1>8, <3>1, <4>1, <4>2, <4>3 DEF Timely
    <3> QED
      BY <1>9, <3>2, <3>3
  <2> QED
    BY <1>8, <2>1, <2>2 DEF RowsKept
<1>11. ASSUME NEW tab PROVE Total(Lasted(next, tab, clock)) = Total(Lasted(rows, tab, clock))
  <2> DEFINE w == Lasted(mid, tab, clock)
             v == Lasted(next, tab, clock)
  <2>1. /\ w \in Seq(Int) /\ Len(w) = Len(rows)
        /\ \A id \in 1..Len(rows) : w[id] =
              IF mid[id].tab = tab
              THEN (IF mid[id].end = None THEN clock ELSE mid[id].end) - mid[id].start ELSE 0
    BY <1>4, <1>5, LastedType
  <2>2. /\ v \in Seq(Int) /\ Len(v) = Len(rows) + 1
        /\ \A id \in 1..Len(rows) + 1 : v[id] =
              IF next[id].tab = tab
              THEN (IF next[id].end = None THEN clock ELSE next[id].end) - next[id].start ELSE 0
    <3>1. /\ Lasted(next, tab, clock) \in Seq(Int)
          /\ Len(Lasted(next, tab, clock)) = Len(next)
          /\ \A id \in 1..Len(next) : Lasted(next, tab, clock)[id] =
              IF next[id].tab = tab
              THEN (IF next[id].end = None THEN clock ELSE next[id].end) - next[id].start ELSE 0
      BY <1>10, LastedType
    <3> QED
      BY <1>8, <3>1
  <2> HIDE DEF w, v
  <2>3. ASSUME NEW id \in 1..Len(w) PROVE v[id] = w[id]
    <3>1. id \in 1..Len(rows) /\ id \in 1..Len(rows) + 1 /\ next[id] = mid[id]
      BY <1>2, <1>8, <2>1
    <3> QED
      BY <2>1, <2>2, <3>1
  <2>4. ASSUME NEW id \in Len(w) + 1..Len(v) PROVE v[id] = 0
    <3>1. id = Len(rows) + 1 /\ id \in 1..Len(rows) + 1 /\ next[id] = row
      BY <1>2, <1>8, <2>1, <2>2
    <3> QED
      BY <1>7, <2>2, <3>1
  <2>5. w \in Seq(Int) /\ v \in Seq(Int) /\ Len(w) <= Len(v)
    BY <1>2, <2>1, <2>2
  <2>6. Total(v) = Total(w)
    BY <2>3, <2>4, <2>5, TotalIgnoresZeros
  <2> QED
    BY <1>5, <2>6 DEF w, v
<1>12. \A id \in DOMAIN rows :
          id \in DOMAIN next /\ next[id].tab = rows[id].tab /\ next[id].page = rows[id].page
  BY <1>2, <1>3, <1>8 DEF SameVisits, SameVisit
<1>13. RowOf(next, Len(next), call.tab, call.page)
  <2>1. Len(next) \in DOMAIN next /\ next[Len(next)] = row
    BY <1>2, <1>8
  <2> QED
    BY <1>7, <2>1 DEF RowOf
<1>14. ASSUME NEW tab, NEW id \in Open(next, tab)
       PROVE  IF tab = call.tab THEN id = Len(next) ELSE id \in Open(rows, tab)
  <2>1. id \in DOMAIN next /\ next[id].tab = tab /\ next[id].end = None
    BY <1>14 DEF Open
  <2>2. CASE id = Len(rows) + 1
    BY <1>7, <1>8, <2>1, <2>2
  <2>3. CASE id \in 1..Len(rows)
    <3>1. id \in Open(mid, tab)
      BY <1>4, <1>8, <2>1, <2>3 DEF Open
    <3> QED
      BY <1>5, <1>6, <3>1
  <2> QED
    BY <1>9, <2>1, <2>2, <2>3
<1> QED
  BY <1>8, <1>10, <1>11, <1>12, <1>13, <1>14 DEF RowsServed

LEMMA ServedIsKept ==
    ASSUME clock \in Nat, NEW rows, RowsKept(rows, clock), NEW call \in CallRecord,
           CallKept(call, rows), NEW next, next = Served(rows, call)
    PROVE  RowsServed(rows, next, call)
<1>1. /\ rows \in Seq(Row) /\ Len(rows) \in Nat /\ DOMAIN rows = 1..Len(rows)
  BY DEF RowsKept
<1>2. call.kind \in {"evaluate", "start", "end", "beat"}
  BY DEF CallRecord
<1>3. CASE call.kind = "start"
  BY <1>3, StartIsServed DEF CallKept, Served
<1>4. CASE call.kind = "end"
  <2> DEFINE mid == Ended(rows, {call.visit})
  <2>1. next = Told(mid, call.visit)
    BY <1>4 DEF Served
  <2>2. call.visit \in 1..Len(rows)
    BY <1>1, <1>4 DEF CallKept
  <2>3. SameVisits(rows, mid, clock) /\ mid[call.visit].end # None
    BY <1>1, <2>2, EndedIsSame
  <2> HIDE DEF mid
  <2>4. mid \in Seq(Row) /\ Len(mid) = Len(rows)
    BY <2>3 DEF SameVisits
  <2>5. SameVisits(mid, next, clock) /\ next[call.visit].end = mid[call.visit].end
    BY <2>1, <2>2, <2>4, ToldIsSame
  <2>6. SameVisits(rows, next, clock)
    BY <1>1, <2>3, <2>5, SameVisitsCompose
  <2> QED
    BY <1>4, <2>2, <2>3, <2>5, <2>6, SameVisitsAreServed
<1>5. CASE call.kind = "beat"
  <2> DEFINE mid == Confirmed(rows, call.visit)
  <2>1. next = Told(mid, call.visit)
    BY <1>5 DEF Served, Confirmed
  <2>2. call.visit \in 1..Len(rows)
    BY <1>1, <1>5 DEF CallKept
  <2>3. SameVisits(rows, mid, clock)
    BY <1>1, BeatIsSame
  <2> HIDE DEF mid
  <2>4. mid \in Seq(Row) /\ Len(mid) = Len(rows)
    BY <2>3 DEF SameVisits
  <2>5. SameVisits(mid, next, clock)
    BY <2>1, <2>2, <2>4, ToldIsSame
  <2>6. SameVisits(rows, next, clock)
    BY <1>1, <2>3, <2>5, SameVisitsCompose
  <2> QED
    BY <1>5, <2>6, SameVisitsAreServed
<1>6. CASE call.kind = "evaluate"
  <2>1. next = rows
    BY <1>6 DEF Served
  <2>2. SameVisits(rows, rows, clock)
    <3>1. \A id \in 1..Len(rows) : rows[id] \in Row
      BY <1>1
    <3>2. \A id \in 1..Len(rows) : SameVisit(rows[id], rows[id], clock)
      BY <3>1, RowChanges
    <3> QED
      BY <1>1, <3>2 DEF SameVisits
  <2> QED
    BY <1>6, <2>1, <2>2, SameVisitsAreServed
<1> QED
  BY <1>2, <1>3, <1>4, <1>5, <1>6

LEMMA FirstWaiting ==
    ASSUME VisitsKept, Waiting # {}, NEW k, k = Min(Waiting)
    PROVE  /\ k \in DOMAIN extension.calls /\ extension.calls[k].answer = None
           /\ \A n \in DOMAIN extension.calls : n < k => extension.calls[n].answer # None
           /\ \A n \in DOMAIN extension.calls : n > k => extension.calls[n].answer = None
<1>1. /\ extension.calls \in Seq(CallRecord) /\ Len(extension.calls) \in Nat
      /\ DOMAIN extension.calls = 1..Len(extension.calls)
  BY VisitsFacts, ExtensionFields
<1>2. Waiting \subseteq Nat
  BY <1>1 DEF Waiting
<1>3. \E x \in Waiting : \A y \in Waiting : x <= y
  BY <1>2, LeastNatural
<1>4. k \in Waiting /\ \A y \in Waiting : k <= y
  BY <1>3 DEF Min
<1>5. QueueKept(extension.calls)
  BY VisitsFacts DEF ExtensionKept
<1>6. k \in DOMAIN extension.calls /\ extension.calls[k].answer = None
  BY <1>4 DEF Waiting
<1>7. ASSUME NEW n \in DOMAIN extension.calls, n < k PROVE extension.calls[n].answer # None
  <2>1. k \in Nat /\ n \in Nat
    BY <1>1, <1>6
  <2>2. extension.calls[n].answer = None => n \in Waiting
    BY DEF Waiting
  <2> QED
    BY <1>4, <1>7, <2>1, <2>2
<1> QED
  BY <1>5, <1>6, <1>7 DEF QueueKept

LEMMA AnsweredFields ==
    ASSUME VisitsKept, Waiting # {}, NEW answer \in Nat \cup {Failed}, NEW k, k = Min(Waiting),
           NEW e, e = Answered(answer)
    PROVE  /\ e \in ExtensionRecord /\ e.active = extension.active /\ e.pending = extension.pending
           /\ Len(e.calls) = Len(extension.calls) /\ DOMAIN e.calls = DOMAIN extension.calls
           /\ \A n \in DOMAIN extension.calls : n # k => e.calls[n] = extension.calls[n]
           /\ e.calls[k].kind = extension.calls[k].kind
           /\ e.calls[k].tab = extension.calls[k].tab
           /\ e.calls[k].page = extension.calls[k].page
           /\ e.calls[k].visit = extension.calls[k].visit
           /\ e.calls[k].answer = answer
<1>1. /\ extension.calls \in Seq(CallRecord) /\ Len(extension.calls) \in Nat
      /\ DOMAIN extension.calls = 1..Len(extension.calls) /\ extension \in ExtensionRecord
  BY VisitsFacts, ExtensionFields
<1>2. k \in 1..Len(extension.calls)
  BY <1>1, FirstWaiting
<1> DEFINE call == [extension.calls[k] EXCEPT !.answer = answer]
           calls == [extension.calls EXCEPT ![k] = call]
<1>3. extension.calls[k] \in CallRecord
  BY <1>1, <1>2
<1>4. /\ call \in CallRecord /\ call.kind = extension.calls[k].kind
      /\ call.tab = extension.calls[k].tab /\ call.page = extension.calls[k].page
      /\ call.visit = extension.calls[k].visit /\ call.answer = answer
  BY <1>3 DEF CallRecord
<1>5. e = [extension EXCEPT !.calls = calls]
  BY DEF Answered
<1> HIDE DEF call
<1>6. /\ calls \in Seq(CallRecord) /\ Len(calls) = Len(extension.calls)
      /\ DOMAIN calls = DOMAIN extension.calls
      /\ \A n \in 1..Len(extension.calls) :
            calls[n] = IF n = k THEN call ELSE extension.calls[n]
  <2>1. /\ calls \in Seq(CallRecord) /\ Len(calls) = Len(extension.calls)
        /\ \A n \in 1..Len(extension.calls) :
              calls[n] = IF n = k THEN call ELSE extension.calls[n]
    BY <1>1, <1>2, <1>4, ExceptSeq
  <2>2. DOMAIN calls = DOMAIN extension.calls
    OBVIOUS
  <2> QED
    BY <2>1, <2>2
<1> HIDE DEF calls
<1>7. e \in ExtensionRecord /\ e.active = extension.active /\ e.pending = extension.pending
      /\ e.calls = calls
  BY <1>1, <1>5, <1>6 DEF ExtensionRecord
<1> QED
  BY <1>1, <1>2, <1>4, <1>6, <1>7

LEMMA AnsweredKnowsNoMore ==
    ASSUME VisitsKept, Waiting # {}, NEW answer \in Nat \cup {Failed}
    PROVE  /\ Answered(answer).active = extension.active
           /\ Answered(answer).pending = extension.pending
BY AnsweredFields

LEMMA AnsweredIsLostKept ==
    ASSUME VisitsKept, Waiting # {}, NEW answer \in Nat \cup {Failed},
           NEW call, call = extension.calls[Min(Waiting)], NEW lost,
           LostKept(extension, lost), answer = Failed => call.tab \in lost
    PROVE  LostKept(Answered(answer), lost)
<1> DEFINE e == Answered(answer)
           k == Min(Waiting)
<1>0. e = Answered(answer) /\ k = Min(Waiting) /\ call = extension.calls[k]
  OBVIOUS
<1> HIDE DEF e, k
<1>1. /\ DOMAIN e.calls = DOMAIN extension.calls /\ e.calls[k].tab = extension.calls[k].tab
      /\ \A n \in DOMAIN extension.calls : n # k => e.calls[n] = extension.calls[n]
      /\ e.calls[k].answer = answer /\ call = extension.calls[k]
  BY <1>0, AnsweredFields
<1>2. LostKept(e, lost)
  BY <1>1 DEF LostKept
<1> QED
  BY <1>2 DEF e

\* An answer is true of the rows as they are after the call.
LEMMA AnsweredIsKept ==
    ASSUME VisitsKept, Waiting # {}, NEW answer \in Nat \cup {Failed},
           NEW call, call = extension.calls[Min(Waiting)], NEW next,
           \A id \in DOMAIN visits :
              id \in DOMAIN next /\ next[id].tab = visits[id].tab /\ next[id].page = visits[id].page,
           call.kind = "start" /\ answer # Failed =>
              RowOf(next, answer, call.tab, call.page) /\ \A id \in DOMAIN visits : id < answer
    PROVE  /\ ExtensionKept(Answered(answer), next)
           /\ \A tab \in Tabs : \A id \in Nat :
                 Accounted(extension, id, tab) =>
                    Accounted(Answered(answer), id, tab) \/ (call.kind = "end" /\ call.visit = id)
           /\ call.kind = "start" /\ answer # Failed => Accounted(Answered(answer), answer, call.tab)
<1> DEFINE e == Answered(answer)
           k == Min(Waiting)
<1>1. /\ k \in DOMAIN extension.calls /\ call.answer = None
      /\ \A n \in DOMAIN extension.calls : n < k => extension.calls[n].answer # None
      /\ \A n \in DOMAIN extension.calls : n > k => extension.calls[n].answer = None
  BY FirstWaiting
<1>2. /\ e \in ExtensionRecord /\ e.active = extension.active /\ e.pending = extension.pending
      /\ DOMAIN e.calls = DOMAIN extension.calls
      /\ \A n \in DOMAIN extension.calls : n # k => e.calls[n] = extension.calls[n]
      /\ e.calls[k].kind = call.kind /\ e.calls[k].tab = call.tab
      /\ e.calls[k].page = call.page /\ e.calls[k].visit = call.visit
      /\ e.calls[k].answer = answer
  BY AnsweredFields
<1>3. call = extension.calls[k]
  OBVIOUS
<1>4. /\ ExtensionKept(extension, visits)
      /\ DOMAIN extension.calls \subseteq Nat
  BY VisitsFacts, ExtensionFields
<1> HIDE DEF e, k
<1>5. answer # None
  BY VisitTypes
<1>6. ASSUME NEW n \in DOMAIN extension.calls PROVE CallKept(e.calls[n], next)
  <2>1. CallKept(extension.calls[n], visits)
    BY <1>4 DEF ExtensionKept
  <2>2. CASE n = k
    BY <1>2, <1>3, <2>1, <2>2 DEF CallKept, Began
  <2>3. CASE n # k
    BY <1>2, <2>1, <2>3 DEF CallKept, RowOf
  <2> QED
    BY <2>2, <2>3
<1>7. QueueKept(e.calls)
  <2> SUFFICES ASSUME NEW m \in DOMAIN extension.calls, NEW n \in DOMAIN extension.calls, m < n
               PROVE  /\ e.calls[m].answer = None => e.calls[n].answer = None
                      /\ Began(e.calls[m]) /\ Began(e.calls[n]) => e.calls[m].answer < e.calls[n].answer
    BY <1>2 DEF QueueKept
  <2>1. QueueKept(extension.calls)
    BY <1>4 DEF ExtensionKept
  <2>2. CASE m = k
    <3>1. n # k /\ e.calls[n] = extension.calls[n] /\ extension.calls[n].answer = None
      BY <1>1, <1>2, <1>4, <2>2
    <3> QED
      BY <1>2, <1>5, <2>2, <3>1 DEF Began
  <2>3. CASE n = k
    <3>1. m # k /\ e.calls[m] = extension.calls[m] /\ extension.calls[m].answer # None
      BY <1>1, <1>2, <1>4, <2>3
    <3>2. ASSUME Began(e.calls[m]), Began(e.calls[n]) PROVE e.calls[m].answer < e.calls[n].answer
      <4>1. e.calls[m].answer \in DOMAIN visits
        BY <1>4, <3>1, <3>2 DEF ExtensionKept, CallKept, RowOf
      <4>2. call.kind = "start" /\ answer # Failed /\ e.calls[n].answer = answer
        BY <1>2, <2>3, <3>2 DEF Began
      <4> QED
        BY <4>1, <4>2
    <3> QED
      BY <3>1, <3>2
  <2>4. CASE m # k /\ n # k
    <3>1. e.calls[m] = extension.calls[m] /\ e.calls[n] = extension.calls[n]
      BY <1>2, <2>4
    <3> QED
      BY <2>1, <3>1 DEF QueueKept
  <2> QED
    BY <2>2, <2>3, <2>4
<1>8. ASSUME NEW tab \in Tabs PROVE ActiveKept(e, next, tab)
  <2> SUFFICES ASSUME e.active[tab] # None PROVE ActiveKept(e, next, tab)
    BY DEF ActiveKept
  <2>1. /\ RowOf(visits, extension.active[tab].visit, tab, extension.active[tab].page)
        /\ \A n \in DOMAIN extension.calls :
              Began(extension.calls[n]) /\ extension.calls[n].tab = tab =>
                 extension.active[tab].visit < extension.calls[n].answer
    BY <1>2, <1>4 DEF ExtensionKept, ActiveKept
  <2>2. ASSUME NEW n \in DOMAIN extension.calls, Began(e.calls[n]), e.calls[n].tab = tab
        PROVE  e.active[tab].visit < e.calls[n].answer
    <3>1. CASE n = k
      <4>1. call.kind = "start" /\ answer # Failed /\ e.calls[n].answer = answer
        BY <1>2, <2>2, <3>1 DEF Began
      <4> QED
        BY <1>2, <2>1, <4>1 DEF RowOf
    <3>2. CASE n # k
      BY <1>2, <2>1, <2>2, <3>2
    <3> QED
      BY <3>1, <3>2
  <2>3. RowOf(next, e.active[tab].visit, tab, e.active[tab].page)
    BY <1>2, <2>1 DEF RowOf
  <2> QED
    BY <1>2, <2>2, <2>3 DEF ActiveKept
<1>9. ExtensionKept(e, next)
  BY <1>2, <1>6, <1>7, <1>8 DEF ExtensionKept
<1>10. ASSUME NEW tab \in Tabs, NEW id \in Nat, Accounted(extension, id, tab),
              ~(call.kind = "end" /\ call.visit = id)
       PROVE  Accounted(e, id, tab)
  <2>1. CASE extension.active[tab] # None /\ extension.active[tab].visit = id
    BY <1>2, <2>1 DEF Accounted
  <2>2. CASE \E n \in DOMAIN extension.calls :
               \/ extension.calls[n].kind = "end" /\ extension.calls[n].visit = id
                  /\ extension.calls[n].answer = None
               \/ Began(extension.calls[n]) /\ extension.calls[n].tab = tab
                  /\ extension.calls[n].answer = id
    <3>1. PICK n \in DOMAIN extension.calls :
               \/ extension.calls[n].kind = "end" /\ extension.calls[n].visit = id
                  /\ extension.calls[n].answer = None
               \/ Began(extension.calls[n]) /\ extension.calls[n].tab = tab
                  /\ extension.calls[n].answer = id
      BY <2>2
    <3>2. n # k
      BY <1>1, <1>3, <1>10, <3>1 DEF Began
    <3> QED
      BY <1>2, <3>1, <3>2 DEF Accounted
  <2> QED
    BY <1>10, <2>1, <2>2 DEF Accounted
<1>11. ASSUME call.kind = "start", answer # Failed PROVE Accounted(e, answer, call.tab)
  <2>1. Began(e.calls[k]) /\ e.calls[k].tab = call.tab /\ k \in DOMAIN e.calls
    BY <1>1, <1>2, <1>5, <1>11 DEF Began
  <2> QED
    BY <1>2, <2>1 DEF Accounted
<1> QED
  BY <1>9, <1>10, <1>11 DEF e

LEMMA HandleKeepsVisits == ASSUME VisitsKept, Handle PROVE VisitsKept'
<1> DEFINE call == extension.calls[Min(Waiting)]
           answer == Len(visits')
<1>1. /\ Waiting # {} /\ visits' = Served(visits, call) /\ extension' = Answered(answer)
      /\ UNCHANGED <<clock, shows, front, budget, watched, unknown>>
  BY DEF Handle
<1>2. Min(Waiting) \in DOMAIN extension.calls
  BY <1>1, FirstWaiting
<1>3. call \in CallRecord /\ CallKept(call, visits)
  BY <1>2, VisitsFacts, ExtensionFields DEF ExtensionKept
<1>4. call = extension.calls[Min(Waiting)]
  OBVIOUS
<1> HIDE DEF call
<1>5. clock \in Nat /\ RowsKept(visits, clock)
  BY DEF VisitsKept, SurroundingsKept
<1>6. RowsServed(visits, visits', call)
  BY <1>1, <1>3, <1>5, ServedIsKept
<1>7. visits' \in Seq(Row) /\ answer \in Nat /\ Len(visits) \in Nat /\ DOMAIN visits = 1..Len(visits)
  <2>1. visits' \in Seq(Row) /\ visits \in Seq(Row)
    BY <1>5, <1>6 DEF RowsServed, RowsKept
  <2> QED
    BY <2>1
<1>8. /\ \A id \in DOMAIN visits : /\ id \in DOMAIN visits' /\ visits'[id].tab = visits[id].tab
                                   /\ visits'[id].page = visits[id].page
      /\ call.kind = "start" => RowOf(visits', answer, call.tab, call.page)
                                /\ \A id \in DOMAIN visits : id < answer
  BY <1>6, <1>7 DEF RowsServed
<1>9. answer \in Nat \cup {Failed} /\ answer # Failed
  BY <1>7, VisitTypes
<1> HIDE DEF answer
<1>10. /\ ExtensionKept(extension', visits')
       /\ \A tab \in Tabs : \A id \in Nat :
             Accounted(extension, id, tab) =>
                Accounted(extension', id, tab) \/ (call.kind = "end" /\ call.visit = id)
       /\ call.kind = "start" => Accounted(extension', answer, call.tab)
  <2>1. call.kind = "start" /\ answer # Failed =>
            RowOf(visits', answer, call.tab, call.page) /\ \A id \in DOMAIN visits : id < answer
    BY <1>8
  <2>2. /\ ExtensionKept(Answered(answer), visits')
        /\ \A tab \in Tabs : \A id \in Nat :
             Accounted(extension, id, tab) =>
                Accounted(Answered(answer), id, tab) \/ (call.kind = "end" /\ call.visit = id)
        /\ call.kind = "start" /\ answer # Failed => Accounted(Answered(answer), answer, call.tab)
    BY <1>1, <1>4, <1>8, <1>9, <2>1, AnsweredIsKept
  <2> QED
    BY <1>1, <1>9, <2>2
<1>11. extension'.active = extension.active /\ extension'.pending = extension.pending
  BY <1>1, <1>9, AnsweredFields
<1>12. ASSUME NEW tab \in Tabs \ unknown
       PROVE  /\ KnownKept(extension', visits', tab, front, shows[tab])
              /\ Total(Lasted(visits', tab, clock)) <= watched[tab]
  <2>1. /\ KnownKept(extension, visits, tab, front, shows[tab])
        /\ Total(Lasted(visits, tab, clock)) <= watched[tab]
    BY <1>12 DEF VisitsKept
  <2>2. ASSUME NEW id \in Open(visits', tab) PROVE Accounted(extension', id, tab)
    <3>1. IF call.kind = "start" /\ tab = call.tab THEN id = answer
          ELSE id \in Open(visits, tab) /\ ~(call.kind = "end" /\ id = call.visit)
      BY <1>6, <2>2 DEF RowsServed, answer
    <3>2. CASE call.kind = "start" /\ tab = call.tab
      BY <1>10, <3>1, <3>2
    <3>3. CASE ~(call.kind = "start" /\ tab = call.tab)
      <4>1. id \in Nat /\ Accounted(extension, id, tab)
        BY <2>1, <3>1, <3>3, OpenType, VisitsFacts DEF KnownKept
      <4> QED
        BY <1>10, <3>1, <3>3, <4>1
    <3> QED
      BY <3>2, <3>3
  <2>3. Total(Lasted(visits', tab, clock)) = Total(Lasted(visits, tab, clock))
    BY <1>6 DEF RowsServed
  <2> QED
    BY <1>11, <2>1, <2>2, <2>3 DEF KnownKept
<1>13. SurroundingsKept'
  BY <1>1 DEF VisitsKept, SurroundingsKept
<1>14. RowsKept(visits', clock)
  BY <1>6 DEF RowsServed
<1>15. LostKept(extension', unknown)
  <2>1. LostKept(extension, unknown)
    BY DEF VisitsKept
  <2> QED
    BY <1>1, <1>4, <1>9, <2>1, AnsweredIsLostKept
<1> QED
  BY <1>1, <1>10, <1>12, <1>13, <1>14, <1>15 DEF VisitsKept

LEMMA FailKeepsVisits == ASSUME VisitsKept, Fail PROVE VisitsKept'
<1> DEFINE call == extension.calls[Min(Waiting)]
<1>1. /\ Waiting # {} /\ visits' \in {visits, Served(visits, call)} /\ extension' = Answered(Failed)
      /\ unknown' = (IF visits' = visits THEN unknown \cup {call.tab}
                     ELSE unknown \cup {visits'[id].tab : id \in DOMAIN visits'})
      /\ UNCHANGED <<clock, shows, front, watched>> /\ Fault
  BY DEF Fail
<1>2. Min(Waiting) \in DOMAIN extension.calls
  BY <1>1, FirstWaiting
<1>3. call \in CallRecord /\ CallKept(call, visits)
  BY <1>2, VisitsFacts, ExtensionFields DEF ExtensionKept
<1>4. call = extension.calls[Min(Waiting)]
  OBVIOUS
<1> HIDE DEF call
<1>5. clock \in Nat /\ RowsKept(visits, clock)
  BY DEF VisitsKept, SurroundingsKept
<1>6. /\ RowsKept(visits', clock)
      /\ \A id \in DOMAIN visits : /\ id \in DOMAIN visits' /\ visits'[id].tab = visits[id].tab
                                   /\ visits'[id].page = visits[id].page
  <2>1. CASE visits' = visits
    BY <1>5, <2>1
  <2>2. CASE visits' = Served(visits, call)
    BY <1>3, <1>5, <2>2, ServedIsKept DEF RowsServed
  <2> QED
    BY <1>1, <2>1, <2>2
<1>7. visits' \in Seq(Row) /\ Len(visits') \in Nat /\ DOMAIN visits' = 1..Len(visits')
      /\ \A id \in DOMAIN visits' : visits'[id].tab \in Tabs
  <2>1. visits' \in Seq(Row)
    BY <1>6 DEF RowsKept
  <2>2. \A id \in DOMAIN visits' : visits'[id] \in Row
    BY <2>1
  <2> QED
    BY <2>1, <2>2 DEF Row
<1>8. /\ ExtensionKept(extension', visits')
      /\ \A tab \in Tabs : \A id \in Nat :
            Accounted(extension, id, tab) =>
               Accounted(extension', id, tab) \/ (call.kind = "end" /\ call.visit = id)
  <2>1. Failed \in Nat \cup {Failed}
    OBVIOUS
  <2> QED
    BY <1>1, <1>4, <1>6, <2>1, AnsweredIsKept
<1>9. extension'.active = extension.active /\ extension'.pending = extension.pending
  <2>1. Failed \in Nat \cup {Failed}
    OBVIOUS
  <2> QED
    BY <1>1, <2>1, AnsweredKnowsNoMore
<1>10. ASSUME NEW tab \in Tabs \ unknown'
       PROVE  /\ KnownKept(extension', visits', tab, front, shows[tab])
              /\ Total(Lasted(visits', tab, clock)) <= watched[tab]
  <2>0. tab \notin unknown
    BY <1>1, <1>10
  <2>1. /\ KnownKept(extension, visits, tab, front, shows[tab])
        /\ Total(Lasted(visits, tab, clock)) <= watched[tab]
    BY <1>10, <2>0 DEF VisitsKept
  <2>2. CASE visits' = visits
    <3>1. tab # call.tab
      BY <1>1, <1>10, <2>2
    <3>2. ASSUME NEW id \in Open(visits', tab) PROVE Accounted(extension', id, tab)
      <4>1. id \in Nat /\ Accounted(extension, id, tab) /\ visits[id].tab = tab
        BY <2>1, <2>2, OpenType, VisitsFacts DEF KnownKept, Open
      <4>2. ~(call.kind = "end" /\ call.visit = id)
        BY <1>3, <3>1, <4>1 DEF CallKept
      <4> QED
        BY <1>8, <4>1, <4>2
    <3> QED
      BY <1>9, <2>1, <2>2, <3>2 DEF KnownKept
  <2>3. CASE visits' # visits
    <3>1. \A id \in DOMAIN visits' : visits'[id].tab # tab
      BY <1>1, <1>10, <2>3
    <3>2. Open(visits', tab) = {}
      BY <3>1 DEF Open
    <3> DEFINE v == Lasted(visits', tab, clock)
    <3>3. /\ v \in Seq(Int) /\ Len(v) = Len(visits')
          /\ \A id \in 1..Len(visits') : v[id] =
                IF visits'[id].tab = tab
                THEN (IF visits'[id].end = None THEN clock ELSE visits'[id].end) - visits'[id].start
                ELSE 0
      BY <1>5, <1>6, LastedType
    <3> HIDE DEF v
    <3>4. \A id \in 1..Len(v) : v[id] = 0
      BY <1>7, <3>1, <3>3
    <3>5. Total(v) = 0
      BY <3>3, <3>4, TotalOfZeros
    <3>6. watched[tab] \in Nat
      BY <1>10 DEF VisitsKept, SurroundingsKept
    <3> QED
      BY <1>9, <2>1, <3>2, <3>5, <3>6 DEF KnownKept, v
  <2> QED
    BY <2>2, <2>3
<1>11. SurroundingsKept'
  <2>1. unknown' \subseteq Tabs
    BY <1>1, <1>3, <1>7 DEF CallRecord, VisitsKept, SurroundingsKept
  <2>2. budget' \in [moves : 0..MaxMoves, faults : 0..MaxFaults]
    BY <1>1, VisitsAssumption DEF Fault, VisitsKept, SurroundingsKept
  <2> QED
    BY <1>1, <2>1, <2>2 DEF VisitsKept, SurroundingsKept
<1>12. LostKept(extension', unknown')
  <2>1. LostKept(extension, unknown)
    BY DEF VisitsKept
  <2>2. call.tab \in unknown'
    <3>1. CASE visits' = visits
      BY <1>1, <3>1
    <3>2. CASE visits' # visits
      <4>1. visits' = Served(visits, call) /\ RowsServed(visits, visits', call)
        BY <1>1, <1>3, <1>5, <3>2, ServedIsKept
      <4>2. \E id \in DOMAIN visits' : visits'[id].tab = call.tab
        <5>1. CASE call.kind = "start"
          BY <4>1, <5>1 DEF RowsServed, RowOf
        <5>2. CASE call.kind \in {"end", "beat"}
          BY <1>3, <1>6, <5>2 DEF CallKept
        <5>3. CASE call.kind = "evaluate"
          BY <3>2, <4>1, <5>3 DEF Served
        <5> QED
          BY <1>3, <5>1, <5>2, <5>3 DEF CallRecord
      <4> QED
        BY <1>1, <3>2, <4>2
    <3> QED
      BY <3>1, <3>2
  <2>3. LostKept(extension, unknown') /\ Failed \in Nat \cup {Failed}
    BY <1>1, <2>1 DEF LostKept
  <2> QED
    BY <1>1, <1>4, <2>2, <2>3, AnsweredIsLostKept
<1> QED
  BY <1>1, <1>6, <1>8, <1>10, <1>11, <1>12 DEF VisitsKept

-------------------------------------------------------------------------------
(* What the extension makes of an answer.                                    *)

LEMMA RestIsKept ==
    ASSUME VisitsKept, extension.calls # <<>>, NEW call, call = Head(extension.calls),
           call.answer # None,
           NEW rest, rest = [extension EXCEPT !.calls = Tail(extension.calls)]
    PROVE  /\ call \in CallRecord /\ CallKept(call, visits)
           /\ ExtensionKept(rest, visits) /\ rest.active = extension.active
           /\ rest.pending = extension.pending /\ Len(extension.calls) = Len(rest.calls) + 1
           /\ \A lost : LostKept(extension, lost) =>
                 LostKept(rest, lost) /\ (call.answer = Failed => call.tab \in lost)
           /\ \A tab \in Tabs : \A id \in Nat :
                 Accounted(extension, id, tab) =>
                    Accounted(rest, id, tab) \/ (Began(call) /\ call.tab = tab /\ call.answer = id)
           /\ Began(call) => \A n \in DOMAIN rest.calls :
                 Began(rest.calls[n]) => call.answer < rest.calls[n].answer
           /\ Began(call) /\ extension.active[call.tab] # None =>
                 extension.active[call.tab].visit < call.answer
<1>1. /\ extension.calls \in Seq(CallRecord) /\ Len(extension.calls) \in Nat
      /\ DOMAIN extension.calls = 1..Len(extension.calls) /\ extension \in ExtensionRecord
  BY VisitsFacts, ExtensionFields
<1>2. /\ 1 \in DOMAIN extension.calls /\ call = extension.calls[1]
      /\ call \in CallRecord
  BY <1>1
<1> DEFINE calls == Tail(extension.calls)
<1>3. /\ calls \in Seq(CallRecord) /\ Len(calls) = Len(extension.calls) - 1
      /\ DOMAIN calls = 1..Len(extension.calls) - 1
      /\ \A n \in 1..Len(extension.calls) - 1 : calls[n] = extension.calls[n + 1]
  BY <1>1
<1> HIDE DEF calls
<1>4. /\ rest \in ExtensionRecord /\ rest.active = extension.active
      /\ rest.pending = extension.pending /\ rest.calls = calls
  <2>1. rest = [extension EXCEPT !.calls = calls]
    BY DEF calls
  <2> QED
    BY <1>1, <1>3, <2>1 DEF ExtensionRecord
<1>5. /\ \A n \in DOMAIN rest.calls :
            n + 1 \in DOMAIN extension.calls /\ rest.calls[n] = extension.calls[n + 1]
      /\ \A n \in DOMAIN extension.calls :
            n # 1 => n - 1 \in DOMAIN rest.calls /\ rest.calls[n - 1] = extension.calls[n]
  <2>1. ASSUME NEW n \in DOMAIN extension.calls, n # 1
        PROVE  n - 1 \in DOMAIN rest.calls /\ rest.calls[n - 1] = extension.calls[n]
    <3>1. n - 1 \in 1..Len(extension.calls) - 1 /\ n - 1 + 1 = n
      BY <1>1, <2>1
    <3> QED
      BY <1>3, <1>4, <3>1
  <2>2. ASSUME NEW n \in DOMAIN rest.calls
        PROVE  n + 1 \in DOMAIN extension.calls /\ rest.calls[n] = extension.calls[n + 1]
    BY <1>1, <1>3, <1>4, <2>2
  <2> QED
    BY <2>1, <2>2
<1>6. /\ ExtensionKept(extension, visits) /\ QueueKept(extension.calls)
      /\ \A n \in DOMAIN extension.calls : CallKept(extension.calls[n], visits)
      /\ \A tab \in Tabs : ActiveKept(extension, visits, tab)
  BY VisitsFacts DEF ExtensionKept
<1>7. QueueKept(rest.calls)
  <2> SUFFICES ASSUME NEW m \in DOMAIN rest.calls, NEW n \in DOMAIN rest.calls, m < n
               PROVE  /\ rest.calls[m].answer = None => rest.calls[n].answer = None
                      /\ Began(rest.calls[m]) /\ Began(rest.calls[n]) =>
                            rest.calls[m].answer < rest.calls[n].answer
    BY DEF QueueKept
  <2>1. m + 1 < n + 1 /\ m + 1 \in DOMAIN extension.calls /\ n + 1 \in DOMAIN extension.calls
    BY <1>1, <1>3, <1>4
  <2> QED
    BY <1>5, <1>6, <2>1 DEF QueueKept
<1>8. \A n \in DOMAIN rest.calls : CallKept(rest.calls[n], visits)
  BY <1>5, <1>6
<1>9. \A tab \in Tabs : ActiveKept(rest, visits, tab)
  BY <1>4, <1>5, <1>6 DEF ActiveKept
<1>10. ExtensionKept(rest, visits)
  BY <1>4, <1>7, <1>8, <1>9 DEF ExtensionKept
<1>11. ASSUME NEW lost, LostKept(extension, lost)
       PROVE  LostKept(rest, lost) /\ (call.answer = Failed => call.tab \in lost)
  BY <1>2, <1>5, <1>11 DEF LostKept
<1>12. ASSUME NEW tab \in Tabs, NEW id \in Nat, Accounted(extension, id, tab),
              ~(Began(call) /\ call.tab = tab /\ call.answer = id)
       PROVE  Accounted(rest, id, tab)
  <2>1. CASE extension.active[tab] # None /\ extension.active[tab].visit = id
    BY <1>4, <2>1 DEF Accounted
  <2>2. CASE \E n \in DOMAIN extension.calls :
               \/ extension.calls[n].kind = "end" /\ extension.calls[n].visit = id
                  /\ extension.calls[n].answer = None
               \/ Began(extension.calls[n]) /\ extension.calls[n].tab = tab
                  /\ extension.calls[n].answer = id
    <3>1. PICK n \in DOMAIN extension.calls :
               \/ extension.calls[n].kind = "end" /\ extension.calls[n].visit = id
                  /\ extension.calls[n].answer = None
               \/ Began(extension.calls[n]) /\ extension.calls[n].tab = tab
                  /\ extension.calls[n].answer = id
      BY <2>2
    <3>2. n # 1
      BY <1>2, <1>12, <3>1
    <3>3. n - 1 \in DOMAIN rest.calls /\ rest.calls[n - 1] = extension.calls[n]
      BY <1>5, <3>2
    <3> QED
      BY <3>1, <3>3 DEF Accounted
  <2> QED
    BY <1>12, <2>1, <2>2 DEF Accounted
<1>13. ASSUME Began(call), NEW n \in DOMAIN rest.calls, Began(rest.calls[n])
       PROVE  call.answer < rest.calls[n].answer
  <2>1. 1 < n + 1 /\ n + 1 \in DOMAIN extension.calls /\ rest.calls[n] = extension.calls[n + 1]
    BY <1>1, <1>3, <1>4, <1>5
  <2> QED
    BY <1>2, <1>6, <1>13, <2>1 DEF QueueKept
<1>14. ASSUME Began(call), extension.active[call.tab] # None
       PROVE  extension.active[call.tab].visit < call.answer
  <2>1. call.tab \in Tabs
    BY <1>2 DEF CallRecord
  <2> QED
    BY <1>2, <1>6, <1>14, <2>1 DEF ActiveKept
<1>15. CallKept(call, visits) /\ Len(extension.calls) = Len(rest.calls) + 1
  <2>1. CallKept(call, visits)
    BY <1>2, <1>6
  <2>2. Len(extension.calls) = Len(rest.calls) + 1
    BY <1>1, <1>3, <1>4
  <2> QED
    BY <2>1, <2>2
<1> QED
  BY <1>2, <1>4, <1>10, <1>11, <1>12, <1>13, <1>14, <1>15

\* Whether a start was not asked for any more when it was answered, and whether one is sent
\* for a page that is not in front.
Ignored(call) ==
    call.kind = "start" /\ call.answer # Failed /\ extension.pending[call.tab] # call.page

Late(f, call) ==
    /\ Len(f.calls) >= Len(extension.calls) /\ Last(f.calls).kind = "start"
    /\ front # call.tab \/ shows[call.tab] # Last(f.calls).page

\* The answer is taken in: the extension stays true to the rows, and a tab leaves those
\* that are known only if its start was ignored or is late.
Heard(f, call) ==
    /\ ExtensionKept(f, visits)
    /\ \A lost : LostKept(extension, lost) => LostKept(f, lost)
    /\ \A tab \in Tabs : KnownKept(extension, visits, tab, front, shows[tab]) =>
          \/ KnownKept(f, visits, tab, front, shows[tab])
          \/ tab = call.tab /\ (Ignored(call) \/ Late(f, call))

Received(call, rest) ==
    /\ VisitsKept /\ extension.calls # <<>> /\ call = Head(extension.calls) /\ call.answer # None
    /\ rest = [extension EXCEPT !.calls = Tail(extension.calls)]

LEMMA ReceivedFacts ==
    ASSUME NEW call, NEW rest, Received(call, rest)
    PROVE  /\ visits \in Seq(Row) /\ ExtensionKept(rest, visits) /\ rest.active = extension.active
           /\ rest.pending = extension.pending /\ Len(extension.calls) = Len(rest.calls) + 1
           /\ Len(rest.calls) \in Nat
           /\ \A lost : LostKept(extension, lost) => LostKept(rest, lost)
           /\ call.tab \in Tabs /\ call.nav \in Nat /\ call.next \in Metered \cup {None}
           /\ call.kind \in {"evaluate", "start", "end", "beat"}
           /\ call.page \in Pages \cup {None}
<1>1. /\ ExtensionKept(rest, visits) /\ rest.active = extension.active
      /\ rest.pending = extension.pending /\ Len(extension.calls) = Len(rest.calls) + 1
      /\ \A lost : LostKept(extension, lost) => LostKept(rest, lost)
      /\ call \in CallRecord
  BY RestIsKept DEF Received
<1>2. rest \in ExtensionRecord
  BY <1>1 DEF ExtensionKept
<1> QED
  BY <1>1, <1>2, ExtensionFields, VisitsFacts DEF CallRecord, Received

LEMMA RestIsKnown ==
    ASSUME NEW call, NEW rest, Received(call, rest), NEW tab \in Tabs, ~(Began(call) /\ call.tab = tab),
           KnownKept(extension, visits, tab, front, shows[tab])
    PROVE  KnownKept(rest, visits, tab, front, shows[tab])
<1>1. ASSUME NEW id \in Open(visits, tab) PROVE Accounted(rest, id, tab)
  <2>1. id \in Nat /\ Accounted(extension, id, tab)
    BY OpenType, ReceivedFacts DEF KnownKept
  <2> QED
    BY <2>1, RestIsKept DEF Received
<1>2. rest.active = extension.active /\ rest.pending = extension.pending
  BY ReceivedFacts
<1> QED
  BY <1>1, <1>2 DEF KnownKept

\* A start that is asked for is late, or for the page in front.
LEMMA AskedIsHeard ==
    ASSUME NEW call, NEW rest, Received(call, rest), NEW e, ExtensionKept(e, visits),
           Len(e.calls) >= Len(rest.calls), NEW page \in Metered, NEW nav \in Nat,
           NEW f, f = StartVisit(e, call.tab, page, nav)
    PROVE  /\ ExtensionKept(f, visits)
           /\ \A lost : LostKept(e, lost) => LostKept(f, lost)
           /\ \A tab \in Tabs : KnownKept(e, visits, tab, front, shows[tab]) =>
                 \/ KnownKept(f, visits, tab, front, shows[tab])
                 \/ tab = call.tab /\ Late(f, call)
<1>1. VisitAsked(e, f, visits, call.tab, page)
  BY ReceivedFacts, StartVisitAsks
<1>2. ASSUME NEW tab \in Tabs, KnownKept(e, visits, tab, front, shows[tab]),
             ~(tab = call.tab /\ Late(f, call))
      PROVE  KnownKept(f, visits, tab, front, shows[tab])
  <2>1. \A id \in Open(visits, tab) : Accounted(f, id, tab)
    <3> SUFFICES ASSUME NEW id \in Open(visits, tab) PROVE Accounted(f, id, tab)
      OBVIOUS
    <3>1. id \in Nat /\ Accounted(e, id, tab)
      BY <1>2, OpenType, ReceivedFacts DEF KnownKept
    <3> QED
      BY <1>1, <3>1 DEF VisitAsked
  <2>2. f.active = e.active
    BY <1>1 DEF VisitAsked
  <2>3. CASE f.pending[tab] = e.pending[tab]
    BY <1>2, <2>1, <2>2, <2>3 DEF KnownKept
  <2>4. CASE f.pending[tab] # e.pending[tab]
    <3>1. /\ tab = call.tab /\ f.pending[tab] = page /\ Len(f.calls) = Len(e.calls) + 1
          /\ f.calls[Len(f.calls)].kind = "start" /\ f.calls[Len(f.calls)].page = page
      BY <1>1, <2>4 DEF VisitAsked
    <3>2. Len(e.calls) \in Nat
      BY ExtensionFields DEF ExtensionKept
    <3>3. Len(f.calls) >= Len(extension.calls) /\ Last(f.calls).kind = "start"
          /\ Last(f.calls).page = page
      BY <3>1, <3>2, ReceivedFacts DEF Last
    <3>4. front = tab /\ shows[tab] = page
      BY <1>2, <3>1, <3>3 DEF Late
    <3> QED
      BY <1>2, <2>1, <2>2, <3>1, <3>4 DEF KnownKept
  <2> QED
    BY <2>3, <2>4
<1>3. ASSUME NEW lost, LostKept(e, lost) PROVE LostKept(f, lost)
  BY <1>3, StartIsLostKept, ReceivedFacts
<1>4. ExtensionKept(f, visits)
  BY <1>1 DEF VisitAsked
<1> QED
  BY <1>2, <1>3, <1>4

\* The end of a visit after which another begins.
WithNext(e, page) == [e EXCEPT !.calls[Len(e.calls)].next = page]

LEMMA EndedThenNext ==
    ASSUME NEW rows, NEW e, ExtensionKept(e, rows), Len(e.calls) \in DOMAIN e.calls,
           NEW page \in Metered, NEW f, f = WithNext(e, page)
    PROVE  /\ ExtensionKept(f, rows) /\ f.active = e.active /\ f.pending = e.pending
           /\ \A lost : LostKept(e, lost) => LostKept(f, lost)
           /\ \A tab \in Tabs : \A id \in Nat : Accounted(e, id, tab) => Accounted(f, id, tab)
<1> DEFINE n == Len(e.calls)
<1>0. n \in DOMAIN e.calls /\ f = [e EXCEPT !.calls[n].next = page]
  BY DEF WithNext
<1> HIDE DEF n
<1>1. /\ e \in ExtensionRecord /\ e.calls \in Seq(CallRecord)
      /\ DOMAIN e.calls = 1..Len(e.calls) /\ Len(e.calls) \in Nat /\ e.calls[n] \in CallRecord
  BY <1>0, ExtensionFields DEF ExtensionKept
<1> DEFINE call == [e.calls[n] EXCEPT !.next = page]
           calls == [e.calls EXCEPT ![n] = call]
<1>2. /\ call \in CallRecord /\ call.kind = e.calls[n].kind /\ call.tab = e.calls[n].tab
      /\ call.page = e.calls[n].page /\ call.visit = e.calls[n].visit
      /\ call.answer = e.calls[n].answer
  BY <1>1 DEF CallRecord
<1>3. f = [e EXCEPT !.calls = calls]
  BY <1>0
<1> HIDE DEF call
<1>4. /\ calls \in Seq(CallRecord) /\ DOMAIN calls = DOMAIN e.calls
      /\ \A m \in DOMAIN e.calls : calls[m] = IF m = n THEN call ELSE e.calls[m]
  <2>1. /\ calls \in Seq(CallRecord)
        /\ \A m \in 1..Len(e.calls) : calls[m] = IF m = n THEN call ELSE e.calls[m]
    BY <1>0, <1>1, <1>2, ExceptSeq
  <2>2. DOMAIN calls = DOMAIN e.calls
    OBVIOUS
  <2> QED
    BY <1>1, <2>1, <2>2
<1> HIDE DEF calls
<1>5. /\ f \in ExtensionRecord /\ f.active = e.active /\ f.pending = e.pending /\ f.calls = calls
  BY <1>1, <1>3, <1>4 DEF ExtensionRecord
<1>6. /\ DOMAIN f.calls = DOMAIN e.calls
      /\ \A m \in DOMAIN e.calls :
            /\ f.calls[m].kind = e.calls[m].kind /\ f.calls[m].tab = e.calls[m].tab
            /\ f.calls[m].page = e.calls[m].page /\ f.calls[m].visit = e.calls[m].visit
            /\ f.calls[m].answer = e.calls[m].answer
            /\ Began(f.calls[m]) = Began(e.calls[m])
            /\ CallKept(f.calls[m], rows) = CallKept(e.calls[m], rows)
  BY <1>2, <1>4, <1>5 DEF Began, CallKept
<1> HIDE DEF ExtensionRecord
<1>7. QueueKept(f.calls)
  <2>1. QueueKept(e.calls)
    BY DEF ExtensionKept
  <2> QED
    BY <1>6, <2>1 DEF QueueKept
<1>8. \A m \in DOMAIN f.calls : CallKept(f.calls[m], rows)
  BY <1>6 DEF ExtensionKept
<1>9. \A tab \in Tabs : ActiveKept(f, rows, tab)
  BY <1>5, <1>6 DEF ExtensionKept, ActiveKept
<1>10. ExtensionKept(f, rows)
  BY <1>5, <1>7, <1>8, <1>9 DEF ExtensionKept
<1>11. ASSUME NEW tab \in Tabs, NEW id \in Nat, Accounted(e, id, tab) PROVE Accounted(f, id, tab)
  BY <1>5, <1>6, <1>11 DEF Accounted
<1>12. ASSUME NEW lost, LostKept(e, lost) PROVE LostKept(f, lost)
  BY <1>6, <1>12 DEF LostKept
<1> QED
  BY <1>5, <1>10, <1>11, <1>12

LEMMA RestIsHeard ==
    ASSUME NEW call, NEW rest, Received(call, rest), ~Began(call)
    PROVE  Heard(rest, call)
BY RestIsKnown, ReceivedFacts DEF Heard

\* The end of a visit is heard as well as its tab was known.
LEMMA EndedIsHeard ==
    ASSUME NEW call, NEW rest, Received(call, rest), ~Began(call), NEW tab \in Tabs,
           NEW f, f = EndVisit(rest, tab)
    PROVE  Heard(f, call) /\ VisitsEnded(rest, f, visits, {tab})
<1>1. VisitsEnded(rest, f, visits, {tab})
  BY ReceivedFacts, EndVisitsEnds DEF EndVisit
<1>2. ExtensionKept(f, visits)
  BY <1>1 DEF VisitsEnded
<1>3. ASSUME NEW lost, LostKept(extension, lost) PROVE LostKept(f, lost)
  BY <1>1, <1>3, ReceivedFacts, EndedIsLostKept
<1>4. ASSUME NEW other \in Tabs, KnownKept(extension, visits, other, front, shows[other])
      PROVE  KnownKept(f, visits, other, front, shows[other])
  <2>1. KnownKept(rest, visits, other, front, shows[other])
    BY <1>4, RestIsKnown
  <2> QED
    BY <1>1, <2>1, KnownIsAccounted, EndedIsKnown, ReceivedFacts
<1> QED
  BY <1>1, <1>2, <1>3, <1>4 DEF Heard

LEMMA AskedAfterRest ==
    ASSUME NEW call, NEW rest, Received(call, rest), ~Began(call),
           NEW page \in Metered, NEW nav \in Nat, NEW f, f = StartVisit(rest, call.tab, page, nav)
    PROVE  Heard(f, call)
<1>1. ExtensionKept(rest, visits) /\ Len(rest.calls) >= Len(rest.calls)
  BY ReceivedFacts
<1>2. /\ ExtensionKept(f, visits)
      /\ \A lost : LostKept(rest, lost) => LostKept(f, lost)
      /\ \A tab \in Tabs : KnownKept(rest, visits, tab, front, shows[tab]) =>
            \/ KnownKept(f, visits, tab, front, shows[tab])
            \/ tab = call.tab /\ Late(f, call)
  BY <1>1, AskedIsHeard
<1>3. ASSUME NEW lost, LostKept(extension, lost) PROVE LostKept(f, lost)
  BY <1>2, <1>3, ReceivedFacts
<1>4. ASSUME NEW tab \in Tabs, KnownKept(extension, visits, tab, front, shows[tab])
      PROVE  KnownKept(rest, visits, tab, front, shows[tab])
  BY <1>4, RestIsKnown
<1> QED
  BY <1>2, <1>3, <1>4 DEF Heard

\* handleNavigation and revalidateTabOnce take in an answer.
LEMMA EvaluateIsHeard ==
    ASSUME NEW call, NEW rest, Received(call, rest), call.kind = "evaluate",
           NEW f, f = AfterEvaluate(rest, call)
    PROVE  Heard(f, call)
<1>1. ~Began(call) /\ call.tab \in Tabs /\ call.nav \in Nat
  BY ReceivedFacts DEF Began
<1>2. CASE f = rest
  BY <1>1, <1>2, RestIsHeard
<1>3. CASE f = EndVisit(rest, call.tab)
  BY <1>1, <1>3, EndedIsHeard
<1>4. CASE call.page \in Metered /\ f = StartVisit(rest, call.tab, call.page, call.nav)
  BY <1>1, <1>4, AskedAfterRest
<1> DEFINE ended == EndVisit(rest, call.tab)
<1>5. CASE /\ call.page \in Metered /\ rest.active[call.tab] # None
           /\ f = WithNext(ended, call.page)
  <2>1. Heard(ended, call) /\ VisitsEnded(rest, ended, visits, {call.tab})
    BY <1>1, EndedIsHeard
  <2> HIDE DEF ended
  <2>2. ExtensionKept(ended, visits) /\ Len(rest.calls) < Len(ended.calls)
    BY <1>1, <1>5, <2>1 DEF VisitsEnded
  <2>3. Len(ended.calls) \in DOMAIN ended.calls
    <3>1. Len(ended.calls) \in Nat /\ DOMAIN ended.calls = 1..Len(ended.calls)
      BY <2>2, ExtensionFields DEF ExtensionKept
    <3> QED
      BY <2>2, <3>1, ReceivedFacts
  <2>5. /\ ExtensionKept(f, visits) /\ f.active = ended.active /\ f.pending = ended.pending
        /\ \A lost : LostKept(ended, lost) => LostKept(f, lost)
        /\ \A tab \in Tabs : \A id \in Nat : Accounted(ended, id, tab) => Accounted(f, id, tab)
    BY <1>5, <2>2, <2>3, EndedThenNext
  <2>6. ASSUME NEW tab \in Tabs, KnownKept(extension, visits, tab, front, shows[tab])
        PROVE  KnownKept(f, visits, tab, front, shows[tab])
    <3>1. KnownKept(rest, visits, tab, front, shows[tab])
      BY <1>1, <2>6, RestIsKnown
    <3>2. KnownKept(ended, visits, tab, front, shows[tab])
      BY <2>1, <3>1, KnownIsAccounted, EndedIsKnown, ReceivedFacts
    <3>3. \A id \in Open(visits, tab) : id \in Nat /\ Accounted(ended, id, tab)
      BY <3>2, OpenType, ReceivedFacts DEF KnownKept
    <3> QED
      BY <2>5, <3>2, <3>3 DEF KnownKept
  <2> QED
    BY <2>1, <2>5, <2>6 DEF Heard
<1>6. \/ f = rest \/ f = EndVisit(rest, call.tab)
      \/ call.page \in Metered /\ f = StartVisit(rest, call.tab, call.page, call.nav)
      \/ /\ call.page \in Metered /\ rest.active[call.tab] # None
         /\ f = WithNext(ended, call.page)
  BY DEF AfterEvaluate, WithNext
<1> QED
  BY <1>2, <1>3, <1>4, <1>5, <1>6

\* startVisitForTab and startVisitForNavigation take in an answer.
LEMMA StartIsHeard ==
    ASSUME NEW call, NEW rest, Received(call, rest), call.kind = "start",
           NEW f, f = AfterStart(rest, call)
    PROVE  Heard(f, call)
<1>1. /\ call.tab \in Tabs /\ call.page \in Metered /\ rest.pending = extension.pending
      /\ rest.active = extension.active /\ ExtensionKept(rest, visits)
      /\ rest \in ExtensionRecord
  <2>1. /\ call.tab \in Tabs /\ rest.pending = extension.pending
        /\ rest.active = extension.active /\ ExtensionKept(rest, visits)
    BY ReceivedFacts
  <2>2. CallKept(call, visits)
    BY RestIsKept DEF Received
  <2> QED
    BY <2>1, <2>2 DEF CallKept, ExtensionKept
<1>2. /\ rest.active \in [Tabs -> [visit : Nat, page : Metered] \cup {None}]
      /\ rest.pending \in [Tabs -> Metered \cup {None}]
  BY <1>1, ExtensionFields
<1> DEFINE pending == [rest.pending EXCEPT ![call.tab] = None]
           visit == [visit |-> call.answer, page |-> call.page]
           active == [rest.active EXCEPT ![call.tab] =
                         IF call.answer = Failed THEN rest.active[call.tab] ELSE visit]
           asked == [rest EXCEPT !.pending = pending, !.active = active]
           known == IF rest.pending[call.tab] # call.page THEN rest ELSE asked
<1>3. \/ f = known
      \/ call.answer # Failed /\ f = EndVisit(known, call.tab)
  <2>1. [rest EXCEPT !.pending[call.tab] = None,
                     !.active[call.tab] = IF call.answer = Failed THEN @
                                          ELSE [visit |-> call.answer, page |-> call.page]] = asked
    OBVIOUS
  <2> QED
    BY <2>1 DEF AfterStart
<1>4. call.answer = Failed => ~Began(call)
  BY DEF Began
<1>5. call.answer # Failed => Began(call)
  BY DEF Began, Received
<1>6. ASSUME Began(call)
      PROVE  /\ RowOf(visits, call.answer, call.tab, call.page) /\ call.answer \in Nat
             /\ \A n \in DOMAIN rest.calls :
                   Began(rest.calls[n]) => call.answer < rest.calls[n].answer
  <2>1. RowOf(visits, call.answer, call.tab, call.page)
        /\ \A n \in DOMAIN rest.calls :
                   Began(rest.calls[n]) => call.answer < rest.calls[n].answer
    BY <1>6, RestIsKept DEF Received, CallKept
  <2>2. DOMAIN visits \subseteq Nat
    BY ReceivedFacts
  <2> QED
    BY <2>1, <2>2 DEF RowOf
<1>7. active \in [Tabs -> [visit : Nat, page : Metered] \cup {None}]
      /\ pending \in [Tabs -> Metered \cup {None}]
  <2>1. call.answer # Failed => visit \in [visit : Nat, page : Metered]
    BY <1>1, <1>5, <1>6
  <2> QED
    BY <1>1, <1>2, <2>1
<1>8. /\ \A tab \in Tabs \ {call.tab} : active[tab] = rest.active[tab] /\ pending[tab] = rest.pending[tab]
      /\ pending[call.tab] = None
      /\ active[call.tab] = IF call.answer = Failed THEN rest.active[call.tab] ELSE visit
  BY <1>1, <1>2
<1>9. visit.visit = call.answer /\ visit.page = call.page
  OBVIOUS
<1> HIDE DEF pending, active, visit
<1>10. asked \in ExtensionRecord /\ asked.active = active /\ asked.pending = pending
       /\ asked.calls = rest.calls
  BY <1>1, <1>7 DEF ExtensionRecord
<1> HIDE DEF asked
<1>11. ExtensionKept(asked, visits)
  <2>1. ASSUME NEW tab \in Tabs PROVE ActiveKept(asked, visits, tab)
    <3>1. ActiveKept(rest, visits, tab)
      BY <1>1 DEF ExtensionKept
    <3>2. CASE tab = call.tab /\ call.answer # Failed
      BY <1>5, <1>6, <1>8, <1>9, <1>10, <3>2 DEF ActiveKept
    <3>3. CASE ~(tab = call.tab /\ call.answer # Failed)
      <4>1. asked.active[tab] = rest.active[tab]
        BY <1>8, <1>10, <3>3
      <4> QED
        BY <1>10, <3>1, <4>1 DEF ActiveKept
    <3> QED
      BY <3>2, <3>3
  <2> QED
    BY <1>1, <1>10, <2>1 DEF ExtensionKept
<1>12. ASSUME NEW lost, LostKept(extension, lost) PROVE LostKept(known, lost)
  BY <1>10, <1>12, ReceivedFacts DEF LostKept
<1>13. ExtensionKept(known, visits)
  BY <1>1, <1>11
<1>14. ASSUME NEW tab \in Tabs, KnownKept(extension, visits, tab, front, shows[tab]),
              ~(tab = call.tab /\ Ignored(call))
       PROVE  KnownKept(known, visits, tab, front, shows[tab])
  <2>1. CASE ~(Began(call) /\ call.tab = tab)
    <3>1. KnownKept(rest, visits, tab, front, shows[tab])
      BY <1>14, <2>1, RestIsKnown
    <3>2. KnownKept(asked, visits, tab, front, shows[tab])
      <4>1. asked.active[tab] = rest.active[tab] /\ asked.pending[tab] \in {None, rest.pending[tab]}
        BY <1>5, <1>8, <1>10, <2>1
      <4>2. asked.calls = rest.calls
        BY <1>10
      <4> QED
        BY <3>1, <4>1, <4>2 DEF KnownKept, Accounted
    <3> QED
      BY <3>1, <3>2
  <2>2. CASE Began(call) /\ call.tab = tab
    <3>1. call.answer # Failed /\ known = asked /\ extension.pending[tab] = call.page
      BY <1>1, <1>4, <1>14, <2>2 DEF Ignored
    <3>2. /\ asked.active[tab] # None /\ asked.active[tab].visit = call.answer
          /\ asked.active[tab].page = call.page /\ asked.pending[tab] = None
      <4>1. visit # None
        BY <1>1, <1>6, <2>2, VisitTypes DEF visit
      <4> QED
        BY <1>8, <1>9, <1>10, <2>2, <3>1, <4>1
    <3>3. front = tab /\ shows[tab] = call.page
      BY <1>1, <1>14, <3>1, VisitTypes DEF KnownKept
    <3>4. ASSUME NEW id \in Open(visits, tab) PROVE Accounted(asked, id, tab)
      <4>1. id \in Nat /\ Accounted(extension, id, tab) /\ id \in DOMAIN visits
            /\ visits[id].tab = tab /\ visits[id].end = None
        BY <1>14, OpenType, ReceivedFacts DEF KnownKept, Open
      <4>2. CASE id = call.answer
        BY <3>2, <4>2 DEF Accounted
      <4>3. CASE id # call.answer
        <5>1. Accounted(rest, id, tab)
          BY <2>2, <4>1, <4>3, RestIsKept DEF Received
        <5>2. ~(rest.active[tab] # None /\ rest.active[tab].visit = id)
          <6> SUFFICES ASSUME rest.active[tab] # None, rest.active[tab].visit = id PROVE FALSE
            OBVIOUS
          <6>1. id < call.answer
            BY <1>1, <2>2, RestIsKept DEF Received
          <6>2. call.answer \in DOMAIN visits /\ visits[call.answer].tab = tab
            BY <1>6, <2>2 DEF RowOf
          <6>3. RowsKept(visits, clock)
            BY DEF Received, VisitsKept
          <6> QED
            BY <4>1, <6>1, <6>2, <6>3 DEF RowsKept
        <5> QED
          BY <1>10, <5>1, <5>2 DEF Accounted
      <4> QED
        BY <4>2, <4>3
    <3> QED
      BY <3>1, <3>2, <3>3, <3>4 DEF KnownKept
  <2> QED
    BY <2>1, <2>2
<1> HIDE DEF known
<1>15. CASE f = known
  BY <1>12, <1>13, <1>14, <1>15 DEF Heard
<1>16. CASE call.answer # Failed /\ f = EndVisit(known, call.tab)
  <2>1. VisitsEnded(known, f, visits, {call.tab})
    BY <1>13, <1>16, EndVisitsEnds DEF EndVisit
  <2>2. ExtensionKept(f, visits)
    BY <2>1 DEF VisitsEnded
  <2>3. ASSUME NEW lost, LostKept(extension, lost) PROVE LostKept(f, lost)
    BY <1>12, <2>1, <2>3, EndedIsLostKept
  <2>4. ASSUME NEW tab \in Tabs, KnownKept(extension, visits, tab, front, shows[tab]),
               ~(tab = call.tab /\ Ignored(call))
        PROVE  KnownKept(f, visits, tab, front, shows[tab])
    BY <1>14, <2>1, <2>4, KnownIsAccounted, EndedIsKnown, ReceivedFacts
  <2> QED
    BY <2>2, <2>3, <2>4 DEF Heard
<1> QED
  BY <1>3, <1>15, <1>16

LEMMA ReceiveKeepsVisits == ASSUME VisitsKept, Receive PROVE VisitsKept'
<1> DEFINE call == Head(extension.calls)
           rest == [extension EXCEPT !.calls = Tail(extension.calls)]
           next == CASE call.kind = "evaluate" -> AfterEvaluate(rest, call)
                     [] call.kind = "start" -> AfterStart(rest, call)
                     [] call.kind = "end" /\ call.next # None ->
                            StartVisit(rest, call.tab, call.next, 0)
                     [] OTHER -> rest
<1>1. /\ extension.calls # <<>> /\ call.answer # None
      /\ \/ extension' = next /\ UNCHANGED shows
         \/ /\ MayBlock(call)
            /\ shows' = [shows EXCEPT ![call.tab] = Blocked]
            /\ extension' = IF call.nav = 0 THEN [next EXCEPT !.active[call.tab] = None] ELSE next
      /\ unknown' = IF Ignored(call) \/ Late(next, call) THEN unknown \cup {call.tab} ELSE unknown
      /\ UNCHANGED <<clock, front, visits, budget, watched>>
  BY DEF Receive, Ignored, Late
<1>2. Received(call, rest)
  BY <1>1 DEF Received
<1> DEFINE others == ~(call.kind = "evaluate" \/ call.kind = "start")
<1>3. /\ call.kind = "evaluate" => next = AfterEvaluate(rest, call)
      /\ call.kind = "start" => next = AfterStart(rest, call)
      /\ others => \/ next = rest
                   \/ call.next # None /\ next = StartVisit(rest, call.tab, call.next, 0)
  <2> HIDE DEF rest, call
  <2> QED
    OBVIOUS
<1> HIDE DEF call, rest, next
<1>4. Heard(next, call)
  <2>1. CASE call.kind = "evaluate"
    BY <1>2, <1>3, <2>1, EvaluateIsHeard
  <2>2. CASE call.kind = "start"
    BY <1>2, <1>3, <2>2, StartIsHeard
  <2>3. CASE others
    <3>1. ~Began(call) /\ call.next \in Metered \cup {None} /\ 0 \in Nat
      BY <1>2, <2>3, ReceivedFacts DEF Began
    <3>2. CASE next = rest
      BY <1>2, <3>1, <3>2, RestIsHeard
    <3>3. CASE call.next # None /\ next = StartVisit(rest, call.tab, call.next, 0)
      BY <1>2, <3>1, <3>3, AskedAfterRest
    <3> QED
      BY <1>3, <2>3, <3>2, <3>3
  <2> QED
    BY <2>1, <2>2, <2>3
<1>5. /\ unknown \subseteq unknown' /\ unknown' \subseteq Tabs /\ call.tab \in Tabs
      /\ Ignored(call) \/ Late(next, call) => call.tab \in unknown'
  <2>1. unknown \subseteq Tabs /\ call.tab \in Tabs
    BY <1>2, ReceivedFacts DEF VisitsKept, SurroundingsKept
  <2> QED
    BY <1>1, <2>1
<1>6. /\ ExtensionKept(next, visits)
      /\ \A lost : LostKept(extension, lost) => LostKept(next, lost)
      /\ \A tab \in Tabs \ unknown' : KnownKept(extension, visits, tab, front, shows[tab]) =>
            KnownKept(next, visits, tab, front, shows[tab])
  BY <1>4, <1>5 DEF Heard
<1>7. SurroundingsKept'
  <2>1. shows' \in [Tabs -> Pages \cup {Blocked, None}]
    BY <1>1, <1>5, VisitsFacts
  <2> QED
    BY <1>1, <1>5, <2>1 DEF VisitsKept, SurroundingsKept
<1>8. CASE extension' = next /\ UNCHANGED shows
  BY <1>1, <1>5, <1>6, <1>7, <1>8, RowsUntouched
<1>9. CASE /\ MayBlock(call)
           /\ shows' = [shows EXCEPT ![call.tab] = Blocked]
           /\ extension' = IF call.nav = 0 THEN [next EXCEPT !.active[call.tab] = None] ELSE next
  <2>1. call.tab \in unknown
    <3>1. call.answer = Failed
      BY <1>9 DEF MayBlock
    <3>2. LostKept(extension, unknown)
      BY DEF VisitsKept
    <3> QED
      BY <1>2, <3>1, <3>2, RestIsKept DEF Received
  <2>2. /\ ExtensionKept(extension', visits)
        /\ \A lost : LostKept(next, lost) => LostKept(extension', lost)
        /\ \A tab \in Tabs \ {call.tab} : \A id \in Nat :
              Accounted(next, id, tab) => Accounted(extension', id, tab)
        /\ \A tab \in Tabs \ {call.tab} : extension'.active[tab] = next.active[tab]
        /\ extension'.pending = next.pending
    <3>1. CASE extension' = next
      BY <1>6, <3>1
    <3>2. CASE extension' = [next EXCEPT !.active[call.tab] = None]
      <4> DEFINE active == [next.active EXCEPT ![call.tab] = None]
      <4>1. next \in ExtensionRecord
            /\ next.active \in [Tabs -> [visit : Nat, page : Metered] \cup {None}]
            /\ Len(next.calls) \in Nat
        BY <1>6, ExtensionFields DEF ExtensionKept
      <4>2. active \in [Tabs -> [visit : Nat, page : Metered] \cup {None}]
            /\ active[call.tab] = None /\ \A tab \in Tabs \ {call.tab} : active[tab] = next.active[tab]
        BY <1>5, <4>1
      <4>3. extension' = [next EXCEPT !.active = active]
        BY <3>2
      <4> HIDE DEF active
      <4>4. extension' \in ExtensionRecord /\ extension'.active = active
            /\ extension'.calls = next.calls /\ extension'.pending = next.pending
        BY <4>1, <4>2, <4>3 DEF ExtensionRecord
      <4>5. Sent(next, extension', visits)
        BY <4>1, <4>2, <4>4 DEF Sent
      <4>6. ExtensionKept(extension', visits) /\ \A lost : LostKept(next, lost) => LostKept(extension', lost)
        BY <1>6, <4>5, SentIsKept, SentIsLostKept
      <4>7. ASSUME NEW tab \in Tabs \ {call.tab}, NEW id \in Nat, Accounted(next, id, tab)
            PROVE  Accounted(extension', id, tab)
        BY <1>6, <4>2, <4>4, <4>5, <4>7, SentAccounts
      <4> QED
        BY <4>2, <4>4, <4>6, <4>7
    <3> QED
      BY <1>9, <3>1, <3>2
  <2>3. ASSUME NEW tab \in Tabs \ unknown', KnownKept(extension, visits, tab, front, shows[tab])
        PROVE  KnownKept(extension', visits, tab, front', shows'[tab])
    <3>1. tab # call.tab /\ shows'[tab] = shows[tab] /\ front' = front
      BY <1>1, <1>5, <1>9, <2>1, <2>3, VisitsFacts
    <3>2. KnownKept(next, visits, tab, front, shows[tab])
      BY <1>6, <2>3
    <3>3. \A id \in Open(visits, tab) : id \in Nat /\ Accounted(next, id, tab)
      BY <3>2, OpenType, VisitsFacts DEF KnownKept
    <3> QED
      BY <2>2, <2>3, <3>1, <3>2, <3>3 DEF KnownKept
  <2> QED
    BY <1>1, <1>5, <1>6, <1>7, <2>2, <2>3, RowsUntouched
<1> QED
  BY <1>1, <1>8, <1>9

-------------------------------------------------------------------------------
(* Every step.                                                               *)

LEMMA VisitsKeptFromInit == VisitsInit => VisitsKept
<1> SUFFICES ASSUME VisitsInit PROVE VisitsKept
  OBVIOUS
<1>1. /\ clock = 0 /\ shows = Always(Plain) /\ front \in Tabs /\ visits = <<>>
      /\ extension = [active |-> Always(None), pending |-> Always(None), token |-> Always(0),
                      calls |-> <<>>]
      /\ budget = [moves |-> MaxMoves, faults |-> MaxFaults]
      /\ watched = Always(0) /\ unknown = {}
  BY DEF VisitsInit
<1>2. SurroundingsKept
  <2>1. MaxClock \in Nat /\ MaxMoves \in Nat /\ MaxFaults \in Nat
    BY VisitsAssumption
  <2>2. /\ shows \in [Tabs -> Pages \cup {Blocked, None}] /\ watched \in [Tabs -> 0..clock]
        /\ budget \in [moves : 0..MaxMoves, faults : 0..MaxFaults]
    BY <1>1, <2>1 DEF Always, Pages
  <2> QED
    BY <1>1, <2>1, <2>2 DEF SurroundingsKept
<1>3. RowsKept(visits, clock)
  BY <1>1 DEF RowsKept
<1>4. /\ extension.active = Always(None) /\ extension.pending = Always(None)
      /\ extension.calls = <<>> /\ extension \in ExtensionRecord
  BY <1>1 DEF ExtensionRecord, Always
<1>5. ExtensionKept(extension, visits) /\ LostKept(extension, unknown)
  BY <1>4 DEF ExtensionKept, ActiveKept, QueueKept, LostKept, Always
<1>6. ASSUME NEW tab \in Tabs
      PROVE  /\ KnownKept(extension, visits, tab, front, shows[tab])
             /\ Total(Lasted(visits, tab, clock)) <= watched[tab]
  <2>1. KnownKept(extension, visits, tab, front, shows[tab])
    BY <1>1, <1>4 DEF KnownKept, Always, Open
  <2> DEFINE lasted == Lasted(visits, tab, clock)
  <2>2. lasted \in Seq(Int) /\ Len(lasted) = 0
    BY <1>1, <1>3, LastedType
  <2> HIDE DEF lasted
  <2>3. Total(lasted) = 0
    <3>1. \A n \in 1..Len(lasted) : lasted[n] = 0
      BY <2>2
    <3> QED
      BY <2>2, <3>1, TotalOfZeros
  <2> QED
    BY <1>1, <2>1, <2>3 DEF Always, lasted
<1> QED
  BY <1>2, <1>3, <1>5, <1>6 DEF VisitsKept

LEMMA VisitsAreKept == ASSUME VisitsKept, [VisitsNext]_visitVars PROVE VisitsKept'
<1>1. ASSUME NEW tab \in Tabs, NEW page \in Pages, Navigate(tab, page) PROVE VisitsKept'
  BY <1>1, NavigateKeepsVisits
<1>2. ASSUME NEW tab \in Tabs, NavigateUnhealthy(tab) PROVE VisitsKept'
  BY <1>2, NavigateUnhealthyKeepsVisits
<1>3. ASSUME NEW tab \in Tabs, Activate(tab) PROVE VisitsKept'
  BY <1>3, ActivateKeepsVisits
<1>4. ASSUME NEW tab \in Tabs, CloseTab(tab) PROVE VisitsKept'
  BY <1>4, CloseTabKeepsVisits
<1>5. CASE Revalidate
  BY <1>5, RevalidateKeepsVisits
<1>6. CASE Heartbeat
  BY <1>6, HeartbeatKeepsVisits
<1>7. CASE Handle
  BY <1>7, HandleKeepsVisits
<1>8. CASE Fail
  BY <1>8, FailKeepsVisits
<1>9. CASE Receive
  BY <1>9, ReceiveKeepsVisits
<1>10. CASE VisitTick
  BY <1>10, TickKeepsVisits
<1>11. ASSUME NEW browser \in BOOLEAN, Restart(browser) PROVE VisitsKept'
  BY <1>11, RestartKeepsVisits
<1>12. CASE UNCHANGED visitVars
  <2>1. SurroundingsKept'
    BY <1>12 DEF visitVars, VisitsKept, SurroundingsKept
  <2>2. UNCHANGED <<clock, visits, watched, extension, unknown, front, shows>>
    BY <1>12 DEF visitVars
  <2> QED
    BY <2>1, <2>2, RowsUntouched, VisitsFacts
<1> QED
  BY <1>1, <1>2, <1>3, <1>4, <1>5, <1>6, <1>7, <1>8, <1>9, <1>10, <1>11, <1>12 DEF VisitsNext

\* A row is charged no more than it lasted.
LEMMA ChargedLasted ==
    ASSUME VisitsKept, NEW tab \in Tabs
    PROVE  Charged(tab) \in Int /\ Charged(tab) <= Total(Lasted(visits, tab, clock))
<1>1. clock \in Nat /\ RowsKept(visits, clock)
  BY VisitsAssumption DEF VisitsKept, SurroundingsKept
<1>2. /\ visits \in Seq(Row) /\ Len(visits) \in Nat /\ DOMAIN visits = 1..Len(visits)
      /\ \A id \in 1..Len(visits) : visits[id] \in Row /\ Timely(visits[id], clock)
  BY <1>1 DEF RowsKept
<1> DEFINE amount(id) == IF visits[id].tab = tab THEN Charge(visits[id]) ELSE 0
           charges == [id \in 1..Len(visits) |-> amount(id)]
           lasted == Lasted(visits, tab, clock)
<1>3. /\ lasted \in Seq(Int) /\ Len(lasted) = Len(visits)
      /\ \A id \in 1..Len(visits) :
            lasted[id] = IF visits[id].tab = tab
                         THEN (IF visits[id].end = None THEN clock ELSE visits[id].end)
                              - visits[id].start
                         ELSE 0
  BY <1>1, LastedType
<1>4. ASSUME NEW id \in 1..Len(visits) PROVE amount(id) \in Int /\ amount(id) <= lasted[id]
  <2>1. /\ visits[id].start \in Nat /\ visits[id].seen \in Nat
        /\ visits[id].end # None => visits[id].end \in Nat
    BY <1>2 DEF Row
  <2>2. visits[id].seen <= clock
    BY <1>2 DEF Timely
  <2> QED
    BY <1>1, <1>3, <2>1, <2>2 DEF Charge
<1> HIDE DEF amount, lasted
<1>5. charges \in [1..Len(visits) -> Int] /\ \A id \in 1..Len(visits) : charges[id] = amount(id)
  BY <1>4
<1>6. charges \in Seq(Int) /\ Len(charges) = Len(visits)
  BY <1>2, <1>5
<1> HIDE DEF charges
<1>7. Total(charges) \in Int /\ Total(charges) <= Total(lasted)
  BY <1>3, <1>4, <1>5, <1>6, TotalIsMonotone, TotalType
<1>8. Charged(tab) = Total(charges)
  BY <1>2 DEF Charged, charges, amount
<1> QED
  BY <1>7, <1>8 DEF lasted

LEMMA VisitsKeptImplies == VisitsKept => VisitsInvariant
<1> SUFFICES ASSUME VisitsKept PROVE VisitsInvariant
  OBVIOUS
<1>1. SurroundingsKept /\ RowsKept(visits, clock) /\ ExtensionKept(extension, visits)
  BY DEF VisitsKept
<1>2. VisitsTypeOK
  <2>1. ASSUME NEW tab \in Tabs, extension.active[tab] # None
        PROVE  /\ extension.active[tab].visit \in VisitsOf(tab)
               /\ visits[extension.active[tab].visit].page = extension.active[tab].page
    BY <1>1, <2>1 DEF ExtensionKept, ActiveKept, RowOf, VisitsOf
  <2>2. ASSUME NEW tab \in Tabs
        PROVE  /\ shows[tab] \in Pages \cup {Blocked, None} /\ watched[tab] \in 0..clock
               /\ extension.pending[tab] \in Metered \cup {None}
    BY <1>1, VisitsFacts DEF SurroundingsKept
  <2> QED
    BY <1>1, <2>1, <2>2 DEF VisitsTypeOK, SurroundingsKept
<1>3. TabChargedOnce
  BY <1>1 DEF TabChargedOnce, RowsKept, VisitsOf
<1>4. ASSUME NEW tab \in Tabs \ unknown PROVE Charged(tab) <= watched[tab]
  <2>1. Charged(tab) \in Int /\ Charged(tab) <= Total(Lasted(visits, tab, clock))
    BY ChargedLasted
  <2>2. Total(Lasted(visits, tab, clock)) <= watched[tab]
    BY DEF VisitsKept
  <2>3. clock \in Nat
    BY <1>1, VisitsAssumption DEF SurroundingsKept
  <2>4. Total(Lasted(visits, tab, clock)) \in Int /\ watched[tab] \in Int
    BY <1>1, <2>3, LastedType, TotalType DEF SurroundingsKept
  <2> QED
    BY <2>1, <2>2, <2>4
<1> QED
  BY <1>2, <1>3, <1>4 DEF VisitsInvariant, KnownChargeWasWatched

\* For all tabs, pages and moves, whatever calls are lost and whatever is started again: a
\* tab's time is charged once, and, where the extension has always known its visits, only
\* when a metered page of it was in front.
THEOREM WatchedTimeIsCharged == VisitsSpec => []VisitsInvariant
<1>1. VisitsInit => VisitsKept
  BY VisitsKeptFromInit
<1>2. VisitsKept /\ [VisitsNext]_visitVars => VisitsKept'
  BY VisitsAreKept
<1>3. VisitsKept => VisitsInvariant
  BY VisitsKeptImplies
<1> QED
  BY <1>1, <1>2, <1>3, PTL DEF VisitsSpec

-------------------------------------------------------------------------------
(* Schedules: days and minutes.                                              *)

LEMMA Lengths ==
    /\ DayLength \in Nat \ {0} /\ WeekLength \in Nat \ {0} /\ RepairInterval \in Nat \ {0}
    /\ None \notin Int
BY ScheduleAssumption

LEMMA NoneIsNoRecord ==
    None \notin [done : Int, from : Int, to : Int] /\ None \notin [total : Int, until : Int]
BY ScheduleAssumption

LEMMA DayOfMinute ==
    ASSUME NEW t \in Int
    PROVE  /\ Day(t) \in Int /\ OfDay(t) \in 0..DayLength - 1
           /\ t = Day(t) * DayLength + OfDay(t)
BY Lengths DEF Day, OfDay

LEMMA LongerDays ==
    ASSUME NEW a \in Int, NEW b \in Int, a <= b
    PROVE  /\ a * DayLength \in Int /\ b * DayLength \in Int
           /\ a * DayLength <= b * DayLength
BY Lengths

LEMMA NextDayBegins ==
    ASSUME NEW a \in Int
    PROVE  /\ a * DayLength \in Int /\ (a + 1) * DayLength = a * DayLength + DayLength
           /\ (a - 1) * DayLength = a * DayLength - DayLength
BY Lengths

\* A minute is of one day.
LEMMA OneDay ==
    ASSUME NEW day \in Int, NEW t \in Int,
           day * DayLength <= t, t < (day + 1) * DayLength
    PROVE  Day(t) = day /\ OfDay(t) = t - day * DayLength
<1> DEFINE q == Day(t)
<1>1. /\ q \in Int /\ OfDay(t) \in 0..DayLength - 1 /\ t = q * DayLength + OfDay(t)
      /\ DayLength \in Nat \ {0}
  BY DayOfMinute, Lengths
<1> HIDE DEF q
<1>2. (q + 1) * DayLength = q * DayLength + DayLength
  BY <1>1, NextDayBegins
<1>3. ~(q + 1 <= day)
  <2>1. q + 1 <= day => (q + 1) * DayLength <= day * DayLength
    BY <1>1, LongerDays
  <2>2. (q + 1) * DayLength \in Int /\ day * DayLength \in Int /\ q * DayLength \in Int
    BY <1>1
  <2> QED
    BY <1>1, <1>2, <2>1, <2>2
<1>4. ~(day + 1 <= q)
  <2>1. day + 1 <= q => (day + 1) * DayLength <= q * DayLength
    BY <1>1, LongerDays
  <2>2. (day + 1) * DayLength \in Int /\ q * DayLength \in Int
    BY <1>1
  <2> QED
    BY <1>1, <2>1, <2>2
<1>5. q = day
  BY <1>1, <1>3, <1>4
<1> QED
  BY <1>1, <1>5 DEF q

\* The next minute is of the same day, or begins the next one.
LEMMA NextMinute ==
    ASSUME NEW t \in Int
    PROVE  \/ Day(t + 1) = Day(t) /\ OfDay(t + 1) = OfDay(t) + 1
           \/ Day(t + 1) = Day(t) + 1 /\ OfDay(t + 1) = 0 /\ OfDay(t) = DayLength - 1
<1> DEFINE day == Day(t)
<1>1. /\ day \in Int /\ OfDay(t) \in 0..DayLength - 1 /\ t = day * DayLength + OfDay(t)
      /\ DayLength \in Nat \ {0} /\ day * DayLength \in Int
  BY DayOfMinute, Lengths
<1> HIDE DEF day
<1>2. /\ (day + 1) * DayLength = day * DayLength + DayLength
      /\ (day + 1 + 1) * DayLength = (day + 1) * DayLength + DayLength
  BY <1>1, NextDayBegins
<1>3. CASE OfDay(t) < DayLength - 1
  <2>1. day * DayLength <= t + 1 /\ t + 1 < (day + 1) * DayLength
    BY <1>1, <1>2, <1>3
  <2>2. Day(t + 1) = day /\ OfDay(t + 1) = t + 1 - day * DayLength
    BY <1>1, <2>1, OneDay
  <2>3. OfDay(t + 1) = OfDay(t) + 1
    BY <1>1, <2>2
  <2> QED
    BY <2>2, <2>3 DEF day
<1>4. CASE OfDay(t) = DayLength - 1
  <2>1. t + 1 = (day + 1) * DayLength
    BY <1>1, <1>2, <1>4
  <2> DEFINE next == day + 1
  <2>2. /\ next \in Int /\ next * DayLength \in Int /\ t + 1 = next * DayLength
        /\ next * DayLength <= t + 1 /\ t + 1 < (next + 1) * DayLength
    BY <1>1, <1>2, <2>1
  <2> HIDE DEF next
  <2>3. Day(t + 1) = next /\ OfDay(t + 1) = t + 1 - next * DayLength
    BY <2>2, OneDay
  <2>4. OfDay(t + 1) = 0
    BY <2>2, <2>3
  <2> QED
    BY <1>4, <2>3, <2>4 DEF day, next
<1> QED
  BY <1>1, <1>3, <1>4

LEMMA LaterDays ==
    ASSUME NEW t \in Int, NEW u \in Int, t <= u
    PROVE  Day(t) <= Day(u)
<1> DEFINE a == Day(t)
           b == Day(u)
<1>4. /\ a \in Int /\ b \in Int /\ OfDay(t) \in 0..DayLength - 1 /\ OfDay(u) \in 0..DayLength - 1
      /\ t = a * DayLength + OfDay(t) /\ u = b * DayLength + OfDay(u)
  BY DayOfMinute
<1> HIDE DEF a, b
<1>1. /\ a \in Int /\ b \in Int /\ OfDay(t) \in 0..DayLength - 1 /\ OfDay(u) \in 0..DayLength - 1
      /\ t = a * DayLength + OfDay(t) /\ u = b * DayLength + OfDay(u)
      /\ DayLength \in Nat \ {0} /\ a * DayLength \in Int /\ b * DayLength \in Int
  BY <1>4, Lengths
<1>2. b + 1 <= a => (b + 1) * DayLength <= a * DayLength
  BY <1>1, LongerDays
<1>3. (b + 1) * DayLength = b * DayLength + DayLength
  BY <1>1, NextDayBegins
<1> QED
  BY <1>1, <1>2, <1>3 DEF a, b

LEMMA NatDays == ASSUME NEW t \in Nat PROVE Day(t) \in Nat
<1>1. 0 * DayLength <= 0 /\ 0 < (0 + 1) * DayLength
  BY Lengths
<1>2. Day(0) = 0
  BY <1>1, OneDay
<1> QED
  BY <1>2, LaterDays, DayOfMinute

\* Weekdays come again with each week.
LEMMA Weekdays ==
    ASSUME NEW day \in Int
    PROVE  /\ Weekday(day) \in 0..WeekLength - 1
           /\ \E weeks \in Int : day = weeks * WeekLength + Weekday(day)
<1>1. Weekday(day) \in 0..WeekLength - 1
  BY Lengths DEF Weekday
<1>2. day = (day \div WeekLength) * WeekLength + Weekday(day) /\ day \div WeekLength \in Int
  BY Lengths DEF Weekday
<1> QED
  BY <1>1, <1>2

-------------------------------------------------------------------------------
(* Schedules: a window holds in the intervals of its days.                   *)

\* A window as the configuration may have it.
Proper(w) == w \in ScheduleWindow /\ w.start # w.end

Covers(s, t) == s.from <= t /\ t < s.to

LEMMA WindowFields ==
    ASSUME NEW w, Proper(w)
    PROVE  /\ w.start \in 0..DayLength - 1 /\ w.end \in 0..DayLength - 1 /\ w.start # w.end
           /\ w.days \subseteq 0..WeekLength - 1
BY DEF Proper, ScheduleWindow

\* The interval of a window on a day begins on that day and ends on it or on the next one.
LEMMA SpanOf ==
    ASSUME NEW w, Proper(w), NEW day \in Int
    PROVE  LET s == Span(w, day)
           IN  /\ s \in [from : Int, to : Int] /\ day * DayLength \in Int
               /\ s.from = day * DayLength + w.start /\ s.from < s.to
               /\ s.from < (day + 1) * DayLength /\ s.to < (day + 1 + 1) * DayLength
               /\ ~Overnight(w) => s.to = day * DayLength + w.end
               /\ Overnight(w) => s.to = (day + 1) * DayLength + w.end
<1>1. /\ w.start \in 0..DayLength - 1 /\ w.end \in 0..DayLength - 1 /\ w.start # w.end
      /\ DayLength \in Nat \ {0}
  BY WindowFields, Lengths
<1>2. /\ day * DayLength \in Int /\ (day + 1) * DayLength = day * DayLength + DayLength
      /\ (day + 1 + 1) * DayLength = (day + 1) * DayLength + DayLength
  BY NextDayBegins
<1>3. Span(w, day) = [from |-> day * DayLength + w.start,
                      to |-> (IF Overnight(w) THEN (day + 1) * DayLength
                              ELSE day * DayLength) + w.end]
  BY DEF Span
<1>4. Overnight(w) <=> w.start > w.end
  BY DEF Overnight
<1> QED
  BY <1>1, <1>2, <1>3, <1>4

LEMMA SpanBegins ==
    ASSUME NEW w, Proper(w), NEW day \in Int
    PROVE  /\ Span(w, day).from \in Int /\ Span(w, day).to \in Int
           /\ day * DayLength \in Int /\ (day + 1) * DayLength \in Int
           /\ day * DayLength <= Span(w, day).from /\ Span(w, day).from < (day + 1) * DayLength
           /\ Span(w, day).from < Span(w, day).to
           /\ Span(w, day).to < (day + 1) * DayLength + DayLength
<1> DEFINE s == Span(w, day)
<1>1. /\ s \in [from : Int, to : Int] /\ s.from = day * DayLength + w.start /\ s.from < s.to
      /\ s.from < (day + 1) * DayLength /\ s.to < (day + 1 + 1) * DayLength
  BY SpanOf
<1> HIDE DEF s
<1>2. /\ day * DayLength \in Int /\ (day + 1) * DayLength = day * DayLength + DayLength
      /\ (day + 1 + 1) * DayLength = (day + 1) * DayLength + DayLength /\ DayLength \in Nat
      /\ w.start \in Nat
  BY NextDayBegins, Lengths, WindowFields
<1>3. /\ s.from \in Int /\ s.to \in Int /\ (day + 1) * DayLength \in Int
      /\ day * DayLength <= s.from /\ s.to < (day + 1) * DayLength + DayLength
  BY <1>1, <1>2
<1> QED
  BY <1>1, <1>2, <1>3 DEF s

LEMMA SpanHolds ==
    ASSUME NEW w, Proper(w), NEW t \in Int, InWindow(w, t)
    PROVE  \E day \in {Day(t) - 1, Day(t)} : Weekday(day) \in w.days /\ Covers(Span(w, day), t)
<1> DEFINE today == Day(t)
<1>1. /\ today \in Int /\ OfDay(t) \in 0..DayLength - 1 /\ t = today * DayLength + OfDay(t)
      /\ DayLength \in Nat \ {0}
  BY DayOfMinute, Lengths
<1>2. /\ w.start \in 0..DayLength - 1 /\ w.end \in 0..DayLength - 1
  BY WindowFields
<1>3. CASE Weekday(today) \in w.days /\ OfDay(t) >= w.start /\ (~Overnight(w) => OfDay(t) < w.end)
  <2> HIDE DEF today
  <2> DEFINE s == Span(w, today)
             first == today * DayLength
             next == (today + 1) * DayLength
  <2>2. /\ s.from \in Int /\ s.to \in Int /\ first \in Int /\ s.from = first + w.start
        /\ ~Overnight(w) => s.to = first + w.end
        /\ Overnight(w) => s.to = next + w.end
        /\ next = first + DayLength /\ t = first + OfDay(t)
    BY <1>1, SpanOf, NextDayBegins
  <2> HIDE DEF s, first, next
  <2>3. s.from <= t /\ t < s.to
    BY <1>1, <1>2, <1>3, <2>2
  <2>1. Covers(Span(w, today), t)
    BY <2>3 DEF Covers, s
  <2> QED
    BY <1>3, <2>1 DEF today
<1>4. CASE Weekday(today - 1) \in w.days /\ OfDay(t) < w.end /\ Overnight(w)
  <2> DEFINE yesterday == today - 1
  <2>1. yesterday \in Int /\ (yesterday + 1) * DayLength = today * DayLength
        /\ today * DayLength \in Int
    BY <1>1, NextDayBegins
  <2> HIDE DEF yesterday
  <2>2. LET s == Span(w, yesterday)
        IN  s.to = (yesterday + 1) * DayLength + w.end /\ s.from < (yesterday + 1) * DayLength
            /\ s.from \in Int
    BY <1>4, <2>1, SpanOf
  <2>3. Covers(Span(w, yesterday), t)
    BY <1>1, <1>2, <1>4, <2>1, <2>2 DEF Covers
  <2> QED
    BY <1>4, <2>3 DEF yesterday
<1>5. CASE ~Overnight(w)
  <2>1. Weekday(today) \in w.days /\ OfDay(t) \in w.start..w.end - 1
    BY <1>5 DEF InWindow
  <2> QED
    BY <1>2, <1>3, <1>5, <2>1
<1>6. CASE Overnight(w)
  BY <1>3, <1>4, <1>6 DEF InWindow
<1> QED
  BY <1>5, <1>6

LEMMA HeldBySpan ==
    ASSUME NEW w, Proper(w), NEW t \in Int, NEW day \in Int,
           Weekday(day) \in w.days, Covers(Span(w, day), t)
    PROVE  InWindow(w, t) /\ day \in {Day(t) - 1, Day(t)}
<1> DEFINE s == Span(w, day)
           first == day * DayLength
           next == (day + 1) * DayLength
<1>1. /\ w.start \in 0..DayLength - 1 /\ w.end \in 0..DayLength - 1 /\ w.start # w.end
      /\ DayLength \in Nat \ {0}
  BY WindowFields, Lengths
<1>2. /\ s.from \in Int /\ s.to \in Int /\ first \in Int /\ s.from = first + w.start
      /\ ~Overnight(w) => s.to = first + w.end
      /\ Overnight(w) => s.to = next + w.end
      /\ next = first + DayLength /\ (day + 1 + 1) * DayLength = next + DayLength
      /\ s.from <= t /\ t < s.to
  BY SpanOf, NextDayBegins DEF Covers
<1> HIDE DEF s
<1>3. Overnight(w) <=> w.start > w.end
  BY DEF Overnight
<1>4. CASE t < next
  <2>1. first <= t
    BY <1>1, <1>2
  <2>2. Day(t) = day /\ OfDay(t) = t - first
    BY <1>4, <2>1, OneDay
  <2> HIDE DEF first, next
  <2>3. OfDay(t) >= w.start /\ (~Overnight(w) => OfDay(t) <= w.end - 1) /\ OfDay(t) \in Int
    BY <1>1, <1>2, <2>2
  <2> QED
    BY <1>1, <2>2, <2>3 DEF InWindow
<1>5. CASE ~(t < next)
  <2>1. Overnight(w)
    BY <1>1, <1>2, <1>5
  <2> DEFINE tomorrow == day + 1
  <2>2. tomorrow \in Int /\ tomorrow * DayLength <= t /\ t < (tomorrow + 1) * DayLength
    BY <1>1, <1>2, <1>5, <2>1
  <2> HIDE DEF tomorrow
  <2>3. Day(t) = tomorrow /\ OfDay(t) = t - tomorrow * DayLength
    BY <2>2, OneDay
  <2>4. tomorrow * DayLength = next /\ tomorrow = day + 1
    BY DEF tomorrow
  <2> HIDE DEF first, next
  <2>5. OfDay(t) < w.end
    BY <1>1, <1>2, <2>1, <2>3, <2>4
  <2>6. Day(t) - 1 = day
    BY <2>3, <2>4
  <2> QED
    BY <2>1, <2>5, <2>6 DEF InWindow
<1> QED
  BY <1>4, <1>5

-------------------------------------------------------------------------------
(* Schedules: the repair loop wakes for a turn.                              *)

LEMMA OneWeekday ==
    ASSUME NEW weeks \in Int, NEW r \in 0..WeekLength - 1
    PROVE  Weekday(weeks * WeekLength + r) = r
<1> DEFINE day == weeks * WeekLength + r
<1>1. day \in Int /\ WeekLength \in Nat \ {0} /\ weeks * WeekLength \in Int
  BY Lengths
<1>2. PICK other \in Int : day = other * WeekLength + Weekday(day)
  BY <1>1, Weekdays
<1>3. Weekday(day) \in 0..WeekLength - 1 /\ other * WeekLength \in Int
  BY <1>1, Weekdays
<1> DEFINE q == Weekday(day)
<1> HIDE DEF q
<1>4. weeks * WeekLength + r = other * WeekLength + q /\ q \in 0..WeekLength - 1
  BY <1>2, <1>3 DEF q
<1>5. /\ (weeks + 1) * WeekLength = weeks * WeekLength + WeekLength
      /\ (other + 1) * WeekLength = other * WeekLength + WeekLength
  BY <1>1
<1>6. weeks + 1 <= other => (weeks + 1) * WeekLength <= other * WeekLength
  BY <1>1
<1>7. other + 1 <= weeks => (other + 1) * WeekLength <= weeks * WeekLength
  BY <1>1
<1>8. weeks = other
  BY <1>1, <1>3, <1>4, <1>5, <1>6, <1>7
<1> QED
  BY <1>1, <1>4, <1>8 DEF q

\* Each weekday comes in every week.
LEMMA EveryWeek ==
    ASSUME NEW day \in Int, NEW first \in Int
    PROVE  \E other \in first..first + WeekLength - 1 : Weekday(other) = Weekday(day)
<1>1. PICK a \in Int : day = a * WeekLength + Weekday(day)
  BY Weekdays
<1> DEFINE gap == day - first
<1>2. PICK b \in Int : gap = b * WeekLength + Weekday(gap)
  BY Weekdays
<1>3. /\ Weekday(day) \in 0..WeekLength - 1 /\ Weekday(gap) \in 0..WeekLength - 1
      /\ WeekLength \in Nat \ {0} /\ a * WeekLength \in Int /\ b * WeekLength \in Int
  BY Weekdays, Lengths
<1> DEFINE other == first + Weekday(gap)
<1>4. other = (a - b) * WeekLength + Weekday(day)
  <2>1. (a - b) * WeekLength = a * WeekLength - b * WeekLength
    BY <1>3
  <2> QED
    BY <1>1, <1>2, <1>3, <2>1
<1>5. Weekday(other) = Weekday(day)
  <2> DEFINE weeks == a - b
             r == Weekday(day)
  <2>1. weeks \in Int /\ r \in 0..WeekLength - 1 /\ other = weeks * WeekLength + r
    BY <1>3, <1>4
  <2> HIDE DEF other, weeks, r
  <2>2. Weekday(other) = r
    BY <2>1, OneWeekday
  <2> QED
    BY <2>2 DEF r
<1>6. other \in first..first + WeekLength - 1
  BY <1>3
<1> QED
  BY <1>5, <1>6

LEMMA MinOfNaturals ==
    ASSUME NEW S \in SUBSET Nat, S # {}
    PROVE  Min(S) \in S /\ \A x \in S : Min(S) <= x
BY LeastNatural DEF Min

\* What the loop waits for at most.
LEMMA DelayIs ==
    ASSUME NEW windows, \A w \in windows : Proper(w), NEW detoxes \in SUBSET [from : Nat, to : Nat],
           NEW t \in Nat
    PROVE  /\ RepairDelay(windows, detoxes, t) \in Nat
           /\ \A b \in Boundaries(windows, t) : b > t => RepairDelay(windows, detoxes, t) <= b - t
           /\ \A d \in detoxes :
                 d.from <= t /\ t < d.to => RepairDelay(windows, detoxes, t) <= d.to - t
<1> DEFINE next == {b \in Boundaries(windows, t) : b > t}
           S == {RepairInterval} \cup {b - t : b \in next}
                \cup {d.to - t : d \in {e \in detoxes : e.from <= t /\ t < e.to}}
<1>1. RepairDelay(windows, detoxes, t) = Min(S)
  BY DEF RepairDelay
<1>2. Boundaries(windows, t) \subseteq Int
  <2> SUFFICES ASSUME NEW day \in Day(t)..Day(t) + WeekLength + 1, NEW w \in windows
               PROVE  Span(w, day).from \in Int /\ Span(w, day).to \in Int
    BY DEF Boundaries, SpansOfDay
  <2>1. day \in Int
    BY DayOfMinute, Lengths
  <2> QED
    BY <2>1, SpanOf
<1>3. \A b \in next : b - t \in Nat
  BY <1>2
<1>4. \A d \in detoxes : t < d.to => d.to - t \in Nat
  OBVIOUS
<1>5. S \in SUBSET Nat /\ S # {}
  BY <1>3, <1>4, Lengths
<1>6. Min(S) \in S /\ \A x \in S : Min(S) <= x
  BY <1>5, MinOfNaturals
<1>7. \A b \in Boundaries(windows, t) : b > t => b - t \in S
  OBVIOUS
<1>8. \A d \in detoxes : d.from <= t /\ t < d.to => d.to - t \in S
  OBVIOUS
<1> HIDE DEF S
<1> QED
  BY <1>1, <1>5, <1>6, <1>7, <1>8

\* It wakes for the ends of every interval that begins today or later, however long the
\* interval of the repair is.
LEMMA WakesForSpan ==
    ASSUME NEW windows, \A w \in windows : Proper(w), NEW detoxes \in SUBSET [from : Nat, to : Nat],
           NEW t \in Nat, NEW w \in windows, NEW day \in Int, Weekday(day) \in w.days,
           Day(t) <= day, NEW b \in {Span(w, day).from, Span(w, day).to}, b > t
    PROVE  RepairDelay(windows, detoxes, t) <= b - t
<1> DEFINE today == Day(t)
<1>1. /\ today \in Int /\ WeekLength \in Nat \ {0} /\ DayLength \in Nat \ {0}
      /\ t = today * DayLength + OfDay(t) /\ OfDay(t) \in 0..DayLength - 1
      /\ today * DayLength \in Int
  BY DayOfMinute, Lengths
<1> HIDE DEF today
<1>2. ASSUME NEW other \in today..today + WeekLength + 1, Weekday(other) \in w.days,
             NEW end \in {Span(w, other).from, Span(w, other).to}, end > t
      PROVE  RepairDelay(windows, detoxes, t) <= end - t
  <2>1. Span(w, other) \in SpansOfDay(windows, other)
    BY <1>2 DEF SpansOfDay
  <2>2. end \in Boundaries(windows, t)
    BY <1>2, <2>1 DEF Boundaries, today
  <2> QED
    BY <1>2, <2>2, DelayIs
<1>3. CASE day <= today + WeekLength + 1
  <2>1. day \in today..today + WeekLength + 1
    BY <1>1, <1>3 DEF today
  <2> QED
    BY <1>2, <2>1
<1>4. CASE day > today + WeekLength + 1
  <2> DEFINE first == today + 1
  <2>0. first \in Int
    BY <1>1
  <2> HIDE DEF first
  <2>1. PICK other \in first..first + WeekLength - 1 : Weekday(other) = Weekday(day)
    BY <2>0, EveryWeek
  <2>2. other \in Int /\ other \in today..today + WeekLength + 1 /\ other + 1 <= day
        /\ today + 1 <= other
    BY <1>1, <1>4, <2>0, <2>1 DEF first
  <2> DEFINE end == Span(w, other).from
  <2>3. /\ end \in Int /\ other * DayLength <= end /\ end < (other + 1) * DayLength
        /\ other * DayLength \in Int /\ (other + 1) * DayLength \in Int
    BY <2>2, SpanBegins
  <2>4. /\ day * DayLength <= Span(w, day).from /\ Span(w, day).from < Span(w, day).to
        /\ Span(w, day).from \in Int /\ Span(w, day).to \in Int /\ day * DayLength \in Int
    BY SpanBegins
  <2>5. (other + 1) * DayLength <= day * DayLength
    BY <2>2, LongerDays
  <2>6. (today + 1) * DayLength <= other * DayLength /\ (today + 1) * DayLength \in Int
        /\ (today + 1) * DayLength = today * DayLength + DayLength
    BY <1>1, <2>2, LongerDays, NextDayBegins
  <2> HIDE DEF end
  <2>7. end > t
    BY <1>1, <2>3, <2>6
  <2>8. RepairDelay(windows, detoxes, t) <= end - t
    BY <1>2, <2>1, <2>2, <2>7 DEF end
  <2>9. RepairDelay(windows, detoxes, t) \in Nat
    BY DelayIs
  <2>10. end <= b /\ b \in Int
    BY <2>3, <2>4, <2>5
  <2> QED
    BY <2>3, <2>8, <2>9, <2>10
<1> QED
  BY <1>1, <1>3, <1>4

\* What is so of the windows and the Detoxes in every state.
ScheduleTypes ==
    /\ minute \in 0..MaxMinute /\ edits \in 0..MaxEdits
    /\ schedule \in Schedules \cup Edits \cup {None} /\ detox \in Detoxes

LEMMA PlanFits ==
    ASSUME ScheduleTypes
    PROVE  /\ minute \in Nat /\ (\A w \in Plan : Proper(w)) /\ IsFiniteSet(detox)
           /\ detox \in SUBSET [from : Nat, to : Nat] /\ IsFiniteSet(Plan)
<1>1. \A w \in Plan : w \in ScheduleWindow /\ w.start # w.end
  BY ScheduleAssumption DEF ScheduleTypes, Plan
<1>2. IsFiniteSet(Plan)
  BY ScheduleAssumption, FS_EmptySet DEF ScheduleTypes, Plan
<1> QED
  BY <1>1, <1>2, ScheduleAssumption DEF ScheduleTypes, Proper

LEMMA TurnsAreMet == ASSUME ScheduleTypes PROVE RepairMeetsTurns
<1> DEFINE delay == RepairDelay(Plan, detox, minute)
           Early(t) == \E w \in Plan : Span(w, Day(minute) - 1).to = t
<1>1. /\ minute \in Nat /\ (\A w \in Plan : Proper(w)) /\ detox \in SUBSET [from : Nat, to : Nat]
      /\ delay \in Nat
  BY PlanFits, DelayIs
<1> HIDE DEF delay
<1> SUFFICES ASSUME NEW t \in minute + 1..(minute + delay) - 1
             PROVE  /\ IsActive(Plan, t) # IsActive(Plan, t - 1) => Early(t)
                    /\ InDetox(t - 1) => InDetox(t) \/ \E d \in detox : d.from > minute
  BY DEF RepairMeetsTurns, delay
<1>2. t \in Int /\ t - 1 \in Int /\ minute < t /\ t - minute < delay /\ minute <= t - 1
  BY <1>1
<1>3. ASSUME NEW w \in Plan, InWindow(w, t) # InWindow(w, t - 1) PROVE Early(t)
  <2>1. \E day \in Int : /\ Weekday(day) \in w.days /\ Day(minute) - 1 <= day
                         /\ t \in {Span(w, day).from, Span(w, day).to}
    <3>1. CASE InWindow(w, t) /\ ~InWindow(w, t - 1)
      <4>1. PICK day \in {Day(t) - 1, Day(t)} :
                Weekday(day) \in w.days /\ Covers(Span(w, day), t)
        BY <1>1, <1>2, <3>1, SpanHolds
      <4>2. day \in Int /\ Day(minute) - 1 <= day
        BY <1>1, <1>2, DayOfMinute, LaterDays
      <4>3. ~Covers(Span(w, day), t - 1)
        BY <1>1, <1>2, <3>1, <4>1, <4>2, HeldBySpan
      <4> DEFINE s == Span(w, day)
      <4>5. Proper(w) /\ s.from \in Int /\ s.to \in Int /\ s.from < s.to
        BY <1>1, <4>2, SpanBegins
      <4>6. s.from <= t /\ t < s.to /\ ~(s.from <= t - 1 /\ t - 1 < s.to)
        BY <4>1, <4>3 DEF Covers
      <4> HIDE DEF s
      <4>7. s.from = t
        BY <1>2, <4>5, <4>6
      <4>4. Span(w, day).from = t
        BY <4>7 DEF s
      <4> QED
        BY <4>1, <4>2, <4>4
    <3>2. CASE ~InWindow(w, t) /\ InWindow(w, t - 1)
      <4> DEFINE u == t - 1
      <4>0. u \in Int /\ InWindow(w, u) /\ u + 1 = t /\ minute <= u
        BY <1>2, <3>2
      <4> HIDE DEF u
      <4>1. PICK day \in {Day(u) - 1, Day(u)} :
                Weekday(day) \in w.days /\ Covers(Span(w, day), u)
        BY <1>1, <4>0, SpanHolds
      <4>2. day \in Int /\ Day(minute) - 1 <= day
        BY <1>1, <4>0, DayOfMinute, LaterDays
      <4>3. ~Covers(Span(w, day), t)
        BY <1>1, <1>2, <3>2, <4>1, <4>2, HeldBySpan
      <4> DEFINE s == Span(w, day)
      <4>5. Proper(w) /\ s.from \in Int /\ s.to \in Int /\ s.from < s.to
        BY <1>1, <4>2, SpanBegins
      <4>6. s.from <= u /\ u < s.to /\ ~(s.from <= t /\ t < s.to)
        BY <4>1, <4>3 DEF Covers
      <4> HIDE DEF s
      <4>7. s.to = t
        BY <1>2, <4>0, <4>5, <4>6
      <4>4. Span(w, day).to = t
        BY <4>7 DEF s
      <4> QED
        BY <4>1, <4>2, <4>4
    <3>3. InWindow(w, t) \in BOOLEAN /\ InWindow(w, t - 1) \in BOOLEAN
      BY DEF InWindow
    <3> QED
      BY <1>3, <3>1, <3>2, <3>3
  <2>2. PICK day \in Int : /\ Weekday(day) \in w.days /\ Day(minute) - 1 <= day
                           /\ t \in {Span(w, day).from, Span(w, day).to}
    BY <2>1
  <2>3. ~(Day(minute) <= day)
    <3>1. Day(minute) <= day => delay <= t - minute
      BY <1>1, <1>2, <2>2, WakesForSpan DEF delay
    <3> QED
      BY <1>1, <1>2, <3>1
  <2>4. day = Day(minute) - 1
    BY <1>1, <2>2, <2>3, DayOfMinute
  <2>5. Span(w, day).from < t
    <3> DEFINE today == Day(minute)
    <3>1. today \in Int /\ today * DayLength <= minute /\ today * DayLength \in Int
      BY <1>1, DayOfMinute, NextDayBegins, Lengths
    <3>2. today = day + 1
      BY <2>4, <3>1
    <3> HIDE DEF today
    <3>3. Span(w, day).from < (day + 1) * DayLength /\ Span(w, day).from \in Int
      BY <1>1, SpanBegins
    <3> QED
      BY <1>1, <1>2, <3>1, <3>2, <3>3
  <2>6. Span(w, day).to = t
    BY <1>1, <1>2, <2>2, <2>5, SpanBegins
  <2> QED
    BY <2>4, <2>6
<1>4. ASSUME IsActive(Plan, t) # IsActive(Plan, t - 1) PROVE Early(t)
  <2>1. \E w \in Plan : InWindow(w, t) # InWindow(w, t - 1)
    BY <1>4 DEF IsActive
  <2> QED
    BY <1>3, <2>1
<1>5. ASSUME InDetox(t - 1), ~InDetox(t) PROVE \E d \in detox : d.from > minute
  <2>1. PICK d \in detox : t - 1 \in d.from..d.to - 1
    BY <1>5 DEF InDetox
  <2>2. d.from \in Nat /\ d.to \in Nat
    BY <1>1
  <2>3. t \notin d.from..d.to - 1
    BY <1>5 DEF InDetox
  <2>4. d.to = t /\ minute < d.to
    BY <1>1, <1>2, <2>1, <2>2, <2>3
  <2>5. d.from <= minute => delay <= d.to - minute
    BY <1>1, <2>4, DelayIs DEF delay
  <2> QED
    BY <1>1, <1>2, <2>2, <2>4, <2>5
<1> HIDE DEF Early
<1> QED
  BY <1>4, <1>5

-------------------------------------------------------------------------------
(* Schedules: the end that a block names.                                    *)

LEMMA MaxOfBounded ==
    ASSUME NEW S \in SUBSET Int, S # {}, NEW bound \in Int, \A x \in S : x <= bound
    PROVE  Max(S) \in S /\ \A x \in S : x <= Max(S)
<1> DEFINE T == {bound - x : x \in S}
<1>1. T \in SUBSET Nat /\ T # {}
  <2>1. \A x \in S : bound - x \in Nat
    OBVIOUS
  <2>2. T \subseteq Nat
    BY <2>1
  <2>3. PICK x \in S : TRUE
    OBVIOUS
  <2>4. bound - x \in T
    OBVIOUS
  <2> QED
    BY <2>2, <2>4
<1>2. PICK y \in T : \A z \in T : y <= z
  BY <1>1, LeastNatural
<1>3. PICK x \in S : y = bound - x
  BY <1>2
<1>4. \A z \in S : x >= z
  <2> SUFFICES ASSUME NEW z \in S PROVE x >= z
    OBVIOUS
  <2>1. bound - z \in T
    OBVIOUS
  <2>2. y <= bound - z
    BY <1>2, <2>1
  <2> HIDE DEF T
  <2> QED
    BY <1>3, <2>2
<1>5. Max(S) \in S /\ \A z \in S : Max(S) >= z
  BY <1>4 DEF Max
<1> QED
  BY <1>5

\* window_active_until, of a window that is active
WindowUntil(w, t) ==
    IF Overnight(w) /\ OfDay(t) >= w.start /\ Weekday(Day(t)) \in w.days
    THEN (Day(t) + 1) * DayLength + w.end
    ELSE Day(t) * DayLength + w.end

LEMMA UntilIsSpan ==
    ASSUME NEW w, Proper(w), NEW t \in Int, InWindow(w, t)
    PROVE  \E day \in Int : /\ Weekday(day) \in w.days /\ Covers(Span(w, day), t)
                            /\ WindowUntil(w, t) = Span(w, day).to
<1> DEFINE today == Day(t)
           yesterday == today - 1
<1>8. /\ today \in Int /\ OfDay(t) \in 0..DayLength - 1 /\ t = today * DayLength + OfDay(t)
  BY DayOfMinute
<1>1. /\ today \in Int /\ OfDay(t) \in 0..DayLength - 1 /\ t = today * DayLength + OfDay(t)
      /\ DayLength \in Nat \ {0} /\ yesterday \in Int /\ yesterday + 1 = today
  BY <1>8, Lengths
<1> HIDE DEF yesterday
<1>2. w.start \in 0..DayLength - 1 /\ w.end \in 0..DayLength - 1
  BY WindowFields
<1>3. PICK day \in {Day(t) - 1, Day(t)} : Weekday(day) \in w.days /\ Covers(Span(w, day), t)
  BY SpanHolds
<1>4. day \in Int /\ (day = today \/ day = yesterday)
  BY <1>1, <1>3 DEF yesterday
<1>5. CASE ~Overnight(w)
  <2>1. Span(w, today).to = today * DayLength + w.end
    BY <1>1, <1>5, SpanOf
  <2>2. Weekday(today) \in w.days /\ Covers(Span(w, today), t)
    <3>1. Weekday(today) \in w.days /\ OfDay(t) \in w.start..w.end - 1
      BY <1>5 DEF InWindow
    <3>2. Span(w, today).from = today * DayLength + w.start /\ today * DayLength \in Int
      BY <1>1, SpanOf
    <3> HIDE DEF today
    <3> QED
      BY <1>1, <1>2, <2>1, <3>1, <3>2 DEF Covers
  <2> QED
    BY <1>1, <1>5, <2>1, <2>2 DEF WindowUntil
<1>6. CASE Overnight(w) /\ OfDay(t) >= w.start /\ Weekday(today) \in w.days
  <2>1. Span(w, today).to = (today + 1) * DayLength + w.end
        /\ Span(w, today).from = today * DayLength + w.start /\ today * DayLength \in Int
        /\ (today + 1) * DayLength = today * DayLength + DayLength
    BY <1>1, <1>6, SpanOf, NextDayBegins
  <2>2. Covers(Span(w, today), t)
    <3> HIDE DEF today
    <3> QED
      BY <1>1, <1>2, <1>6, <2>1 DEF Covers
  <2> QED
    BY <1>1, <1>6, <2>1, <2>2 DEF WindowUntil
<1>7. CASE Overnight(w) /\ ~(OfDay(t) >= w.start /\ Weekday(today) \in w.days)
  <2>1. Weekday(yesterday) \in w.days /\ OfDay(t) < w.end
    BY <1>7 DEF InWindow, yesterday
  <2>2. Span(w, yesterday).to = (yesterday + 1) * DayLength + w.end
        /\ Span(w, yesterday).from < (yesterday + 1) * DayLength
        /\ Span(w, yesterday).from \in Int
    BY <1>1, <1>7, SpanOf, SpanBegins
  <2>3. Span(w, yesterday).to = today * DayLength + w.end
        /\ Span(w, yesterday).from < today * DayLength /\ today * DayLength \in Int
    BY <1>1, <2>2, NextDayBegins
  <2>4. Covers(Span(w, yesterday), t)
    <3> HIDE DEF today
    <3> QED
      BY <1>1, <1>2, <2>1, <2>2, <2>3 DEF Covers
  <2>5. WindowUntil(w, t) = today * DayLength + w.end
    BY <1>7 DEF WindowUntil
  <2> QED
    BY <1>1, <2>1, <2>3, <2>4, <2>5
<1> QED
  BY <1>5, <1>6, <1>7

LEMMA UntilIsSound == ASSUME ScheduleTypes PROVE ActiveUntilIsSound
<1> DEFINE now == {w \in Plan : InWindow(w, minute)}
           ends == {WindowUntil(w, minute) : w \in now}
           until == ActiveUntil(Plan, minute)
<1>1. minute \in Nat /\ minute \in Int /\ \A w \in Plan : Proper(w)
  BY PlanFits
<1>2. until = IF ends = {} THEN None ELSE Max(ends)
  BY DEF ActiveUntil, WindowUntil
<1>3. ASSUME NEW w \in now
      PROVE  /\ WindowUntil(w, minute) \in Int /\ WindowUntil(w, minute) > minute
             /\ WindowUntil(w, minute) <= (Day(minute) + 1) * DayLength + DayLength
             /\ \A t \in minute..WindowUntil(w, minute) - 1 : IsActive(Plan, t)
  <2>1. PICK day \in Int : /\ Weekday(day) \in w.days /\ Covers(Span(w, day), minute)
                           /\ WindowUntil(w, minute) = Span(w, day).to
    BY <1>1, <1>3, UntilIsSpan
  <2>2. /\ Span(w, day).from \in Int /\ Span(w, day).to \in Int /\ (day + 1) * DayLength \in Int
        /\ Span(w, day).to < (day + 1) * DayLength + DayLength
    BY <1>1, <1>3, SpanBegins
  <2>3. day <= Day(minute) /\ Day(minute) \in Int
    BY <1>1, <1>3, <2>1, HeldBySpan, DayOfMinute
  <2>4. (day + 1) * DayLength <= (Day(minute) + 1) * DayLength
        /\ (Day(minute) + 1) * DayLength \in Int
    <3>1. day + 1 <= Day(minute) + 1 /\ day + 1 \in Int /\ Day(minute) + 1 \in Int
      BY <2>3
    <3> QED
      BY <3>1, LongerDays
  <2>5. \A t \in minute..Span(w, day).to - 1 : IsActive(Plan, t)
    <3> SUFFICES ASSUME NEW t \in minute..Span(w, day).to - 1 PROVE IsActive(Plan, t)
      OBVIOUS
    <3>1. t \in Int /\ Covers(Span(w, day), t)
      BY <1>1, <2>1, <2>2 DEF Covers
    <3>2. InWindow(w, t)
      BY <1>1, <1>3, <2>1, <3>1, HeldBySpan
    <3> QED
      BY <1>3, <3>2 DEF IsActive
  <2>6. minute < Span(w, day).to
    BY <2>1 DEF Covers
  <2>7. Span(w, day).to <= (Day(minute) + 1) * DayLength + DayLength
    BY <2>2, <2>4, Lengths
  <2> QED
    BY <1>1, <2>1, <2>2, <2>5, <2>6, <2>7
<1>4. (ends = {}) <=> ~IsActive(Plan, minute)
  BY DEF IsActive
<1>5. CASE ends = {}
  <2>1. until = None
    BY <1>2, <1>5
  <2> QED
    BY <1>4, <1>5, <2>1 DEF ActiveUntilIsSound, IsActive
<1>6. CASE ends # {}
  <2> DEFINE bound == (Day(minute) + 1) * DayLength + DayLength
  <2>1. bound \in Int
    BY <1>1, DayOfMinute, Lengths
  <2>2. ends \in SUBSET Int /\ \A x \in ends : x <= bound
    BY <1>3
  <2> HIDE DEF ends, bound
  <2>3. Max(ends) \in ends
    BY <1>6, <2>1, <2>2, MaxOfBounded
  <2>4. PICK w \in now : Max(ends) = WindowUntil(w, minute)
    BY <2>3 DEF ends
  <2> HIDE DEF now
  <2>5. until = WindowUntil(w, minute) /\ until \in Int
    BY <1>2, <1>3, <1>6, <2>4
  <2>6. until # None
    BY <2>5, Lengths
  <2> QED
    BY <1>3, <1>4, <1>6, <2>5, <2>6 DEF ActiveUntilIsSound
<1> QED
  BY <1>5, <1>6

-------------------------------------------------------------------------------
(* Schedules: the length of intervals that are joined is the number of the    *)
(* minutes they cover.                                                        *)

Spans == {s \in [from : Int, to : Int] : s.from < s.to}

Cover(spans) == {t \in Int : \E s \in spans : Covers(s, t)}

LEMMA LastOfIs ==
    ASSUME NEW S \in SUBSET Spans, IsFiniteSet(S), S # {}
    PROVE  LastOf(S) \in S /\ \A s \in S : s.from <= LastOf(S).from
<1> DEFINE Bounded(T) == \E s \in T : \A other \in T : other.from <= s.from
           N == {n \in Nat : \A T \in SUBSET S : Cardinality(T) = n /\ T # {} => Bounded(T)}
<1>1. 0 \in N
  <2> SUFFICES ASSUME NEW T \in SUBSET S, Cardinality(T) = 0, T # {} PROVE FALSE
    OBVIOUS
  <2>1. IsFiniteSet(T)
    BY FS_Subset
  <2> QED
    BY <2>1, FS_EmptySet
<1>2. ASSUME NEW n \in Nat, n \in N PROVE n + 1 \in N
  <2> SUFFICES ASSUME NEW T \in SUBSET S, Cardinality(T) = n + 1, T # {} PROVE Bounded(T)
    OBVIOUS
  <2>1. PICK x \in T : TRUE
    OBVIOUS
  <2> DEFINE U == T \ {x}
  <2>2. IsFiniteSet(T) /\ U \in SUBSET S
    BY FS_Subset
  <2>3. Cardinality(U) = n
    <3>1. Cardinality(U) = Cardinality(T) - 1
      BY <2>1, <2>2, FS_RemoveElement
    <3> QED
      BY <3>1
  <2>4. CASE U = {}
    <3>1. T = {x}
      BY <2>1, <2>4
    <3>2. x.from \in Int
      BY <2>1 DEF Spans
    <3> QED
      BY <3>1, <3>2
  <2>5. CASE U # {}
    <3>1. PICK y \in U : \A other \in U : other.from <= y.from
      BY <1>2, <2>2, <2>3, <2>5
    <3>2. \A s \in T : s.from \in Int
      BY DEF Spans
    <3>3. \A s \in T : s = x \/ s \in U
      OBVIOUS
    <3>4. y \in T /\ x \in T
      BY <2>1
    <3> HIDE DEF U
    <3>5. CASE x.from <= y.from
      <4>1. \A other \in T : other.from <= y.from
        BY <3>1, <3>3, <3>5
      <4> QED
        BY <3>4, <4>1
    <3>6. CASE ~(x.from <= y.from)
      <4>1. \A other \in T : other.from <= x.from
        BY <3>1, <3>2, <3>3, <3>4, <3>6
      <4> QED
        BY <3>4, <4>1
    <3> QED
      BY <3>5, <3>6
  <2> QED
    BY <2>4, <2>5
<1>3. Cardinality(S) \in N
  <2> HIDE DEF N
  <2> QED
    BY <1>1, <1>2, InductiveSet, FS_CardinalityType
<1>4. Bounded(S)
  BY <1>3
<1> QED
  BY <1>4 DEF LastOf

\* The intervals are joined one after the other, the last one last.
LEMMA JoinedIsDefined ==
    ASSUME NEW spans \in SUBSET Spans, IsFiniteSet(spans)
    PROVE  \E joined : /\ \A S \in SUBSET spans : joined[S] = JoinedOf(S, joined)
                       /\ LET all == joined[spans]
                          IN  MergedLength(spans) =
                                  IF all = None THEN 0 ELSE all.done + (all.to - all.from)
<1> DEFINE Small(n) == {S \in SUBSET spans : Cardinality(S) <= n}
           Defined(n) == \E f : f = [S \in Small(n) |-> JoinedOf(S, f)]
           N == {n \in Nat : Defined(n)}
<1>0. \A S \in SUBSET spans : /\ IsFiniteSet(S) /\ Cardinality(S) \in Nat
                              /\ (Cardinality(S) = 0) <=> (S = {})
                              /\ Cardinality(S) <= Cardinality(spans)
  BY FS_Subset, FS_CardinalityType, FS_EmptySet
<1>1. 0 \in N
  <2> DEFINE D == Small(0)
             f == [S \in D |-> None]
  <2>1. \A S \in D : S = {}
    BY <1>0
  <2> HIDE DEF D
  <2>2. \A S \in D : JoinedOf(S, f) = None
    BY <2>1 DEF JoinedOf
  <2>3. f = [S \in D |-> JoinedOf(S, f)]
    BY <2>2
  <2>4. Defined(0)
    BY <2>3 DEF D
  <2> HIDE DEF Defined
  <2> QED
    BY <2>4
<1>2. ASSUME NEW n \in Nat, n \in N PROVE n + 1 \in N
  <2>1. PICK f : f = [S \in Small(n) |-> JoinedOf(S, f)]
    BY <1>2
  <2> DEFINE D == Small(n)
             E == Small(n + 1)
             g == [S \in E |-> JoinedOf(S, f)]
  <2>2. D \subseteq E
    BY <1>0
  <2>3. \A S \in E : S # {} => S \ {LastOf(S)} \in D
    <3> SUFFICES ASSUME NEW S \in E, S # {} PROVE S \ {LastOf(S)} \in D
      OBVIOUS
    <3>1. S \in SUBSET Spans /\ IsFiniteSet(S) /\ Cardinality(S) <= n + 1
      BY <1>0
    <3>2. LastOf(S) \in S
      BY <3>1, LastOfIs
    <3>3. Cardinality(S \ {LastOf(S)}) = Cardinality(S) - 1
      BY <3>1, <3>2, FS_RemoveElement
    <3>4. Cardinality(S) \in Nat
      BY <1>0
    <3> QED
      BY <3>1, <3>3, <3>4
  <2>4. f = [S \in D |-> JoinedOf(S, f)]
    BY <2>1
  <2> HIDE DEF D, E
  <2>5. \A S \in D : g[S] = f[S]
    BY <2>2, <2>4
  <2>6. \A S \in E : JoinedOf(S, f) = JoinedOf(S, g)
    BY <2>3, <2>5 DEF JoinedOf
  <2>7. g = [S \in E |-> JoinedOf(S, g)]
    BY <2>6
  <2>8. Defined(n + 1)
    BY <2>7 DEF E
  <2> HIDE DEF Defined
  <2> QED
    BY <2>8
<1>3. Cardinality(spans) \in N
  <2> HIDE DEF N
  <2> QED
    BY <1>1, <1>2, InductiveSet, FS_CardinalityType
<1>4. Small(Cardinality(spans)) = SUBSET spans
  BY <1>0
<1>5. \E f : f = [S \in SUBSET spans |-> JoinedOf(S, f)]
  BY <1>3, <1>4
<1> DEFINE joined == CHOOSE f : f = [S \in SUBSET spans |-> JoinedOf(S, f)]
           all == joined[spans]
<1>6. joined = [S \in SUBSET spans |-> JoinedOf(S, joined)]
  BY <1>5
<1>7. MergedLength(spans) = IF all = None THEN 0 ELSE all.done + (all.to - all.from)
  BY DEF MergedLength
<1> HIDE DEF joined
<1>8. \A S \in SUBSET spans : joined[S] = JoinedOf(S, joined)
  BY <1>6
<1> QED
  BY <1>7, <1>8

LEMMA LaterOf ==
    ASSUME NEW a \in Int, NEW b \in Int
    PROVE  Max({a, b}) = IF a >= b THEN a ELSE b
<1>1. \E x \in {a, b} : \A y \in {a, b} : x >= y
  OBVIOUS
<1>2. Max({a, b}) \in {a, b} /\ \A y \in {a, b} : Max({a, b}) >= y
  BY <1>1 DEF Max
<1> DEFINE m == Max({a, b})
<1> HIDE DEF m
<1>3. (m = a \/ m = b) /\ m >= a /\ m >= b
  BY <1>2 DEF m
<1>4. m = IF a >= b THEN a ELSE b
  BY <1>3
<1> QED
  BY <1>4 DEF m

LEMMA EarlierOf ==
    ASSUME NEW a \in Int, NEW b \in Int
    PROVE  Min({a, b}) = IF a <= b THEN a ELSE b
<1>1. \E x \in {a, b} : \A y \in {a, b} : x <= y
  OBVIOUS
<1>2. Min({a, b}) \in {a, b} /\ \A y \in {a, b} : Min({a, b}) <= y
  BY <1>1 DEF Min
<1> DEFINE m == Min({a, b})
<1> HIDE DEF m
<1>3. (m = a \/ m = b) /\ m <= a /\ m <= b
  BY <1>2 DEF m
<1>4. m = IF a <= b THEN a ELSE b
  BY <1>3
<1> QED
  BY <1>4 DEF m

\* Sets that share nothing.
LEMMA SumOfApart ==
    ASSUME NEW S, NEW T, IsFiniteSet(S), IsFiniteSet(T), S \cap T = {}
    PROVE  /\ IsFiniteSet(S \cup T)
           /\ Cardinality(S \cup T) = Cardinality(S) + Cardinality(T)
<1>1. Cardinality(S \cap T) = 0
  BY FS_EmptySet
<1>2. Cardinality(S) \in Nat /\ Cardinality(T) \in Nat
  BY FS_CardinalityType
<1>3. /\ IsFiniteSet(S \cup T)
      /\ Cardinality(S \cup T) = Cardinality(S) + Cardinality(T) - Cardinality(S \cap T)
  BY FS_Union
<1>4. Cardinality(S \cup T) = Cardinality(S) + Cardinality(T) - 0
  BY <1>1, <1>3
<1> QED
  BY <1>2, <1>3, <1>4

LEMMA MinutesOf ==
    ASSUME NEW a \in Int, NEW b \in Int, a <= b
    PROVE  /\ IsFiniteSet(a..b - 1) /\ Cardinality(a..b - 1) = b - a
<1> DEFINE c == b - 1
<1>1. c \in Int /\ (a > c => b - a = 0) /\ c - a + 1 = b - a
  OBVIOUS
<1> HIDE DEF c
<1>2. IsFiniteSet(a..c) /\ Cardinality(a..c) = IF a > c THEN 0 ELSE c - a + 1
  BY <1>1, FS_Interval
<1> QED
  BY <1>1, <1>2 DEF c

\* What has been joined of some intervals: the last one goes on, and the minutes they
\* cover have been counted.
JoinFits(S, joined) ==
    /\ joined \in [done : Int, from : Int, to : Int] /\ joined.from < joined.to
    /\ \E s \in S : joined.from <= s.from
    /\ \A s \in S : s.to <= joined.to
    /\ joined.from..joined.to - 1 \subseteq Cover(S)
    /\ IsFiniteSet(Cover(S))
    /\ Cardinality(Cover(S)) = joined.done + (joined.to - joined.from)

LEMMA FirstFits ==
    ASSUME NEW s \in Spans
    PROVE  JoinFits({s}, Join(None, s))
<1> DEFINE j == Join(None, s)
<1>1. s.from \in Int /\ s.to \in Int /\ s.from < s.to
  BY DEF Spans
<1>2. j = [done |-> 0, from |-> s.from, to |-> s.to]
  BY DEF Join
<1>3. Cover({s}) = s.from..s.to - 1
  BY <1>1 DEF Cover, Covers
<1>4. IsFiniteSet(Cover({s})) /\ Cardinality(Cover({s})) = s.to - s.from
  BY <1>1, <1>3, FS_Interval
<1>5. j \in [done : Int, from : Int, to : Int] /\ j.done = 0 /\ j.from = s.from /\ j.to = s.to
  BY <1>1, <1>2
<1> HIDE DEF j
<1>6. JoinFits({s}, j)
  BY <1>1, <1>3, <1>4, <1>5 DEF JoinFits
<1> QED
  BY <1>6 DEF j

LEMMA NextFits ==
    ASSUME NEW T \in SUBSET Spans, NEW joined, JoinFits(T, joined), NEW s \in Spans,
           \A other \in T : other.from <= s.from
    PROVE  JoinFits(T \cup {s}, Join(joined, s))
<1> DEFINE S == T \cup {s}
           j == Join(joined, s)
<1>1. s.from \in Int /\ s.to \in Int /\ s.from < s.to
  BY DEF Spans
<1>2. /\ joined \in [done : Int, from : Int, to : Int] /\ joined.done \in Int
      /\ joined.from \in Int /\ joined.to \in Int /\ joined.from < joined.to
      /\ joined.from..joined.to - 1 \subseteq Cover(T)
      /\ IsFiniteSet(Cover(T))
      /\ Cardinality(Cover(T)) = joined.done + (joined.to - joined.from)
  BY DEF JoinFits
<1>3. joined # None
  BY <1>2, NoneIsNoRecord
<1>4. joined.from <= s.from
  <2>1. PICK other \in T : joined.from <= other.from
    BY DEF JoinFits
  <2>2. other.from <= s.from /\ other.from \in Int
    BY <2>1 DEF Spans
  <2> QED
    BY <1>1, <1>2, <2>1, <2>2
<1>5. Cover(S) = Cover(T) \cup s.from..s.to - 1
  BY <1>1 DEF Cover, Covers
<1>6. \A t \in Cover(T) : t \in Int /\ t < joined.to
  <2> SUFFICES ASSUME NEW t \in Cover(T) PROVE t \in Int /\ t < joined.to
    OBVIOUS
  <2>1. PICK other \in T : Covers(other, t) /\ t \in Int
    BY DEF Cover
  <2>2. other.to <= joined.to /\ other.to \in Int
    BY <2>1 DEF JoinFits, Spans
  <2> QED
    BY <1>2, <2>1, <2>2 DEF Covers
<1>7. \A other \in T : other.to <= joined.to /\ other.to \in Int
  BY DEF JoinFits, Spans
<1>8. CASE s.from <= joined.to
  <2> DEFINE to == IF joined.to >= s.to THEN joined.to ELSE s.to
  <2>1. j = [joined EXCEPT !.to = to]
    BY <1>1, <1>2, <1>3, <1>8, LaterOf DEF Join
  <2>2. to \in Int /\ joined.to <= to /\ s.to <= to
    BY <1>1, <1>2
  <2>3. /\ j \in [done : Int, from : Int, to : Int] /\ j.done = joined.done
        /\ j.from = joined.from /\ j.to = to
    BY <1>2, <2>1, <2>2
  <2>4. Cover(S) = Cover(T) \cup joined.to..to - 1
    <3>1. s.from..s.to - 1 \subseteq Cover(T) \cup joined.to..to - 1
      BY <1>1, <1>2, <1>4, <1>8
    <3>2. joined.to..to - 1 \subseteq s.from..s.to - 1
      BY <1>1, <1>2, <1>8
    <3> QED
      BY <1>5, <3>1, <3>2
  <2>5. /\ IsFiniteSet(joined.to..to - 1)
        /\ Cardinality(joined.to..to - 1) = to - joined.to
    BY <1>2, <2>2, MinutesOf
  <2>6. Cover(T) \cap joined.to..to - 1 = {}
    BY <1>2, <1>6, <2>2
  <2>7. /\ IsFiniteSet(Cover(S))
        /\ Cardinality(Cover(S)) = Cardinality(Cover(T)) + (to - joined.to)
    <3> DEFINE more == joined.to..to - 1
    <3>1. IsFiniteSet(more) /\ IsFiniteSet(Cover(T)) /\ Cover(T) \cap more = {}
      BY <1>2, <2>5, <2>6
    <3>2. Cover(S) = Cover(T) \cup more /\ Cardinality(more) = to - joined.to
      BY <2>4, <2>5
    <3> HIDE DEF more, S, to
    <3> QED
      BY <3>1, <3>2, SumOfApart
  <2>8. Cardinality(Cover(S)) = j.done + (j.to - j.from)
    BY <1>2, <2>2, <2>3, <2>7
  <2>9. j.from..j.to - 1 \subseteq Cover(S)
    <3>1. joined.from..to - 1 \subseteq joined.from..joined.to - 1 \cup joined.to..to - 1
      BY <1>2, <2>2
    <3> QED
      BY <1>2, <2>3, <2>4, <3>1
  <2>10. (\E other \in S : j.from <= other.from) /\ (\A other \in S : other.to <= j.to)
    BY <1>1, <1>2, <1>4, <1>7, <2>2, <2>3
  <2>11. j.from < j.to
    BY <1>2, <2>2, <2>3
  <2> HIDE DEF S, j, to
  <2>12. JoinFits(S, j)
    BY <2>3, <2>7, <2>8, <2>9, <2>10, <2>11 DEF JoinFits
  <2> QED
    BY <2>12 DEF S, j
<1>9. CASE ~(s.from <= joined.to)
  <2>1. j = [done |-> joined.done + (joined.to - joined.from), from |-> s.from, to |-> s.to]
    BY <1>3, <1>9 DEF Join
  <2>3. /\ j \in [done : Int, from : Int, to : Int] /\ j.from = s.from /\ j.to = s.to
        /\ j.done = joined.done + (joined.to - joined.from)
    BY <1>1, <1>2, <2>1
  <2>5. /\ IsFiniteSet(s.from..s.to - 1)
        /\ Cardinality(s.from..s.to - 1) = s.to - s.from
    BY <1>1, FS_Interval
  <2>6. Cover(T) \cap s.from..s.to - 1 = {}
    BY <1>1, <1>2, <1>6, <1>9
  <2>7. /\ IsFiniteSet(Cover(S))
        /\ Cardinality(Cover(S)) = Cardinality(Cover(T)) + (s.to - s.from)
    <3> DEFINE more == s.from..s.to - 1
    <3>1. IsFiniteSet(more) /\ IsFiniteSet(Cover(T)) /\ Cover(T) \cap more = {}
      BY <1>2, <2>5, <2>6
    <3>2. Cover(S) = Cover(T) \cup more /\ Cardinality(more) = s.to - s.from
      BY <1>5, <2>5
    <3> HIDE DEF more, S
    <3> QED
      BY <3>1, <3>2, SumOfApart
  <2>8. Cardinality(Cover(S)) = j.done + (j.to - j.from)
    BY <1>2, <2>3, <2>7
  <2>9. j.from..j.to - 1 \subseteq Cover(S)
    BY <1>5, <2>3
  <2>10. (\E other \in S : j.from <= other.from) /\ (\A other \in S : other.to <= j.to)
    BY <1>1, <1>2, <1>7, <1>9, <2>3
  <2>11. j.from < j.to
    BY <1>1, <2>3
  <2> HIDE DEF S, j
  <2>12. JoinFits(S, j)
    BY <2>3, <2>7, <2>8, <2>9, <2>10, <2>11 DEF JoinFits
  <2> QED
    BY <2>12 DEF S, j
<1> QED
  BY <1>8, <1>9

\* The length of intervals is the number of minutes they cover.
LEMMA LengthOfCover ==
    ASSUME NEW spans \in SUBSET Spans, IsFiniteSet(spans)
    PROVE  /\ IsFiniteSet(Cover(spans)) /\ Cardinality(Cover(spans)) \in Nat
           /\ MergedLength(spans) = Cardinality(Cover(spans))
<1>1. PICK joined : /\ \A S \in SUBSET spans : joined[S] = JoinedOf(S, joined)
                    /\ LET all == joined[spans]
                       IN  MergedLength(spans) =
                               IF all = None THEN 0 ELSE all.done + (all.to - all.from)
  BY JoinedIsDefined
<1> DEFINE N == {n \in Nat : \A S \in SUBSET spans :
                    Cardinality(S) <= n /\ S # {} => JoinFits(S, joined[S])}
<1>0. \A S \in SUBSET spans : /\ S \in SUBSET Spans /\ IsFiniteSet(S) /\ Cardinality(S) \in Nat
                              /\ (Cardinality(S) = 0) <=> (S = {})
  BY FS_Subset, FS_CardinalityType, FS_EmptySet
<1>2. 0 \in N
  BY <1>0
<1>3. ASSUME NEW n \in Nat, n \in N PROVE n + 1 \in N
  <2> SUFFICES ASSUME NEW S \in SUBSET spans, Cardinality(S) <= n + 1, S # {}
               PROVE  JoinFits(S, joined[S])
    OBVIOUS
  <2> DEFINE s == LastOf(S)
             T == S \ {s}
  <2>1. s \in S /\ s \in Spans /\ \A other \in S : other.from <= s.from
    BY <1>0, LastOfIs
  <2>2. joined[S] = Join(joined[T], s)
    BY <1>1 DEF JoinedOf
  <2>3. T \in SUBSET spans /\ S = T \cup {s} /\ T \in SUBSET Spans
    BY <1>0, <2>1
  <2>4. Cardinality(T) <= n
    <3>1. Cardinality(T) = Cardinality(S) - 1
      BY <1>0, <2>1, FS_RemoveElement
    <3> QED
      BY <1>0, <3>1
  <2>5. \A other \in T : other.from <= s.from
    BY <2>1
  <2> HIDE DEF s, T
  <2>6. CASE T = {}
    <3>1. joined[T] = None
      BY <1>1, <2>3, <2>6 DEF JoinedOf
    <3>2. S = {s}
      BY <2>3, <2>6
    <3> QED
      BY <2>1, <2>2, <3>1, <3>2, FirstFits
  <2>7. CASE T # {}
    <3>1. JoinFits(T, joined[T])
      BY <1>3, <2>3, <2>4, <2>7
    <3> QED
      BY <2>1, <2>2, <2>3, <2>5, <3>1, NextFits
  <2> QED
    BY <2>6, <2>7
<1>4. Cardinality(spans) \in N
  <2> HIDE DEF N
  <2> QED
    BY <1>2, <1>3, InductiveSet, FS_CardinalityType
<1>5. CASE spans = {}
  <2>1. joined[spans] = None
    BY <1>1, <1>5 DEF JoinedOf
  <2>2. Cover(spans) = {}
    BY <1>5 DEF Cover
  <2> QED
    BY <1>1, <2>1, <2>2, FS_EmptySet
<1>6. CASE spans # {}
  <2>1. JoinFits(spans, joined[spans])
    BY <1>0, <1>4, <1>6
  <2>2. joined[spans] \in [done : Int, from : Int, to : Int]
    BY <2>1 DEF JoinFits
  <2>3. joined[spans] # None
    BY <2>2, NoneIsNoRecord
  <2> QED
    BY <1>1, <2>1, <2>3, FS_CardinalityType DEF JoinFits
<1> QED
  BY <1>5, <1>6

-------------------------------------------------------------------------------
(* Schedules: the seconds an allowance is charged.                            *)

\* What is left of an interval within an interval.
Cut(span, from, to) == [from |-> Max({span.from, from}), to |-> Min({span.to, to})]

LEMMA CutIs ==
    ASSUME NEW span \in [from : Int, to : Int], NEW from \in Int, NEW to \in Int
    PROVE  /\ Cut(span, from, to) \in [from : Int, to : Int]
           /\ \A t \in Int : Covers(Cut(span, from, to), t) <=> (Covers(span, t) /\ t \in from..to - 1)
<1> DEFINE first == IF span.from >= from THEN span.from ELSE from
           last == IF span.to <= to THEN span.to ELSE to
<1>1. span.from \in Int /\ span.to \in Int /\ first \in Int /\ last \in Int
  OBVIOUS
<1>2. Cut(span, from, to) = [from |-> first, to |-> last]
  BY <1>1, LaterOf, EarlierOf DEF Cut
<1>3. \A t \in Int : (first <= t /\ t < last) <=> (span.from <= t /\ t < span.to /\ t \in from..to - 1)
  BY <1>1
<1> HIDE DEF first, last
<1> QED
  BY <1>1, <1>2, <1>3 DEF Covers

LEMMA LengthOfClipped ==
    ASSUME NEW spans \in SUBSET [from : Int, to : Int], IsFiniteSet(spans),
           NEW from \in Int, NEW to \in Int
    PROVE  LET held == {t \in from..to - 1 : \E s \in spans : Covers(s, t)}
           IN  /\ IsFiniteSet(held) /\ Cardinality(held) \in Nat
               /\ MergedLength(Clipped(spans, from, to)) = Cardinality(held)
<1> DEFINE cuts == {Cut(span, from, to) : span \in spans}
           clipped == {s \in cuts : s.to > s.from}
           held == {t \in from..to - 1 : \E s \in spans : Covers(s, t)}
<1>1. Clipped(spans, from, to) = clipped
  BY DEF Clipped, Cut
<1>2. IsFiniteSet(cuts)
  <2> DEFINE f == [span \in spans |-> Cut(span, from, to)]
  <2>1. f \in Surjection(spans, cuts)
    BY DEF Surjection
  <2> HIDE DEF f, cuts
  <2> QED
    BY <2>1, FS_Surjection
<1>3. IsFiniteSet(clipped)
  <2>1. clipped \in SUBSET cuts
    OBVIOUS
  <2> HIDE DEF clipped, cuts
  <2> QED
    BY <1>2, <2>1, FS_Subset
<1>4. \A span \in spans : Cut(span, from, to) \in [from : Int, to : Int]
  BY CutIs
<1>5. clipped \in SUBSET Spans
  BY <1>4 DEF Spans
<1>6. Cover(clipped) = held
  <2>1. ASSUME NEW t \in Cover(clipped) PROVE t \in held
    <3>1. t \in Int /\ \E s \in clipped : Covers(s, t)
      BY DEF Cover
    <3>2. PICK span \in spans : Covers(Cut(span, from, to), t)
      BY <3>1
    <3>3. Covers(span, t) /\ t \in from..to - 1
      BY <3>1, <3>2, CutIs
    <3> QED
      BY <3>3
  <2>2. ASSUME NEW t \in held PROVE t \in Cover(clipped)
    <3>1. PICK span \in spans : Covers(span, t)
      OBVIOUS
    <3>2. t \in Int /\ t \in from..to - 1
      OBVIOUS
    <3>3. Covers(Cut(span, from, to), t)
      BY <3>1, <3>2, CutIs
    <3> DEFINE s == Cut(span, from, to)
    <3>4. s \in cuts /\ s.from \in Int /\ s.to \in Int
      BY <1>4
    <3> HIDE DEF s
    <3>5. Covers(s, t)
      BY <3>3 DEF s
    <3>6. s.to > s.from
      BY <3>2, <3>4, <3>5 DEF Covers
    <3>7. s \in clipped
      BY <3>4, <3>6
    <3> QED
      BY <3>2, <3>5, <3>7 DEF Cover
  <2> HIDE DEF held, clipped
  <2> QED
    BY <2>1, <2>2
<1> HIDE DEF clipped
<1>7. /\ IsFiniteSet(Cover(clipped)) /\ Cardinality(Cover(clipped)) \in Nat
      /\ MergedLength(clipped) = Cardinality(Cover(clipped))
  BY <1>3, <1>5, LengthOfCover
<1> QED
  BY <1>1, <1>6, <1>7

LEMMA DaysSpans ==
    ASSUME NEW windows, \A w \in windows : Proper(w), IsFiniteSet(windows), NEW day \in Int
    PROVE  /\ SpansOfDay(windows, day) \in SUBSET [from : Int, to : Int]
           /\ IsFiniteSet(SpansOfDay(windows, day))
<1> DEFINE those == {v \in windows : Weekday(day) \in v.days}
           f == [w \in those |-> Span(w, day)]
           spans == SpansOfDay(windows, day)
<1>1. those \in SUBSET windows
  OBVIOUS
<1>2. spans = {Span(w, day) : w \in those}
  BY DEF SpansOfDay
<1>3. f \in Surjection(those, spans)
  BY <1>2 DEF Surjection
<1>4. spans \in SUBSET [from : Int, to : Int]
  <2>1. \A w \in those : Span(w, day) \in [from : Int, to : Int]
    BY SpanOf
  <2> HIDE DEF those, spans
  <2> QED
    BY <1>2, <2>1
<1> HIDE DEF those, f, spans
<1>5. IsFiniteSet(those)
  BY <1>1, FS_Subset
<1>6. IsFiniteSet(spans)
  BY <1>3, <1>5, FS_Surjection
<1> QED
  BY <1>4, <1>6 DEF spans

\* When a list with this schedule and these Detoxes is active.
ListActive(windows, detoxes, t) ==
    IsActive(windows, t) \/ \E d \in detoxes : t \in d.from..d.to - 1

LEMMA RuleSecondsAre ==
    ASSUME NEW windows, \A w \in windows : Proper(w), IsFiniteSet(windows),
           NEW detoxes \in SUBSET [from : Nat, to : Nat], IsFiniteSet(detoxes),
           NEW from \in Int, NEW to \in Int
    PROVE  RuleSeconds(windows, detoxes, from, to)
               = Cardinality({t \in from..to - 1 : ListActive(windows, detoxes, t)})
<1> DEFINE days == Day(from) - 1..Day(to)
           families == {SpansOfDay(windows, day) : day \in days}
           spans == detoxes \cup UNION families
           held == {t \in from..to - 1 : \E s \in spans : Covers(s, t)}
           charged == {t \in from..to - 1 : ListActive(windows, detoxes, t)}
<1>1. Day(from) \in Int /\ Day(to) \in Int /\ days \subseteq Int
  BY DayOfMinute
<1>2. \A day \in days : /\ SpansOfDay(windows, day) \in SUBSET [from : Int, to : Int]
                        /\ IsFiniteSet(SpansOfDay(windows, day))
  BY <1>1, DaysSpans
<1>3. IsFiniteSet(families)
  <2> DEFINE f == [day \in days |-> SpansOfDay(windows, day)]
  <2>1. f \in Surjection(days, families)
    BY DEF Surjection
  <2> DEFINE first == Day(from) - 1
             last == Day(to)
  <2>2. first \in Int /\ last \in Int /\ days = first..last
    BY <1>1
  <2> HIDE DEF f, families, days, first, last
  <2>3. IsFiniteSet(days)
    BY <2>2, FS_Interval
  <2> QED
    BY <2>1, <2>3, FS_Surjection
<1>4. IsFiniteSet(UNION families)
  <2>1. \A family \in families : IsFiniteSet(family)
    BY <1>2
  <2> HIDE DEF families
  <2> QED
    BY <1>3, <2>1, FS_UNION
<1>5. IsFiniteSet(spans)
  <2> DEFINE all == UNION families
  <2>1. IsFiniteSet(all)
    BY <1>4
  <2> HIDE DEF all
  <2>2. IsFiniteSet(detoxes \cup all)
    BY <2>1, FS_Union
  <2> QED
    BY <2>2 DEF all
<1>6. spans \in SUBSET [from : Int, to : Int]
  <2>1. UNION families \subseteq [from : Int, to : Int]
    BY <1>2
  <2>2. detoxes \subseteq [from : Int, to : Int]
    OBVIOUS
  <2> HIDE DEF families
  <2> QED
    BY <2>1, <2>2
<1>7. RuleSeconds(windows, detoxes, from, to) = MergedLength(Clipped(spans, from, to))
  BY DEF RuleSeconds
<1>8. ASSUME NEW t \in from..to - 1
      PROVE  (\E s \in spans : Covers(s, t)) <=> ListActive(windows, detoxes, t)
  <2>1. t \in Int /\ Day(from) <= Day(t) /\ Day(t) <= Day(to) /\ Day(t) \in Int
    BY LaterDays, DayOfMinute
  <2>2. \A d \in detoxes : Covers(d, t) <=> t \in d.from..d.to - 1
    BY <2>1 DEF Covers
  <2>3. IsActive(windows, t) => \E s \in UNION families : Covers(s, t)
    <3> SUFFICES ASSUME NEW w \in windows, InWindow(w, t)
                 PROVE  \E s \in UNION families : Covers(s, t)
      BY DEF IsActive
    <3>1. PICK day \in {Day(t) - 1, Day(t)} : Weekday(day) \in w.days /\ Covers(Span(w, day), t)
      BY <2>1, SpanHolds
    <3>2. day \in days
      BY <1>1, <2>1
    <3>3. Span(w, day) \in SpansOfDay(windows, day)
      BY <3>1 DEF SpansOfDay
    <3> QED
      BY <3>1, <3>2, <3>3
  <2>4. ASSUME NEW s \in UNION families, Covers(s, t) PROVE IsActive(windows, t)
    <3>1. PICK day \in days : s \in SpansOfDay(windows, day)
      OBVIOUS
    <3>2. PICK w \in windows : Weekday(day) \in w.days /\ s = Span(w, day)
      BY <3>1 DEF SpansOfDay
    <3>3. InWindow(w, t)
      BY <1>1, <2>1, <2>4, <3>2, HeldBySpan
    <3> QED
      BY <3>3 DEF IsActive
  <2> HIDE DEF families
  <2> QED
    BY <2>2, <2>3, <2>4 DEF ListActive
<1>9. held = charged
  BY <1>8
<1> HIDE DEF spans
<1>10. MergedLength(Clipped(spans, from, to)) = Cardinality(held)
  BY <1>5, <1>6, LengthOfClipped
<1> QED
  BY <1>7, <1>9, <1>10

LEMMA RuleSecondsHold == ASSUME ScheduleTypes PROVE RuleSecondsExact
<1>1. /\ minute \in Nat /\ (\A w \in Plan : Proper(w)) /\ IsFiniteSet(Plan)
      /\ detox \in SUBSET [from : Nat, to : Nat] /\ IsFiniteSet(detox)
  BY PlanFits
<1>2. \A t : ListActive(Plan, detox, t) <=> (IsActive(Plan, t) \/ InDetox(t))
  BY DEF ListActive, InDetox
<1> SUFFICES ASSUME NEW from \in 0..minute
             PROVE  RuleSeconds(Plan, detox, from, minute) =
                        Cardinality({t \in from..minute - 1 : IsActive(Plan, t) \/ InDetox(t)})
  BY DEF RuleSecondsExact
<1>3. RuleSeconds(Plan, detox, from, minute)
          = Cardinality({t \in from..minute - 1 : ListActive(Plan, detox, t)})
  BY <1>1, RuleSecondsAre
<1>4. {t \in from..minute - 1 : ListActive(Plan, detox, t)}
          = {t \in from..minute - 1 : IsActive(Plan, t) \/ InDetox(t)}
  BY <1>2
<1> QED
  BY <1>3, <1>4

\* What a visit is charged today.
LEMMA DayChargesHold == ASSUME ScheduleTypes PROVE DayChargeExact
<1>1. /\ minute \in Nat /\ (\A w \in Plan : Proper(w)) /\ IsFiniteSet(Plan)
      /\ detox \in SUBSET [from : Nat, to : Nat] /\ IsFiniteSet(detox)
  BY PlanFits
<1>2. \A t : ListActive(Plan, detox, t) <=> (IsActive(Plan, t) \/ InDetox(t))
  BY DEF ListActive, InDetox
<1> SUFFICES ASSUME NEW from \in 0..minute, NEW to \in from..minute
             PROVE  UsedOnDay(Plan, detox, from, to, minute) =
                        Cardinality({t \in from..to - 1 :
                            Day(t) = Day(minute) /\ (IsActive(Plan, t) \/ InDetox(t))})
  BY DEF DayChargeExact
<1> DEFINE today == Day(minute)
           begin == today * DayLength
           first == Max({from, begin})
           last == Min({to, minute, begin + DayLength})
           charged == {t \in from..to - 1 :
                          Day(t) = today /\ (IsActive(Plan, t) \/ InDetox(t))}
<1>4. /\ from \in Nat /\ to \in Nat /\ from <= to /\ to <= minute
  BY <1>1
<1>13. /\ today \in Int /\ begin \in Int /\ minute = begin + OfDay(minute)
       /\ OfDay(minute) \in 0..DayLength - 1 /\ DayLength \in Nat \ {0}
  <2>1. today \in Int /\ minute = begin + OfDay(minute) /\ OfDay(minute) \in 0..DayLength - 1
    BY <1>1, DayOfMinute
  <2> HIDE DEF today
  <2> QED
    BY <2>1, Lengths
<1> HIDE DEF today, begin, first, last, charged
<1>14. begin = today * DayLength /\ (today + 1) * DayLength = begin + DayLength
  BY <1>13, NextDayBegins DEF begin
<1>3. begin <= minute /\ minute < begin + DayLength
  BY <1>1, <1>13
<1>12. first = IF from >= begin THEN from ELSE begin
  BY <1>4, <1>13, LaterOf DEF first
<1>5. last = to
  <2> DEFINE limit == begin + DayLength
             S == {to, minute, limit}
  <2>1. limit \in Int /\ to <= limit /\ minute \in Int /\ to \in Int /\ to <= minute
    BY <1>1, <1>3, <1>4, <1>13
  <2> HIDE DEF limit
  <2>2. to \in S /\ \A x \in S : to <= x
    BY <2>1
  <2>3. Min(S) \in S /\ \A x \in S : Min(S) <= x
    BY <2>2 DEF Min
  <2>4. \A x \in S : x \in Int
    BY <2>1
  <2>5. last = Min(S)
    BY DEF last, limit
  <2> HIDE DEF S
  <2>6. last \in Int /\ last <= to /\ to <= last
    BY <2>2, <2>3, <2>4, <2>5
  <2> QED
    BY <2>1, <2>6
<1>6. \A t \in from..to - 1 : Day(t) = today <=> t >= begin
  <2> SUFFICES ASSUME NEW t \in from..to - 1 PROVE Day(t) = today <=> t >= begin
    OBVIOUS
  <2>1. t \in Int /\ t < minute
    BY <1>1, <1>4
  <2>2. Day(t) = today => t >= begin
    <3>1. t = Day(t) * DayLength + OfDay(t) /\ OfDay(t) \in Nat
      BY <2>1, DayOfMinute, Lengths
    <3> QED
      BY <1>13, <1>14, <2>1, <3>1
  <2>3. t >= begin => Day(t) = today
    <3>1. t < begin + DayLength
      BY <1>1, <1>3, <1>13, <2>1
    <3> QED
      BY <1>13, <1>14, <2>1, <3>1, OneDay
  <2> QED
    BY <2>2, <2>3
<1>7. UsedOnDay(Plan, detox, from, to, minute) =
          IF to <= first THEN 0 ELSE RuleSeconds(Plan, detox, first, to)
  BY <1>5 DEF UsedOnDay, today, begin, first, last
<1>8. first \in Int
  BY <1>4, <1>12, <1>13
<1>9. charged = {t \in first..to - 1 : ListActive(Plan, detox, t)}
  <2>1. \A t \in Int : t \in first..to - 1 <=> (t \in from..to - 1 /\ t >= begin)
    BY <1>4, <1>12, <1>13
  <2>2. first..to - 1 \subseteq Int /\ from..to - 1 \subseteq Int
    BY <1>4, <1>8
  <2> QED
    BY <1>2, <1>6, <2>1, <2>2 DEF charged
<1>10. CASE to <= first
  <2>1. charged = {}
    BY <1>4, <1>8, <1>9, <1>10
  <2>2. Cardinality(charged) = 0
    BY <2>1, FS_EmptySet
  <2> QED
    BY <1>7, <1>10, <2>2 DEF charged, today
<1>11. CASE ~(to <= first)
  <2>1. RuleSeconds(Plan, detox, first, to)
            = Cardinality({t \in first..to - 1 : ListActive(Plan, detox, t)})
    BY <1>1, <1>4, <1>8, RuleSecondsAre
  <2> QED
    BY <1>7, <1>9, <1>11, <2>1 DEF charged, today
<1> QED
  BY <1>10, <1>11

-------------------------------------------------------------------------------
(* Schedules: what a schedule's total grows by.                               *)

LEMMA ActiveBySpan ==
    ASSUME NEW windows, \A w \in windows : Proper(w), NEW t \in Int
    PROVE  /\ IsActive(windows, t)
              => \E day \in {Day(t) - 1, Day(t)} : \E s \in SpansOfDay(windows, day) : Covers(s, t)
           /\ \A day \in Int : (\E s \in SpansOfDay(windows, day) : Covers(s, t))
                               => IsActive(windows, t) /\ day \in {Day(t) - 1, Day(t)}
<1>1. ASSUME NEW w \in windows, InWindow(w, t)
      PROVE  \E day \in {Day(t) - 1, Day(t)} : \E s \in SpansOfDay(windows, day) : Covers(s, t)
  <2>1. PICK day \in {Day(t) - 1, Day(t)} : Weekday(day) \in w.days /\ Covers(Span(w, day), t)
    BY <1>1, SpanHolds
  <2>2. Span(w, day) \in SpansOfDay(windows, day)
    BY <2>1 DEF SpansOfDay
  <2> QED
    BY <2>1, <2>2
<1>2. ASSUME NEW day \in Int, NEW s \in SpansOfDay(windows, day), Covers(s, t)
      PROVE  IsActive(windows, t) /\ day \in {Day(t) - 1, Day(t)}
  <2>1. PICK w \in windows : Weekday(day) \in w.days /\ s = Span(w, day)
    BY DEF SpansOfDay
  <2>2. InWindow(w, t) /\ day \in {Day(t) - 1, Day(t)}
    BY <1>2, <2>1, HeldBySpan
  <2> QED
    BY <2>2 DEF IsActive
<1> QED
  BY <1>1, <1>2 DEF IsActive

LEMMA WeekdayAfter ==
    ASSUME NEW day \in Int
    PROVE  Weekday(Weekday(day) + 1) = Weekday(day + 1)
<1> DEFINE r == Weekday(day)
<1>1. PICK k \in Int : day = k * WeekLength + r
  BY Weekdays
<1>2. r \in 0..WeekLength - 1 /\ WeekLength \in Nat \ {0} /\ k * WeekLength \in Int
  BY Weekdays, Lengths
<1> HIDE DEF r
<1>3. CASE r + 1 < WeekLength
  <2> DEFINE q == r + 1
  <2>1. q \in 0..WeekLength - 1 /\ q = 0 * WeekLength + q /\ day + 1 = k * WeekLength + q
    BY <1>1, <1>2, <1>3
  <2> HIDE DEF q
  <2>2. Weekday(q) = q /\ Weekday(day + 1) = q
    BY <2>1, OneWeekday
  <2> QED
    BY <2>2 DEF q, r
<1>4. CASE r + 1 = WeekLength
  <2> DEFINE j == k + 1
  <2>1. j \in Int /\ j * WeekLength + 0 = day + 1 /\ 1 * WeekLength + 0 = r + 1
        /\ 0 \in 0..WeekLength - 1
    BY <1>1, <1>2, <1>4
  <2> HIDE DEF j
  <2>2. Weekday(j * WeekLength + 0) = 0 /\ Weekday(1 * WeekLength + 0) = 0
    BY <2>1, OneWeekday
  <2> QED
    BY <2>1, <2>2 DEF r
<1> QED
  BY <1>2, <1>3, <1>4

\* A minute is of one day's windows, if none goes on when one of the next day begins.
LEMMA SpansApart ==
    ASSUME NEW windows, \A w \in windows : Proper(w), ~OverlapsTomorrow(windows),
           NEW t \in Int, NEW day \in Int, NEW other \in Int, other < day,
           NEW s \in SpansOfDay(windows, other), NEW r \in SpansOfDay(windows, day),
           Covers(s, t), Covers(r, t)
    PROVE  FALSE
<1>1. day \in {Day(t) - 1, Day(t)} /\ other \in {Day(t) - 1, Day(t)} /\ Day(t) \in Int
  BY ActiveBySpan, DayOfMinute
<1>2. day = other + 1
  BY <1>1
<1>3. PICK w \in windows : Weekday(other) \in w.days /\ s = Span(w, other)
  BY DEF SpansOfDay
<1>4. PICK v \in windows : Weekday(day) \in v.days /\ r = Span(v, day)
  BY DEF SpansOfDay
<1> DEFINE begin == day * DayLength
<1>5. /\ begin \in Int /\ begin = other * DayLength + DayLength /\ DayLength \in Nat
      /\ other * DayLength \in Int
  BY <1>2, NextDayBegins, Lengths
<1>6. r.from = begin + v.start
  BY <1>4, SpanOf
<1>7. /\ ~Overnight(w) => s.to = other * DayLength + w.end
      /\ Overnight(w) => s.to = begin + w.end
  BY <1>2, <1>3, SpanOf
<1>8. w.end \in 0..DayLength - 1 /\ v.start \in 0..DayLength - 1
  BY WindowFields
<1>9. r.from <= t /\ t < s.to
  BY DEF Covers
<1> HIDE DEF begin
<1>10. Overnight(w) /\ v.start < w.end
  BY <1>5, <1>6, <1>7, <1>8, <1>9
<1>11. /\ Weekday(other) \in 0..WeekLength - 1
       /\ Weekday(Weekday(other) + 1) = Weekday(day)
  BY <1>2, Weekdays, WeekdayAfter
<1> QED
  BY <1>3, <1>4, <1>10, <1>11 DEF OverlapsTomorrow

Clamp(t, from, to) == IF t < from THEN from ELSE IF t > to THEN to ELSE t

\* What the windows of one day add.
LEMMA DaysShare ==
    ASSUME NEW windows, \A w \in windows : Proper(w), IsFiniteSet(windows),
           NEW from \in Int, NEW to \in Int, from <= to, NEW day \in Int
    PROVE  LET held == {t \in from..to - 1 : \E s \in SpansOfDay(windows, day) : Covers(s, t)}
               length == MergedLength(Clipped(SpansOfDay(windows, day), from, to))
           IN  /\ IsFiniteSet(held) /\ length = Cardinality(held) /\ length \in Nat
               /\ length <= Clamp((day + 2) * DayLength, from, to) - Clamp(day * DayLength, from, to)
<1> DEFINE spans == SpansOfDay(windows, day)
           held == {t \in from..to - 1 : \E s \in spans : Covers(s, t)}
           length == MergedLength(Clipped(spans, from, to))
           first == Clamp(day * DayLength, from, to)
           last == Clamp((day + 2) * DayLength, from, to)
<1>1. spans \in SUBSET [from : Int, to : Int] /\ IsFiniteSet(spans)
  BY DaysSpans
<1>2. IsFiniteSet(held) /\ length = Cardinality(held) /\ length \in Nat
  <2> HIDE DEF spans
  <2>1. /\ IsFiniteSet(held) /\ Cardinality(held) \in Nat
        /\ MergedLength(Clipped(spans, from, to)) = Cardinality(held)
    BY <1>1, LengthOfClipped, Zenon
  <2> HIDE DEF held
  <2> QED
    BY <2>1
<1>3. /\ day * DayLength \in Int /\ (day + 2) * DayLength = day * DayLength + 2 * DayLength
      /\ (day + 1) * DayLength = day * DayLength + DayLength
      /\ DayLength \in Nat \ {0}
  BY Lengths
<1>4. first \in Int /\ last \in Int /\ first <= last
  <2> DEFINE begin == day * DayLength
  <2> HIDE DEF begin
  <2> QED
    BY <1>3 DEF Clamp, begin
<1>5. held \subseteq first..last - 1
  <2> SUFFICES ASSUME NEW t \in held PROVE t \in first..last - 1
    OBVIOUS
  <2>1. PICK s \in spans : Covers(s, t)
    OBVIOUS
  <2>2. PICK w \in windows : s = Span(w, day)
    BY <2>1 DEF SpansOfDay
  <2> DEFINE begin == day * DayLength
  <2>3. /\ begin <= s.from /\ s.to < begin + 2 * DayLength /\ s.from \in Int /\ s.to \in Int
    <3>1. /\ Span(w, day).from \in Int /\ Span(w, day).to \in Int
          /\ day * DayLength <= Span(w, day).from
          /\ Span(w, day).to < (day + 1) * DayLength + DayLength
      BY <2>2, SpanBegins
    <3>2. begin + 2 * DayLength = (day + 1) * DayLength + DayLength
      BY <1>3
    <3> HIDE DEF begin
    <3>3. begin <= Span(w, day).from
      BY <3>1 DEF begin
    <3> QED
      BY <2>2, <3>1, <3>2, <3>3
  <2>4. t \in Int /\ from <= t /\ t < to /\ s.from <= t /\ t < s.to
    BY <2>1 DEF Covers
  <2>5. first = Clamp(begin, from, to) /\ last = Clamp(begin + 2 * DayLength, from, to)
        /\ begin \in Int
    BY <1>3
  <2> HIDE DEF begin, first, last
  <2> QED
    BY <1>3, <1>4, <2>3, <2>4, <2>5 DEF Clamp
<1> HIDE DEF held, first, last
<1>6. length <= last - first
  <2> DEFINE minutes == first..last - 1
  <2>1. IsFiniteSet(minutes) /\ Cardinality(minutes) = last - first
    BY <1>4, MinutesOf
  <2> HIDE DEF minutes
  <2>2. held \in SUBSET minutes
    BY <1>5 DEF minutes
  <2>3. Cardinality(held) <= Cardinality(minutes)
    BY <2>1, <2>2, FS_Subset
  <2> QED
    BY <1>2, <2>1, <2>3
<1> QED
  BY <1>2, <1>6 DEF held, first, last

\* A sum whose rows each add no more than a limit grows over two rows.
LEMMA BoundedTotal ==
    ASSUME NEW size \in Nat, NEW amounts \in [1..size -> Nat],
           NEW from \in Int, NEW to \in Int,
           NEW limit \in [1..size + 2 -> from..to],
           \A n \in 1..size : amounts[n] <= limit[n + 2] - limit[n]
    PROVE  0 <= Total(amounts) /\ Total(amounts) <= 2 * (to - from)
<1>1. amounts \in Seq(Int) /\ Len(amounts) = size
  OBVIOUS
<1>2. PICK f \in [0..size -> Int] :
          /\ f[0] = 0 /\ Total(amounts) = f[size]
          /\ \A n \in 1..size : f[n] = f[n - 1] + amounts[n]
  BY <1>1, TotalIsDefined
<1>3. \A n \in 1..size + 2 : limit[n] \in Int /\ from <= limit[n] /\ limit[n] <= to
  OBVIOUS
<1> DEFINE N == {n \in Nat : n <= size =>
                    0 <= f[n] /\ f[n] <= limit[n + 1] + limit[n + 2] - 2 * from}
<1>4. size = 0 => 2 * (to - from) >= 0
  <2>1. 1 \in 1..size + 2
    OBVIOUS
  <2> QED
    BY <1>3, <2>1
<1>5. 0 \in N
  <2>1. 1 \in 1..size + 2 /\ 2 \in 1..size + 2
    OBVIOUS
  <2>2. 0 <= limit[0 + 1] + limit[0 + 2] - 2 * from
    BY <1>3, <2>1
  <2> QED
    BY <1>2, <2>2
<1>6. ASSUME NEW n \in Nat, n \in N PROVE n + 1 \in N
  <2> SUFFICES ASSUME n + 1 <= size
               PROVE  /\ 0 <= f[n + 1]
                      /\ f[n + 1] <= limit[n + 1 + 1] + limit[n + 1 + 2] - 2 * from
    OBVIOUS
  <2> DEFINE k == n + 1
  <2>1. k \in 1..size /\ k - 1 = n /\ n \in 0..size /\ n + 1 = k /\ n + 2 = k + 1
    OBVIOUS
  <2>2. 0 <= f[n] /\ f[n] <= limit[k] + limit[k + 1] - 2 * from
    BY <1>6, <2>1
  <2> HIDE DEF k
  <2>3. f[k] = f[n] + amounts[k] /\ f[n] \in Int /\ amounts[k] \in Nat
        /\ amounts[k] <= limit[k + 2] - limit[k]
    BY <1>2, <2>1
  <2>4. limit[k] \in Int /\ limit[k + 1] \in Int /\ limit[k + 2] \in Int
    <3>1. k \in 1..size + 2 /\ k + 1 \in 1..size + 2 /\ k + 2 \in 1..size + 2
      BY <2>1
    <3> QED
      BY <1>3, <3>1
  <2>5. 0 <= f[k] /\ f[k] <= limit[k + 1] + limit[k + 2] - 2 * from
    <3> DEFINE a == limit[k]
               b == limit[k + 1]
               c == limit[k + 2]
               sum == f[n]
               share == amounts[k]
               twice == 2 * from
    <3>1. /\ a \in Int /\ b \in Int /\ c \in Int /\ twice \in Int
          /\ sum \in Int /\ share \in Int
          /\ 0 <= sum /\ 0 <= share /\ sum <= a + b - twice /\ share <= c - a
      <4>1. a \in Int /\ b \in Int /\ c \in Int
        BY <2>4
      <4>2. sum \in Int /\ 0 <= sum /\ sum <= a + b - twice
        BY <2>2, <2>3
      <4>3. share \in Nat /\ share <= c - a
        BY <2>3
      <4>4. twice \in Int
        OBVIOUS
      <4> HIDE DEF a, b, c, sum, share, twice
      <4> QED
        BY <4>1, <4>2, <4>3, <4>4
    <3>2. f[k] = sum + share
      BY <2>3
    <3> HIDE DEF a, b, c, sum, share, twice
    <3>3. 0 <= sum + share /\ sum + share <= b + c - twice
      BY <3>1
    <3> QED
      BY <3>2, <3>3 DEF b, c, twice
  <2> QED
    BY <2>1, <2>5
<1>7. size \in N
  <2> HIDE DEF N
  <2> QED
    BY <1>5, <1>6, InductiveSet
<1>8. /\ 0 <= f[size] /\ f[size] <= limit[size + 1] + limit[size + 2] - 2 * from
      /\ f[size] \in Int
  BY <1>7
<1>9. /\ limit[size + 1] \in Int /\ limit[size + 1] <= to
      /\ limit[size + 2] \in Int /\ limit[size + 2] <= to
  <2>1. size + 1 \in 1..size + 2 /\ size + 2 \in 1..size + 2
    OBVIOUS
  <2> QED
    BY <1>3, <2>1
<1> QED
  BY <1>2, <1>8, <1>9

LEMMA SecondsAreBounded ==
    ASSUME NEW windows, \A w \in windows : Proper(w), IsFiniteSet(windows),
           NEW from \in Int, NEW to \in Int, from <= to
    PROVE  ScheduleSeconds(windows, from, to) \in 0..2 * (to - from)
<1> DEFINE before == Day(from) - 2
           size == Day(to) - Day(from) + 2
           amount(n) == MergedLength(Clipped(SpansOfDay(windows, before + n), from, to))
           amounts == [n \in 1..size |-> amount(n)]
           limit == [n \in 1..size + 2 |-> Clamp((before + n) * DayLength, from, to)]
<1>1. before \in Int /\ size \in Nat
  BY DayOfMinute, LaterDays
<1>2. ScheduleSeconds(windows, from, to) = Total(amounts)
  BY DEF ScheduleSeconds
<1> HIDE DEF before, size
<1>3. limit \in [1..size + 2 -> from..to]
  <2>1. \A n \in 1..size + 2 : (before + n) * DayLength \in Int
    BY <1>1, Lengths
  <2>2. \A n \in 1..size + 2 : Clamp((before + n) * DayLength, from, to) \in from..to
    <3> SUFFICES ASSUME NEW n \in 1..size + 2
                 PROVE  Clamp((before + n) * DayLength, from, to) \in from..to
      OBVIOUS
    <3> DEFINE t == (before + n) * DayLength
    <3>1. t \in Int
      BY <2>1
    <3> HIDE DEF t
    <3>2. Clamp(t, from, to) \in from..to
      BY <3>1 DEF Clamp
    <3> QED
      BY <3>2 DEF t
  <2> QED
    BY <2>2
<1>4. ASSUME NEW n \in 1..size
      PROVE  amount(n) \in Nat /\ amount(n) <= limit[n + 2] - limit[n]
  <2> DEFINE day == before + n
  <2>1. day \in Int /\ before + (n + 2) = day + 2 /\ n \in 1..size + 2 /\ n + 2 \in 1..size + 2
    BY <1>1
  <2>2. /\ limit[n] = Clamp(day * DayLength, from, to)
        /\ limit[n + 2] = Clamp((day + 2) * DayLength, from, to)
    BY <2>1
  <2> HIDE DEF day, limit
  <2>3. LET length == MergedLength(Clipped(SpansOfDay(windows, day), from, to))
        IN  /\ length \in Nat
            /\ length <= Clamp((day + 2) * DayLength, from, to) - Clamp(day * DayLength, from, to)
    BY <2>1, DaysShare
  <2> QED
    BY <2>2, <2>3 DEF day
<1>5. amounts \in [1..size -> Nat] /\ \A n \in 1..size : amounts[n] = amount(n)
  BY <1>4
<1>6. \A n \in 1..size : amounts[n] <= limit[n + 2] - limit[n]
  BY <1>4, <1>5
<1> HIDE DEF amounts, limit
<1>7. 0 <= Total(amounts) /\ Total(amounts) <= 2 * (to - from)
  BY <1>1, <1>3, <1>5, <1>6, BoundedTotal
<1>8. Total(amounts) \in Int
  <2>1. amounts \in Seq(Int)
    BY <1>1, <1>5
  <2> QED
    BY <2>1, TotalType
<1> QED
  BY <1>2, <1>7, <1>8

\* Where no window goes on when one of the next day begins, the days add up to the minutes
\* at which the schedule was active.
LEMMA SecondsAreExact ==
    ASSUME NEW windows, \A w \in windows : Proper(w), IsFiniteSet(windows),
           NEW from \in Int, NEW to \in Int, from <= to, ~OverlapsTomorrow(windows)
    PROVE  ScheduleSeconds(windows, from, to)
               = Cardinality({t \in from..to - 1 : IsActive(windows, t)})
<1> DEFINE before == Day(from) - 2
           size == Day(to) - Day(from) + 2
           amount(n) == MergedLength(Clipped(SpansOfDay(windows, before + n), from, to))
           amounts == [n \in 1..size |-> amount(n)]
           On(t, day) == \E s \in SpansOfDay(windows, day) : Covers(s, t)
           held(day) == {t \in from..to - 1 : On(t, day)}
           heldBy(n) == {t \in from..to - 1 : \E k \in 1..n : On(t, before + k)}
<1>1. before \in Int /\ size \in Nat
  BY DayOfMinute, LaterDays
<1>2. ScheduleSeconds(windows, from, to) = Total(amounts)
  BY DEF ScheduleSeconds
<1>3. heldBy(size) = {t \in from..to - 1 : IsActive(windows, t)}
  <2> SUFFICES ASSUME NEW t \in from..to - 1
               PROVE  (\E k \in 1..size : On(t, before + k)) <=> IsActive(windows, t)
    OBVIOUS
  <2>1. /\ t \in Int /\ Day(from) <= Day(t) /\ Day(t) <= Day(to) /\ Day(t) \in Int
        /\ Day(from) \in Int /\ Day(to) \in Int
    BY LaterDays, DayOfMinute
  <2>2. ASSUME IsActive(windows, t) PROVE \E k \in 1..size : On(t, before + k)
    <3>1. PICK day \in {Day(t) - 1, Day(t)} : On(t, day)
      BY <2>1, <2>2, ActiveBySpan
    <3> DEFINE k == day - before
    <3>2. k \in 1..size /\ before + k = day
      BY <2>1
    <3> HIDE DEF k
    <3> QED
      BY <3>1, <3>2
  <2>3. ASSUME NEW k \in 1..size, On(t, before + k) PROVE IsActive(windows, t)
    <3> DEFINE day == before + k
    <3>1. day \in Int /\ On(t, day)
      BY <1>1, <2>3
    <3> HIDE DEF day
    <3> QED
      BY <2>1, <3>1, ActiveBySpan
  <2> HIDE DEF On, before, size
  <2> QED
    BY <2>2, <2>3
<1> HIDE DEF before, size
<1>4. ASSUME NEW n \in 1..size
      PROVE  /\ amount(n) = Cardinality(held(before + n)) /\ amount(n) \in Nat
             /\ IsFiniteSet(held(before + n))
  <2> DEFINE day == before + n
  <2>1. day \in Int
    BY <1>1
  <2> HIDE DEF day
  <2>3. LET those == {t \in from..to - 1 : \E s \in SpansOfDay(windows, day) : Covers(s, t)}
            length == MergedLength(Clipped(SpansOfDay(windows, day), from, to))
        IN  /\ IsFiniteSet(those) /\ length = Cardinality(those) /\ length \in Nat
            /\ length <= Clamp((day + 2) * DayLength, from, to) - Clamp(day * DayLength, from, to)
    BY <2>1, DaysShare
  <2>2. LET length == MergedLength(Clipped(SpansOfDay(windows, day), from, to))
        IN  IsFiniteSet(held(day)) /\ length = Cardinality(held(day)) /\ length \in Nat
    BY <2>3
  <2> QED
    BY <2>2 DEF day
<1>5. amounts \in Seq(Int) /\ Len(amounts) = size /\ \A n \in 1..size : amounts[n] = amount(n)
  <2>1. amounts \in [1..size -> Nat] /\ \A n \in 1..size : amounts[n] = amount(n)
    BY <1>4
  <2> HIDE DEF amounts, amount
  <2> QED
    BY <1>1, <2>1
<1>6. PICK f \in [0..size -> Int] :
          /\ f[0] = 0 /\ Total(amounts) = f[size]
          /\ \A n \in 1..size : f[n] = f[n - 1] + amounts[n]
  <2> HIDE DEF amounts
  <2> QED
    BY <1>5, TotalIsDefined
<1> DEFINE N == {n \in Nat : n <= size =>
                    IsFiniteSet(heldBy(n)) /\ f[n] = Cardinality(heldBy(n))}
<1>7. 0 \in N
  <2>1. heldBy(0) = {}
    OBVIOUS
  <2> HIDE DEF heldBy
  <2> QED
    BY <1>6, <2>1, FS_EmptySet
<1>8. ASSUME NEW n \in Nat, n \in N PROVE n + 1 \in N
  <2> SUFFICES ASSUME n + 1 <= size
               PROVE  IsFiniteSet(heldBy(n + 1)) /\ f[n + 1] = Cardinality(heldBy(n + 1))
    OBVIOUS
  <2> DEFINE k == n + 1
             day == before + k
  <2>1. k \in 1..size /\ k - 1 = n /\ n \in 0..size /\ k \in Nat
    BY <1>1
  <2>2. IsFiniteSet(heldBy(n)) /\ f[n] = Cardinality(heldBy(n))
    BY <1>8, <2>1
  <2>3. heldBy(k) = heldBy(n) \cup held(day)
    <3>1. \A j : j \in 1..k <=> (j \in 1..n \/ j = k)
      OBVIOUS
    <3> HIDE DEF k, On
    <3> QED
      BY <3>1
  <2>4. heldBy(n) \cap held(day) = {}
    <3> SUFFICES ASSUME NEW t \in from..to - 1, NEW j \in 1..n, On(t, before + j), On(t, day)
                 PROVE  FALSE
      OBVIOUS
    <3>1. t \in Int
      OBVIOUS
    <3> DEFINE other == before + j
    <3>2. other \in Int /\ day \in Int /\ other < day
      BY <1>1
    <3>3. PICK s \in SpansOfDay(windows, other) : Covers(s, t)
      OBVIOUS
    <3>4. PICK r \in SpansOfDay(windows, day) : Covers(r, t)
      OBVIOUS
    <3> HIDE DEF other, day
    <3> QED
      BY <3>1, <3>2, <3>3, <3>4, SpansApart
  <2>5. /\ amounts[k] = Cardinality(held(day)) /\ IsFiniteSet(held(day))
        /\ f[k] = f[n] + amounts[k]
    <3> HIDE DEF k, amounts, held
    <3>1. amounts[k] = amount(k)
      BY <1>5, <2>1
    <3> QED
      BY <1>4, <1>6, <2>1, <3>1
  <2> HIDE DEF k, day, amounts, held, heldBy
  <2>6. IsFiniteSet(heldBy(k)) /\ Cardinality(heldBy(k)) = Cardinality(heldBy(n)) + Cardinality(held(day))
    BY <2>2, <2>3, <2>4, <2>5, SumOfApart
  <2>7. IsFiniteSet(heldBy(k)) /\ f[k] = Cardinality(heldBy(k))
    BY <2>2, <2>5, <2>6
  <2> QED
    BY <2>7 DEF k
<1>9. size \in N
  <2> HIDE DEF N
  <2> QED
    BY <1>1, <1>7, <1>8, InductiveSet
<1>10. f[size] = Cardinality(heldBy(size))
  BY <1>9
<1> HIDE DEF heldBy, amounts
<1> QED
  BY <1>2, <1>3, <1>6, <1>10

-------------------------------------------------------------------------------
(* Schedules: the totals.                                                     *)

\* The time of a schedule up to a time.
ActiveBefore(minutes, t) == {u \in minutes : u < t}

\* A total that may be brought up to a time, and what it then is: right, if it was.
CanSync(windows, old, at) ==
    /\ (\A w \in windows : Proper(w)) /\ IsFiniteSet(windows) /\ at \in Nat
    /\ old \in [total : Int, until : Int] /\ old.until \in Nat
    /\ old.total \in 0..2 * old.until

IsSynced(new, windows, old, at) ==
    /\ new \in [total : Int, until : Int] /\ new.until \in Nat
    /\ new.until = IF at <= old.until THEN old.until ELSE at
    /\ new.total \in 0..2 * new.until
    /\ at <= old.until => new = old
    /\ \A minutes \in SUBSET Nat :
          /\ ~OverlapsTomorrow(windows)
          /\ \A t \in old.until..at - 1 : t \in minutes <=> IsActive(windows, t)
          /\ old.total = Cardinality(ActiveBefore(minutes, old.until))
          => new.total = Cardinality(ActiveBefore(minutes, new.until))

LEMMA SyncedFits ==
    ASSUME NEW windows, NEW old, NEW at, CanSync(windows, old, at)
    PROVE  IsSynced(Synced(old, windows, at), windows, old, at)
<1> DEFINE new == Synced(old, windows, at)
           from == old.until
           more == ScheduleSeconds(windows, from, at)
<1>0. /\ (\A w \in windows : Proper(w)) /\ IsFiniteSet(windows) /\ at \in Nat
      /\ old \in [total : Int, until : Int] /\ from \in Nat /\ old.total \in 0..2 * from
  BY DEF CanSync
<1>1. old # None
  BY <1>0, NoneIsNoRecord
<1>2. CASE at <= from
  <2>1. new = old
    BY <1>1, <1>2 DEF Synced
  <2>2. IsSynced(old, windows, old, at)
    <3>1. from = IF at <= from THEN from ELSE at
      BY <1>2
    <3>2. \A minutes \in SUBSET Nat :
             old.total = Cardinality(ActiveBefore(minutes, from))
             => old.total = Cardinality(ActiveBefore(minutes, from))
      OBVIOUS
    <3> QED
      BY <1>0, <3>1, <3>2 DEF IsSynced
  <2> QED
    BY <2>1, <2>2
<1>3. CASE ~(at <= from)
  <2>1. new = [total |-> old.total + more, until |-> at]
    BY <1>1, <1>3 DEF Synced
  <2>2. from \in Int /\ at \in Int /\ from <= at
    BY <1>0, <1>3
  <2>8. old.total \in 0..2 * from /\ old.total \in Int
    BY <1>0
  <2> HIDE DEF from
  <2>3. more \in 0..2 * (at - from)
    BY <1>0, <2>2, SecondsAreBounded
  <2> HIDE DEF more
  <2>4. /\ new \in [total : Int, until : Int] /\ new.total = old.total + more /\ new.until = at
        /\ old.total \in Int /\ old.total \in 0..2 * from
    BY <2>1, <2>2, <2>3, <2>8
  <2>5. new.total \in 0..2 * new.until
    BY <2>2, <2>3, <2>4
  <2>6. ASSUME NEW minutes \in SUBSET Nat, ~OverlapsTomorrow(windows),
               \A t \in from..at - 1 : t \in minutes <=> IsActive(windows, t),
               old.total = Cardinality(ActiveBefore(minutes, from))
        PROVE  new.total = Cardinality(ActiveBefore(minutes, at))
    <3> DEFINE early == ActiveBefore(minutes, from)
               late == {t \in from..at - 1 : IsActive(windows, t)}
    <3>1. more = Cardinality(late)
      BY <1>0, <2>2, <2>6, SecondsAreExact DEF more
    <3>2. early \cap late = {}
      BY <2>2 DEF ActiveBefore
    <3>3. ActiveBefore(minutes, at) = early \cup late
      <4>1. \A u \in Nat : u < at <=> (u < from \/ u \in from..at - 1)
        BY <2>2
      <4>2. \A u \in from..at - 1 : u \in Nat
        BY <1>0 DEF from
      <4> QED
        BY <2>6, <4>1, <4>2 DEF ActiveBefore
    <3>4. IsFiniteSet(early)
      <4>1. early \in SUBSET (0..from - 1) /\ IsFiniteSet(0..from - 1)
        <5> DEFINE last == from - 1
        <5>3. \A u \in early : u \in Nat /\ u < from
          BY <2>6 DEF ActiveBefore
        <5>4. last \in Int /\ \A u \in Nat : u < from => u \in 0..last
          BY <2>2
        <5>1. last \in Int /\ early \in SUBSET (0..last)
          BY <5>3, <5>4
        <5> HIDE DEF last, early
        <5>2. IsFiniteSet(0..last)
          BY <5>1, FS_Interval
        <5> QED
          BY <5>1, <5>2 DEF last
      <4> HIDE DEF early
      <4> QED
        BY <4>1, FS_Subset
    <3>5. IsFiniteSet(late)
      <4>1. late \in SUBSET (from..at - 1) /\ IsFiniteSet(from..at - 1)
        BY <2>2, MinutesOf
      <4> HIDE DEF late
      <4> QED
        BY <4>1, FS_Subset
    <3> HIDE DEF early, late
    <3>6. Cardinality(early \cup late) = Cardinality(early) + Cardinality(late)
      BY <3>2, <3>4, <3>5, SumOfApart
    <3>7. old.total = Cardinality(early)
      BY <2>6 DEF early
    <3> QED
      BY <2>4, <3>1, <3>3, <3>6, <3>7
  <2>7. new.until = IF at <= from THEN from ELSE at
    BY <1>3, <2>4
  <2> QED
    BY <1>0, <1>3, <2>2, <2>4, <2>5, <2>6, <2>7 DEF from, IsSynced
<1> QED
  BY <1>2, <1>3

\* The inductive invariant: what a total says of the past, and that from then on the
\* schedule has had the windows it has now.
TotalsFit ==
    /\ totals \in [total : Int, until : Int] /\ totals.until \in 0..minute
    /\ totals.total \in 0..2 * totals.until
    /\ activeAt \subseteq 0..minute - 1 /\ revived \in BOOLEAN /\ overlapped \in BOOLEAN
    /\ ~overlapped => ~OverlapsTomorrow(Plan)
    /\ ~revived => \A t \in totals.until..minute - 1 : t \in activeAt <=> IsActive(Plan, t)
    /\ ~revived /\ ~overlapped
       => totals.total = Cardinality(ActiveBefore(activeAt, totals.until))

TimesFit == ScheduleTypes /\ TotalsFit

LEMMA NothingOverlaps == ~OverlapsTomorrow({}) /\ \A t : ~IsActive({}, t)
BY DEF OverlapsTomorrow, IsActive

LEMMA TimesBegin == ScheduleInit => TimesFit
<1> SUFFICES ASSUME ScheduleInit PROVE TimesFit
  OBVIOUS
<1>1. ScheduleTypes
  <2>1. MaxMinute \in Nat /\ MaxEdits \in Nat
    BY ScheduleAssumption
  <2> QED
    BY <2>1 DEF ScheduleInit, ScheduleTypes
<1>2. totals = [total |-> 0, until |-> 0] /\ minute = 0 /\ activeAt = {} /\ revived = FALSE
  BY DEF ScheduleInit, Synced
<1>3. overlapped = OverlapsTomorrow(schedule)
  BY DEF ScheduleInit
<1>4. overlapped \in BOOLEAN
  BY <1>3 DEF OverlapsTomorrow
<1>5. ~overlapped => ~OverlapsTomorrow(Plan)
  BY <1>3, NothingOverlaps DEF Plan
<1>6. Cardinality(ActiveBefore(activeAt, totals.until)) = 0
  <2>1. ActiveBefore(activeAt, totals.until) = {}
    BY <1>2 DEF ActiveBefore
  <2> QED
    BY <2>1, FS_EmptySet
<1>7. TotalsFit
  <2>1. /\ totals \in [total : Int, until : Int] /\ totals.until = 0 /\ totals.total = 0
    BY <1>2
  <2>2. /\ totals.until \in 0..minute /\ totals.total \in 0..2 * totals.until
        /\ activeAt \subseteq 0..minute - 1 /\ totals.until..minute - 1 = {}
    BY <1>2, <2>1
  <2> QED
    BY <1>2, <1>4, <1>5, <1>6, <2>1, <2>2 DEF TotalsFit
<1> QED
  BY <1>1, <1>7 DEF TimesFit

LEMMA MinutesPass == ASSUME TimesFit, PassMinute PROVE TimesFit'
<1>1. /\ minute \in Nat /\ minute' = minute + 1 /\ minute < MaxMinute /\ MaxMinute \in Nat
      /\ schedule' = schedule /\ detox' = detox /\ totals' = totals /\ edits' = edits
      /\ revived' = revived /\ overlapped' = overlapped /\ Plan' = Plan
      /\ totals.until \in Int /\ totals.until <= minute /\ totals.until \in Nat
  BY ScheduleAssumption DEF TimesFit, ScheduleTypes, TotalsFit, PassMinute, Plan
<1>2. ScheduleTypes'
  BY <1>1 DEF TimesFit, ScheduleTypes
<1>3. activeAt \subseteq 0..minute - 1
  BY DEF TimesFit, TotalsFit
<1>4. activeAt' = IF IsActive(Plan, minute) THEN activeAt \cup {minute} ELSE activeAt
  BY NothingOverlaps DEF PassMinute, Plan
<1>5. activeAt' \subseteq 0..minute' - 1
  BY <1>1, <1>3, <1>4
<1>6. ASSUME ~revived
      PROVE  \A t \in totals.until..minute' - 1 : t \in activeAt' <=> IsActive(Plan, t)
  <2>1. \A t \in totals.until..minute - 1 : t \in activeAt <=> IsActive(Plan, t)
    BY <1>6 DEF TimesFit, TotalsFit
  <2>2. \A t \in totals.until..minute' - 1 : t = minute \/ (t \in totals.until..minute - 1 /\ t # minute)
    BY <1>1
  <2>3. minute \notin activeAt
    BY <1>1, <1>3
  <2> QED
    BY <1>4, <2>1, <2>2, <2>3
<1>7. ActiveBefore(activeAt', totals.until) = ActiveBefore(activeAt, totals.until)
  BY <1>1, <1>3, <1>4 DEF ActiveBefore
<1>8. TotalsFit'
  <2>1. totals'.until \in 0..minute'
    BY <1>1
  <2> QED
    BY <1>1, <1>5, <1>6, <1>7, <2>1 DEF TimesFit, TotalsFit, ActiveBefore
<1> QED
  BY <1>2, <1>8 DEF TimesFit

LEMMA SummariesFit == ASSUME TimesFit, Summarize PROVE TimesFit'
<1>1. PICK at \in {minute, minute - 1} : at >= 0 /\ totals' = Synced(totals, schedule, at)
  BY DEF Summarize
<1>2. /\ schedule # None /\ Plan = schedule /\ Plan' = Plan
      /\ minute' = minute /\ schedule' = schedule /\ detox' = detox /\ edits' = edits
      /\ activeAt' = activeAt /\ revived' = revived /\ overlapped' = overlapped
  BY DEF Summarize, Plan
<1>3. ScheduleTypes /\ minute \in Nat /\ (\A w \in Plan : Proper(w)) /\ IsFiniteSet(Plan)
  BY PlanFits DEF TimesFit
<1>4. ScheduleTypes'
  BY <1>2, <1>3 DEF ScheduleTypes
<1>5. /\ totals \in [total : Int, until : Int] /\ totals.until \in 0..minute
      /\ totals.total \in 0..2 * totals.until
      /\ activeAt \subseteq 0..minute - 1 /\ revived \in BOOLEAN /\ overlapped \in BOOLEAN
      /\ ~overlapped => ~OverlapsTomorrow(Plan)
      /\ ~revived => \A t \in totals.until..minute - 1 : t \in activeAt <=> IsActive(Plan, t)
      /\ ~revived /\ ~overlapped
         => totals.total = Cardinality(ActiveBefore(activeAt, totals.until))
  BY DEF TimesFit, TotalsFit
<1>6. at \in Nat /\ at <= minute /\ totals.until \in Nat /\ activeAt \in SUBSET Nat
  BY <1>1, <1>3, <1>5
<1>7. totals' = Synced(totals, Plan, at)
  BY <1>1, <1>2
<1>8. /\ totals' \in [total : Int, until : Int] /\ totals'.until \in Nat
      /\ totals'.until = IF at <= totals.until THEN totals.until ELSE at
      /\ totals'.total \in 0..2 * totals'.until
      /\ \A minutes \in SUBSET Nat :
            /\ ~OverlapsTomorrow(Plan)
            /\ \A t \in totals.until..at - 1 : t \in minutes <=> IsActive(Plan, t)
            /\ totals.total = Cardinality(ActiveBefore(minutes, totals.until))
            => totals'.total = Cardinality(ActiveBefore(minutes, totals'.until))
  <2>1. CanSync(Plan, totals, at)
    BY <1>3, <1>5, <1>6 DEF CanSync
  <2>2. IsSynced(totals', Plan, totals, at)
    BY <1>7, <2>1, SyncedFits
  <2> QED
    BY <2>2 DEF IsSynced
<1>9. totals'.until \in 0..minute' /\ totals.until <= totals'.until
  BY <1>2, <1>3, <1>5, <1>6, <1>8
<1>10. ASSUME ~revived, ~overlapped
       PROVE  totals'.total = Cardinality(ActiveBefore(activeAt, totals'.until))
  <2>1. \A t \in totals.until..at - 1 : t \in totals.until..minute - 1
    BY <1>3, <1>6
  <2> QED
    BY <1>5, <1>6, <1>8, <1>10, <2>1
<1>11. ASSUME ~revived
       PROVE  \A t \in totals'.until..minute' - 1 : t \in activeAt <=> IsActive(Plan, t)
  <2>1. \A t \in totals'.until..minute' - 1 : t \in totals.until..minute - 1
    BY <1>2, <1>3, <1>5, <1>8, <1>9
  <2> QED
    BY <1>5, <1>11, <2>1
<1>12. TotalsFit'
  BY <1>2, <1>5, <1>8, <1>9, <1>10, <1>11 DEF TotalsFit, ActiveBefore
<1> QED
  BY <1>4, <1>12 DEF TimesFit

LEMMA EditsFit ==
    ASSUME TimesFit, NEW next \in Edits \cup {None}, EditSchedule(next)
    PROVE  TimesFit'
<1> DEFINE before == IF schedule = None THEN totals ELSE Synced(totals, schedule, minute)
<1>1. /\ totals' = (IF next = None THEN before ELSE Synced(before, next, minute))
      /\ schedule' = next /\ minute' = minute /\ detox' = detox /\ activeAt' = activeAt
      /\ edits > 0 /\ edits' = edits - 1
      /\ revived' = (revived \/ schedule = None)
      /\ overlapped' = (overlapped \/ (next # None /\ OverlapsTomorrow(next)))
  BY DEF EditSchedule
<1>2. ScheduleTypes /\ minute \in Nat /\ (\A w \in Plan : Proper(w)) /\ IsFiniteSet(Plan)
  BY PlanFits DEF TimesFit
<1>3. ScheduleTypes'
  <2>1. edits \in 0..MaxEdits /\ MaxEdits \in Nat
    BY <1>2, ScheduleAssumption DEF ScheduleTypes
  <2>2. edits' \in 0..MaxEdits
    BY <1>1, <2>1
  <2>3. schedule' \in Schedules \cup Edits \cup {None}
    BY <1>1
  <2> QED
    BY <1>1, <1>2, <2>2, <2>3 DEF ScheduleTypes
<1>4. (\A w \in Plan' : Proper(w)) /\ IsFiniteSet(Plan')
  <2>1. next # None => next \in Edits
    OBVIOUS
  <2>2. Plan' = IF next = None THEN {} ELSE next
    BY <1>1 DEF Plan
  <2> QED
    BY <2>1, <2>2, ScheduleAssumption, FS_EmptySet DEF Proper
<1>5. /\ totals \in [total : Int, until : Int] /\ totals.until \in 0..minute
      /\ totals.total \in 0..2 * totals.until
      /\ activeAt \subseteq 0..minute - 1 /\ revived \in BOOLEAN /\ overlapped \in BOOLEAN
      /\ ~overlapped => ~OverlapsTomorrow(Plan)
      /\ ~revived => \A t \in totals.until..minute - 1 : t \in activeAt <=> IsActive(Plan, t)
      /\ ~revived /\ ~overlapped
         => totals.total = Cardinality(ActiveBefore(activeAt, totals.until))
  BY DEF TimesFit, TotalsFit
<1>6. totals.until \in Nat /\ activeAt \in SUBSET Nat
  BY <1>2, <1>5
\* The totals before the edit: of now, unless there was no schedule.
<1>7. /\ before \in [total : Int, until : Int] /\ before.until \in 0..minute
      /\ before.total \in 0..2 * before.until
      /\ schedule # None => before.until = minute
      /\ schedule # None /\ ~revived /\ ~overlapped
         => before.total = Cardinality(ActiveBefore(activeAt, minute))
  <2>1. CASE schedule = None
    <3>1. before = totals
      BY <2>1
    <3> HIDE DEF before
    <3> QED
      BY <1>5, <2>1, <3>1
  <2>2. CASE schedule # None
    <3>1. before = Synced(totals, Plan, minute)
      BY <2>2 DEF Plan
    <3> HIDE DEF before
    <3>2. /\ before \in [total : Int, until : Int] /\ before.until \in Nat
          /\ before.until = IF minute <= totals.until THEN totals.until ELSE minute
          /\ before.total \in 0..2 * before.until
          /\ \A minutes \in SUBSET Nat :
                /\ ~OverlapsTomorrow(Plan)
                /\ \A t \in totals.until..minute - 1 : t \in minutes <=> IsActive(Plan, t)
                /\ totals.total = Cardinality(ActiveBefore(minutes, totals.until))
                => before.total = Cardinality(ActiveBefore(minutes, before.until))
      <4>1. CanSync(Plan, totals, minute)
        BY <1>2, <1>5, <1>6 DEF CanSync
      <4>2. IsSynced(before, Plan, totals, minute)
        BY <3>1, <4>1, SyncedFits
      <4> QED
        BY <4>2 DEF IsSynced
    <3>3. before.until = minute
      BY <1>2, <1>5, <3>2
    <3> QED
      BY <1>2, <1>5, <1>6, <3>2, <3>3
  <2> QED
    BY <2>1, <2>2
<1> HIDE DEF before
<1>8. /\ totals' \in [total : Int, until : Int] /\ totals'.until \in 0..minute
      /\ totals'.total \in 0..2 * totals'.until
      /\ schedule # None => totals' = before
  <2>1. CASE next = None
    BY <1>1, <1>7, <2>1
  <2>2. CASE next # None
    <3>1. totals' = Synced(before, Plan', minute)
      BY <1>1, <2>2 DEF Plan
    <3>2. CanSync(Plan', before, minute)
      BY <1>2, <1>4, <1>7 DEF CanSync
    <3>3. IsSynced(totals', Plan', before, minute)
      BY <3>1, <3>2, SyncedFits
    <3>4. /\ totals' \in [total : Int, until : Int] /\ totals'.until \in Nat
          /\ totals'.until = IF minute <= before.until THEN before.until ELSE minute
          /\ totals'.total \in 0..2 * totals'.until
          /\ minute <= before.until => totals' = before
      BY <3>3 DEF IsSynced
    <3> QED
      BY <1>2, <1>7, <3>4
  <2> QED
    BY <2>1, <2>2
<1>9. revived' \in BOOLEAN /\ (~revived' => schedule # None /\ ~revived)
  BY <1>1, <1>5
<1>10. overlapped' \in BOOLEAN /\ (~overlapped' => ~overlapped /\ ~OverlapsTomorrow(Plan'))
  <2>1. OverlapsTomorrow(next) \in BOOLEAN
    BY DEF OverlapsTomorrow
  <2>2. ~(next # None /\ OverlapsTomorrow(next)) => ~OverlapsTomorrow(Plan')
    BY <1>1, NothingOverlaps DEF Plan
  <2> QED
    BY <1>1, <1>5, <2>1, <2>2
<1>11. ASSUME ~revived'
       PROVE  totals' = before /\ totals'.until = minute
  BY <1>7, <1>8, <1>9, <1>11
<1>12. ASSUME ~revived'
       PROVE  \A t \in totals'.until..minute' - 1 : t \in activeAt <=> IsActive(Plan', t)
  <2>1. totals'.until..minute' - 1 = {}
    BY <1>1, <1>2, <1>11, <1>12
  <2> QED
    BY <2>1
<1>13. ASSUME ~revived', ~overlapped'
       PROVE  totals'.total = Cardinality(ActiveBefore(activeAt, totals'.until))
  BY <1>7, <1>9, <1>10, <1>11, <1>13
<1>14. TotalsFit'
  BY <1>1, <1>5, <1>8, <1>9, <1>10, <1>12, <1>13 DEF TotalsFit, ActiveBefore, IsActive
<1> QED
  BY <1>3, <1>14 DEF TimesFit

LEMMA TimesStep == TimesFit /\ [ScheduleNext]_scheduleVars => TimesFit'
<1> SUFFICES ASSUME TimesFit, [ScheduleNext]_scheduleVars PROVE TimesFit'
  OBVIOUS
<1>1. CASE PassMinute
  BY <1>1, MinutesPass
<1>2. CASE Summarize
  BY <1>2, SummariesFit
<1>3. ASSUME NEW next \in Edits \cup {None}, EditSchedule(next) PROVE TimesFit'
  BY <1>3, EditsFit
<1>4. CASE UNCHANGED scheduleVars
  BY <1>4 DEF scheduleVars, TimesFit, ScheduleTypes, TotalsFit, Plan, ActiveBefore, IsActive,
              OverlapsTomorrow
<1> QED
  BY <1>1, <1>2, <1>3, <1>4 DEF ScheduleNext

LEMMA TimesGive == ASSUME TimesFit PROVE ScheduleInvariant /\ TotalIsExact
<1>1. ScheduleTypes
  BY DEF TimesFit
<1>2. ScheduleTypeOK
  <2>1. minute \in Nat /\ totals.until \in 0..minute /\ totals.total \in 0..2 * totals.until
    BY <1>1, PlanFits DEF TimesFit, TotalsFit
  <2>2. totals.total \in 0..2 * minute
    BY <2>1
  <2> QED
    BY <2>1, <2>2 DEF TimesFit, ScheduleTypes, TotalsFit, ScheduleTypeOK
<1>3. TotalIsExact
  BY DEF TimesFit, TotalsFit, TotalIsExact, ActiveBefore
<1> QED
  BY <1>1, <1>2, <1>3, RuleSecondsHold, DayChargesHold, UntilIsSound DEF ScheduleInvariant

\* A schedule's total is the time it was active, through edits and late samples, where its
\* windows do not overlap over midnight and it was not deleted and added again.
THEOREM TotalsAreExact == ScheduleSpec => []TotalIsExact
<1>1. ScheduleSpec => []TimesFit
  BY TimesBegin, TimesStep, PTL DEF ScheduleSpec
<1>2. TimesFit => TotalIsExact
  BY TimesGive
<1> QED
  BY <1>1, <1>2, PTL

\* An allowance is charged the seconds at which its list was active, each once, and today's
\* of a visit over midnight; and until the time that a block names the schedule is active.
THEOREM SchedulesAreExact == ScheduleSpec => []ScheduleInvariant
<1>1. ScheduleSpec => []TimesFit
  BY TimesBegin, TimesStep, PTL DEF ScheduleSpec
<1>2. TimesFit => ScheduleInvariant
  BY TimesGive
<1> QED
  BY <1>1, <1>2, PTL

\* The repair loop sleeps over no turn of a schedule and no end of a Detox but those it
\* does not look for: the ends of yesterday's windows, and what begins meanwhile.
THEOREM TurnsWakeTheRepair == ScheduleSpec => []RepairMeetsTurns
<1>1. ScheduleSpec => []TimesFit
  BY TimesBegin, TimesStep, PTL DEF ScheduleSpec
<1>2. TimesFit => RepairMeetsTurns
  BY TurnsAreMet DEF TimesFit
<1> QED
  BY <1>1, <1>2, PTL
===============================================================================
