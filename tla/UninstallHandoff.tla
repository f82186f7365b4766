--------------------------- MODULE UninstallHandoff ---------------------------
(***************************************************************************)
(* Protected uninstall: prepare_uninstall (focusd/src/rpc.rs) suspends      *)
(* enforcement for UNINSTALL_HANDOFF_SECONDS, writes a lease the package    *)
(* manager's hooks accept, and takes BlocKuntu out of the browser policies  *)
(* and the hosts file, while the repair loop, the repairs other requests    *)
(* make and the repair-hosts tool of the hosts watcher put it back.         *)
(*                                                                          *)
(* The checks of prepare_uninstall and the changes it makes hold the core   *)
(* lock only in parts, and a repair asks whether a handoff is active before *)
(* it writes a file, not while it does.  Each such part is a step here.     *)
(*                                                                          *)
(* What a managed file holds (MergedPolicy, PolicyGuard!HostsFor) and the   *)
(* rules of protected access (PolicyGuard!AccessOpen) are reduced here to a *)
(* file being managed or not and to the set of instants access is open.     *)
(***************************************************************************)
EXTENDS Integers, Sequences, FiniteSets, SequencesExt

CONSTANTS
    Clients,        \* tasks that serve one client's requests each
    Loop,           \* the repair loop of the daemon
    HostsTool,      \* the repair-hosts process the hosts watcher starts
    Gecko,          \* Firefox-family policy files, in SupportedBrowser::MANAGED order
    Chromium,       \* Chromium-family policy files, in that order
    Hosts,          \* the hosts file
    Shared,         \* the policy files BlocKuntu merges into, not its own
    Deferred,       \* the policy files repaired only after a first heartbeat
    Second,         \* ticks of the clock in a second
    HandoffLength,  \* UNINSTALL_HANDOFF_SECONDS, in ticks
    DetoxLengths,   \* durations of a Detox, in ticks
    OpenTimes,      \* instants at which protected access is open
    MaxClock,       \* bound: last instant
    MaxSessions,    \* bound: Detox sessions started
    MaxLeases,      \* bound: leases written
    MaxFailures     \* bound: failing steps and crashes

Files == Gecko \o Chromium \o <<Hosts>>
Managed == ToSet(Files)
Actors == Clients \cup {Loop, HostsTool}
Instants == 0 .. MaxClock

ASSUME HandoffAssumption ==
    /\ Second \in Nat \ {0} /\ HandoffLength \in Nat \ {0}
    /\ DetoxLengths \subseteq Nat \ {0}
    /\ MaxClock \in Nat /\ MaxSessions \in Nat
    /\ MaxLeases \in Nat /\ MaxFailures \in Nat
    /\ Gecko \in Seq(ToSet(Gecko)) /\ Chromium \in Seq(ToSet(Chromium))
    /\ Loop \notin Clients /\ HostsTool \notin Clients /\ Loop # HostsTool
    /\ Shared \subseteq ToSet(Gecko)
    /\ Deferred \subseteq ToSet(Gecko \o Chromium)

VARIABLES
    clock,      \* wall time, in ticks
    tampered,   \* the latched clock_guard status
    detox,      \* detox_sessions rows
    until,      \* BROWSER_EXTENSION_UNINSTALLING_UNTIL_KEY; 0 before the first
    lease,      \* the package-removal-lease file
    leases,     \* leases written so far; the last one is the token of `lease'
    managed,    \* the files BlocKuntu's content is in
    heard,      \* the deferred files whose extension has sent a heartbeat
    request,    \* the request each client waits for
    held,       \* the lease token the last answer gave each client
    repair,     \* the files each actor still has to repair
    daemon,     \* "down", "starting" (before the listener), "serving"
    package,    \* "installed", "stopped" (hook ran, services down), "removed"
    failures    \* failing steps so far

vars == <<clock, tampered, detox, until, lease, leases, managed, heard,
          request, held, repair, daemon, package, failures>>

NoRequest == [step |-> "none", now |-> 0, emergency |-> FALSE, checked |-> 0,
              token |-> 0, left |-> <<>>]
NoRepair == [left |-> <<>>, cleared |-> FALSE, once |-> FALSE]
\* A pass over some files; one that is cleared `once' asks about the handoff
\* for its first file only.
Pass(files, once) == [NoRepair EXCEPT !.left = files, !.once = once /\ files # <<>>]

NoLease == [token |-> 0, expires |-> 0, sample |-> 0]

-----------------------------------------------------------------------------
ActiveDetox(n) == {s \in detox : s.start <= n /\ n < s.end}

\* Slip: the expiry of a handoff is not looked at.
HandoffActive_Sticky == until # 0

HandoffActive == clock < until

\* The hooks compare whole seconds; `sample' is not in the file.
LeaseAccepted(token) ==
    /\ lease # NoLease /\ token = lease.token
    /\ clock \div Second <= lease.expires

Answered == [r \in Clients |-> NoRequest]
AllIdle == [a \in Actors |-> NoRepair]

Serving(c) == daemon = "serving" /\ request[c] = NoRequest /\ repair[c] = NoRepair

-----------------------------------------------------------------------------
(* The life of the daemon.                                                  *)

\* A booted system that has enforced for some time.
Init ==
    /\ clock = 0 /\ tampered = FALSE /\ detox = {}
    /\ until = 0 /\ lease = NoLease /\ leases = 0
    /\ managed = Managed \ Deferred /\ heard = {}
    /\ request = Answered /\ held = [c \in Clients |-> 0]
    /\ repair = AllIdle
    /\ daemon = "serving" /\ package = "installed" /\ failures = 0

Tick ==
    /\ clock < MaxClock
    /\ clock' = clock + 1
    /\ UNCHANGED <<tampered, detox, until, lease, leases, managed, heard,
                   request, held, repair, daemon, package, failures>>

\* Any sample of the clock may latch the status (ClockGuard).
Tamper ==
    /\ ~tampered
    /\ tampered' = TRUE
    /\ UNCHANGED <<clock, detox, until, lease, leases, managed, heard,
                   request, held, repair, daemon, package, failures>>

\* The hosts tool is a process of its own and outlives a crash.
Crash ==
    /\ daemon # "down" /\ failures < MaxFailures
    /\ daemon' = "down" /\ failures' = failures + 1
    /\ request' = Answered
    /\ repair' = [AllIdle EXCEPT ![HostsTool] = repair[HostsTool]]
    /\ UNCHANGED <<clock, tampered, detox, until, lease, leases, managed,
                   heard, held, package>>

\* serve repairs everything before it accepts a client.
Restart ==
    /\ daemon = "down" /\ package = "installed"
    /\ daemon' = "starting"
    /\ repair' = [repair EXCEPT ![Loop] = Pass(Files, FALSE)]
    /\ UNCHANGED <<clock, tampered, detox, until, lease, leases, managed,
                   heard, request, held, package, failures>>

Listen ==
    /\ daemon = "starting" /\ repair[Loop] = NoRepair
    /\ daemon' = "serving"
    /\ UNCHANGED <<clock, tampered, detox, until, lease, leases, managed,
                   heard, request, held, repair, package, failures>>

-----------------------------------------------------------------------------
(* Repairs.  A pass takes its files in order; each is first cleared (not    *)
(* deferred, no handoff) and then written.                                  *)

\* The pass that is left when its first file is done.
After(pass) ==
    IF Len(pass.left) = 1 THEN NoRepair
    ELSE [pass EXCEPT !.left = Tail(@), !.cleared = pass.once /\ @]

LoopPass ==
    /\ daemon = "serving" /\ repair[Loop] = NoRepair
    /\ repair' = [repair EXCEPT ![Loop] = Pass(Files, FALSE)]
    /\ UNCHANGED <<clock, tampered, detox, until, lease, leases, managed,
                   heard, request, held, daemon, package, failures>>

\* blockuntu-hosts.service is bound to the daemon's unit, which counts as
\* running while systemd restarts it.
HostsChanged ==
    /\ package = "installed" /\ repair[HostsTool] = NoRepair
    /\ repair' = [repair EXCEPT ![HostsTool] = Pass(<<Hosts>>, FALSE)]
    /\ UNCHANGED <<clock, tampered, detox, until, lease, leases, managed,
                   heard, request, held, daemon, package, failures>>

CheckFile(a) ==
    LET pass == repair[a]
        file == Head(pass.left)
        deferred == file \in Deferred \ heard
    IN  /\ pass.left # <<>> /\ ~pass.cleared
        /\ repair' = [repair EXCEPT ![a] =
               IF HandoffActive /\ pass.once THEN NoRepair
               ELSE IF HandoffActive \/ deferred THEN After(pass)
               ELSE [pass EXCEPT !.cleared = TRUE]]
        /\ UNCHANGED <<clock, tampered, detox, until, lease, leases, managed,
                       heard, request, held, daemon, package, failures>>

WriteFile(a) ==
    LET pass == repair[a]
        file == Head(pass.left)
    IN  /\ pass.left # <<>> /\ pass.cleared
        /\ managed' = IF file \in Deferred \ heard THEN managed
                      ELSE managed \cup {file}
        /\ repair' = [repair EXCEPT ![a] = After(pass)]
        /\ UNCHANGED <<clock, tampered, detox, until, lease, leases, heard,
                       request, held, daemon, package, failures>>

\* The files of the family of f that come after it in a pass.
Family(f) == IF f = Hosts THEN {Hosts}
             ELSE ToSet(IF f \in ToSet(Gecko) THEN Gecko ELSE Chromium)

\* What a pass has left after the family of its first file, whose files are
\* together in it.
NextFamily(files) ==
    LET family == {i \in DOMAIN files : files[i] \in Family(Head(files))}
    IN  SubSeq(files, Cardinality(family) + 1, Len(files))

\* An error ends the family's repairs, and the daemon if it is starting.
FailFile(a) ==
    LET pass == repair[a]
        rest == NextFamily(pass.left)
    IN  /\ pass.left # <<>> /\ pass.cleared /\ failures < MaxFailures
        /\ failures' = failures + 1
        /\ IF a = Loop /\ daemon = "starting"
           THEN daemon' = "down" /\ repair' = [repair EXCEPT ![a] = NoRepair]
           ELSE /\ repair' = [repair EXCEPT ![a] = Pass(rest, FALSE)]
                /\ UNCHANGED daemon
        /\ UNCHANGED <<clock, tampered, detox, until, lease, leases, managed,
                       heard, request, held, package>>

\* extension_heartbeat: the first one lets the deferred file be written.
Heartbeat(c, f) ==
    /\ Serving(c) /\ f \in Deferred
    /\ heard' = heard \cup {f}
    /\ repair' = [repair EXCEPT ![c] = Pass(<<f>>, TRUE)]
    /\ UNCHANGED <<clock, tampered, detox, until, lease, leases, managed,
                   request, held, daemon, package, failures>>

-----------------------------------------------------------------------------
(* Detox: the time is sampled, the body runs later under the lock.          *)

Begin(c) ==
    /\ Serving(c) /\ package = "installed"
    /\ \E step \in {"detox", "check"}, code \in BOOLEAN :
          /\ (step = "detox") => (~tampered /\ ~code)
          /\ request' = [request EXCEPT ![c] =
                [NoRequest EXCEPT !.step = step, !.now = clock, !.emergency = code]]
    /\ UNCHANGED <<clock, tampered, detox, until, lease, leases, managed,
                   heard, held, repair, daemon, package, failures>>

Reject(c) == request' = [request EXCEPT ![c] = NoRequest]

\* Slip: a Detox starts whatever the state of the handoff.
StartDetox_AnyTime(c) ==
    /\ request[c].step = "detox"
    /\ Cardinality(detox) < MaxSessions
    /\ \E d \in DetoxLengths :
          detox' = detox \cup {[start |-> request[c].now, end |-> request[c].now + d]}
    /\ managed' = managed \cup {Hosts}
    /\ Reject(c)
    /\ repair' = [repair EXCEPT ![c] = Pass(Chromium, TRUE)]
    /\ UNCHANGED <<clock, tampered, until, lease, leases, heard,
                   held, daemon, package, failures>>

\* The row is in before the hosts file is written, and stays when that fails.
StartDetox(c) ==
    /\ request[c].step = "detox"
    /\ Reject(c)
    /\ \/ /\ ~HandoffActive /\ Cardinality(detox) < MaxSessions
          /\ \E d \in DetoxLengths :
                detox' = detox \cup {[start |-> request[c].now,
                                      end   |-> request[c].now + d]}
          /\ \/ /\ managed' = managed \cup {Hosts}
                /\ repair' = [repair EXCEPT ![c] = Pass(Chromium, TRUE)]
                /\ UNCHANGED failures
             \/ /\ failures < MaxFailures /\ failures' = failures + 1
                /\ UNCHANGED <<managed, repair>>
       \/ /\ HandoffActive
          /\ UNCHANGED <<detox, managed, repair, failures>>
    /\ UNCHANGED <<clock, tampered, until, lease, leases, heard,
                   held, daemon, package>>

-----------------------------------------------------------------------------
(* prepare_uninstall.                                                       *)

\* The first check, and the authorization after it.
Authorize(c) ==
    LET r == request[c]
        allowed == /\ ActiveDetox(r.now) = {}
                   /\ r.emergency \/ (~tampered /\ r.now \in OpenTimes)
    IN  /\ r.step = "check"
        /\ request' = [request EXCEPT ![c] =
               IF allowed THEN [r EXCEPT !.step = "grant", !.checked = clock]
               ELSE NoRequest]
        /\ UNCHANGED <<clock, tampered, detox, until, lease, leases, managed,
                       heard, held, repair, daemon, package, failures>>

\* When the handoff ends: its `now' is sampled after Authorize and before the
\* core lock is taken again.
HandoffEnds(r) == {now + HandoffLength : now \in r.checked .. clock}

NewLease(r, ends) == [token |-> leases + 1, expires |-> ends \div Second,
                      sample |-> r.now]

Removing(r) == [r EXCEPT !.step = "remove", !.checked = 0,
                         !.token = leases + 1, !.left = Files]

\* The lease is written and the database is told, under the lock.
\* Slip: the final check is left out.
Grant_FirstCheckOnly(c) ==
    LET r == request[c]
    IN  /\ r.step = "grant" /\ leases < MaxLeases
        /\ \E ends \in HandoffEnds(r) : lease' = NewLease(r, ends) /\ until' = ends
        /\ leases' = leases + 1
        /\ request' = [request EXCEPT ![c] = Removing(r)]
        /\ UNCHANGED <<clock, tampered, detox, managed, heard, held, repair,
                       daemon, package, failures>>

Grant(c) ==
    LET r == request[c]
    IN  /\ r.step = "grant" /\ leases < MaxLeases
        /\ ActiveDetox(r.now) = {}
        /\ \E ends \in HandoffEnds(r) : lease' = NewLease(r, ends) /\ until' = ends
        /\ leases' = leases + 1
        /\ request' = [request EXCEPT ![c] = Removing(r)]
        /\ UNCHANGED <<clock, tampered, detox, managed, heard, held, repair,
                       daemon, package, failures>>

GrantRejected(c) ==
    /\ request[c].step = "grant"
    /\ ActiveDetox(request[c].now) # {}
    /\ Reject(c)
    /\ UNCHANGED <<clock, tampered, detox, until, lease, leases, managed,
                   heard, held, repair, daemon, package, failures>>

\* Slip: the database's error is not passed on.
GrantFails_Ignored(c) ==
    LET r == request[c]
    IN  /\ r.step = "grant" /\ ActiveDetox(r.now) = {}
        /\ leases < MaxLeases /\ failures < MaxFailures
        /\ \E ends \in HandoffEnds(r) : lease' = NewLease(r, ends)
        /\ leases' = leases + 1
        /\ failures' = failures + 1
        /\ request' = [request EXCEPT ![c] = Removing(r)]
        /\ UNCHANGED <<clock, tampered, detox, until, managed, heard, held,
                       repair, daemon, package>>

\* The lease is on disk, and the database refuses the state.
GrantFails(c) ==
    LET r == request[c]
    IN  /\ r.step = "grant" /\ ActiveDetox(r.now) = {}
        /\ leases < MaxLeases /\ failures < MaxFailures
        /\ \E ends \in HandoffEnds(r) : lease' = NewLease(r, ends)
        /\ leases' = leases + 1
        /\ failures' = failures + 1
        /\ Reject(c)
        /\ UNCHANGED <<clock, tampered, detox, until, managed, heard, held,
                       repair, daemon, package>>

\* Without the lock.  The answer, with the token, follows the last file.
RemoveFile(c) ==
    LET r == request[c]
    IN  /\ r.step = "remove"
        /\ managed' = managed \ {Head(r.left)}
        /\ IF Len(r.left) = 1
           THEN Reject(c) /\ held' = [held EXCEPT ![c] = r.token]
           ELSE /\ request' = [request EXCEPT ![c].left = Tail(@)]
                /\ UNCHANGED held
        /\ UNCHANGED <<clock, tampered, detox, until, lease, leases, heard,
                       repair, daemon, package, failures>>

RemoveFails(c) ==
    /\ request[c].step = "remove" /\ failures < MaxFailures
    /\ failures' = failures + 1
    /\ Reject(c)
    /\ UNCHANGED <<clock, tampered, detox, until, lease, leases, managed,
                   heard, held, repair, daemon, package>>

-----------------------------------------------------------------------------
(* The package manager's hooks, with the token of a client.                 *)

StopServices(c) ==
    /\ package = "installed" /\ held[c] # 0 /\ LeaseAccepted(held[c])
    /\ package' = "stopped" /\ daemon' = "down"
    /\ request' = Answered /\ repair' = AllIdle
    /\ UNCHANGED <<clock, tampered, detox, until, lease, leases, managed,
                   heard, held, failures>>

\* pre_remove: the lease is consumed.  The shared policies were restored by
\* prepare_uninstall and are left alone.
RemovePackage ==
    /\ package = "stopped" /\ LeaseAccepted(lease.token)
    /\ package' = "removed" /\ lease' = NoLease
    /\ managed' = managed \cap Shared
    /\ UNCHANGED <<clock, tampered, detox, until, leases, heard, request,
                   held, repair, daemon, failures>>

AbortRemoval ==
    /\ package = "stopped" /\ ~LeaseAccepted(lease.token)
    /\ package' = "installed"
    /\ UNCHANGED <<clock, tampered, detox, until, lease, leases, managed,
                   heard, request, held, repair, daemon, failures>>

Repairing(a) == CheckFile(a) \/ WriteFile(a) \/ FailFile(a)

Serve(c) ==
    \/ Begin(c) \/ StartDetox(c)
    \/ \E f \in Deferred : Heartbeat(c, f)
    \/ Authorize(c) \/ Grant(c) \/ GrantRejected(c) \/ GrantFails(c)
    \/ RemoveFile(c) \/ RemoveFails(c)
    \/ StopServices(c)

Next ==
    \/ Tick \/ Tamper \/ Crash \/ Restart \/ Listen
    \/ LoopPass \/ HostsChanged
    \/ \E a \in Actors : Repairing(a)
    \/ \E c \in Clients : Serve(c)
    \/ RemovePackage \/ AbortRemoval

Spec == Init /\ [][Next]_vars

\* systemd restarts the daemon and the hooks end; the repair loop never stops.
Fairness ==
    /\ WF_vars(Tick)
    /\ WF_vars(Restart) /\ WF_vars(Listen) /\ WF_vars(LoopPass)
    /\ WF_vars(CheckFile(Loop) \/ WriteFile(Loop))
    /\ WF_vars(RemovePackage \/ AbortRemoval)

FairSpec == Spec /\ Fairness

-----------------------------------------------------------------------------
Sessions == [start : Nat, end : Nat]
Leases == [token : Nat, expires : Nat, sample : Nat]
Requests == [step : {"none", "detox", "check", "grant", "remove"}, now : Nat,
             emergency : BOOLEAN, checked : Nat, token : Nat, left : Seq(Managed)]
Passes == [left : Seq(Managed), cleared : BOOLEAN, once : BOOLEAN]

\* Every variable stays in its domain; a pass or a removal under way has a
\* file to take.
TypeOK ==
    /\ clock \in Nat /\ until \in Nat /\ leases \in Nat /\ failures \in Nat
    /\ tampered \in BOOLEAN
    /\ detox \subseteq Sessions
    /\ lease \in Leases
    /\ managed \subseteq Managed /\ heard \subseteq Deferred
    /\ request \in [Clients -> Requests]
    /\ \A c \in Clients : request[c].step = "remove" => request[c].left # <<>>
    /\ held \in [Clients -> Nat]
    /\ repair \in [Actors -> Passes]
    /\ \A a \in Actors : repair[a].left = <<>> => repair[a] = NoRepair
    /\ daemon \in {"down", "starting", "serving"}
    /\ package \in {"installed", "stopped", "removed"}

\* While the handoff lasts, the package manager never goes ahead over a Detox
\* that had begun when the uninstall request was timed: neither one that was
\* inserted between the two checks nor one that was timed before the grant and
\* inserted after it.
RemovalStep ==
    (package = "installed" /\ package' = "stopped" /\ HandoffActive)
        => \A s \in ActiveDetox(clock) : lease.sample < s.start

RemovalRespectsDetox == [][RemovalStep]_vars

\* A client holds the token of the current lease only if the database has
\* recorded the handoff that goes with it: no repair undoes what the answer
\* says was removed before the lease ends.
TokenMeansHandoff ==
    \A c \in Clients :
        (held[c] # 0 /\ held[c] = lease.token)
            => lease.expires = until \div Second

\* Types, and a token that is kept stands for a handoff that is under way.
HandoffInvariant == TypeOK /\ TokenMeansHandoff

\* A handoff that does not end in a removal ends in enforcement: whatever
\* crashed, failed or was removed late, the files that are due come back.
EnforcementReturns ==
    []<>(\/ package = "removed" \/ clock < until
         \/ Managed \ (Deferred \ heard) \subseteq managed)
=============================================================================
