--------------------------- MODULE PolicyPersistence ---------------------------
(***************************************************************************)
(* How a policy survives: the database, the recovery snapshot beside it and *)
(* the copy the daemon enforces (persist_policy_config in focusd/src/rpc.rs,*)
(* DaemonApp::load and load_startup_policy in app.rs, policy_recovery.rs).  *)
(*                                                                          *)
(* An edit writes the snapshot, commits the database and replaces the copy  *)
(* in memory, in that order; a start goes the other way.  The daemon and    *)
(* the tools (blockuntud repair-hosts) run that code as processes of their  *)
(* own, serialized by a file lock.  Each change of a file is a step, which  *)
(* may fail, and a crash may come between any two.                          *)
(*                                                                          *)
(* What a policy says, and which edits are allowed, is PolicyGuard.  A      *)
(* failing step of a start that changes nothing is a Crash: the process     *)
(* exits and systemd starts it again.                                       *)
(***************************************************************************)
EXTENDS Naturals, Absent

CONSTANTS
    Daemon,         \* blockuntud serve
    Tools,          \* other blockuntud processes
    Policies,
    WithBrowserRule,\* ensure_mandatory_app_rules, as a function on Policies
    Baseline,       \* the policy in config.toml
    Accepted,       \* the policies an installed system may have
    NoFile,         \* no database file
    NoPolicy,       \* a database without a policy
    Immutable,      \* whether the snapshot is kept immutable
    Fresh,          \* whether the system may be one just installed
    MaxEdits,       \* bound: edits asked for
    MaxRuns,        \* bound: runs of tools
    MaxDbFailures,  \* bound: failing database steps
    MaxFileFailures,\* bound: failing steps on the snapshot
    MaxCrashes,     \* bound: crashes
    MaxLosses       \* bound: losses of the database

Processes == {Daemon} \cup Tools

ASSUME PersistenceAssumption ==
    /\ Daemon \notin Tools /\ None \notin Processes
    /\ WithBrowserRule \in [Policies -> Policies]
    /\ \A q \in Policies : WithBrowserRule[WithBrowserRule[q]] = WithBrowserRule[q]
    /\ Baseline \in Policies /\ Accepted \subseteq Policies
    /\ \A q \in Accepted : WithBrowserRule[q] = q
    /\ None \notin Policies /\ NoFile \notin Policies /\ NoPolicy \notin Policies
    /\ NoFile # NoPolicy
    /\ Immutable \in BOOLEAN /\ Fresh \in BOOLEAN
    /\ MaxEdits \in Nat /\ MaxRuns \in Nat /\ MaxDbFailures \in Nat
    /\ MaxFileFailures \in Nat /\ MaxCrashes \in Nat /\ MaxLosses \in Nat

VARIABLES
    db,         \* the policy tables: a policy, NoPolicy or NoFile
    snapshot,   \* policy-recovery.toml, None without one
    protected,  \* the snapshot has its immutable attribute
    lock,       \* the process that holds the recovery lock
    proc,       \* what each process is doing
    memory,     \* the policy the daemon enforces, None when it does not run
    standing,   \* ghost: the policies a client may expect a start to find
    count       \* edits, runs, failures, crashes and losses so far

policyVars == <<db, snapshot, protected, lock, proc, memory, standing, count>>

\* policy is being loaded or written, next was asked for, old was in force.
Off == [at |-> "off", doing |-> "start", policy |-> None, next |-> None,
        old |-> None, fresh |-> FALSE, renamed |-> FALSE]

Zero == [edits |-> 0, runs |-> 0, db |-> 0, file |-> 0, crashes |-> 0, losses |-> 0]

-----------------------------------------------------------------------------
PersistenceInit ==
    /\ \/ \E q \in Accepted :
              /\ db = q /\ snapshot = q /\ protected = Immutable /\ standing = {q}
       \/ /\ Fresh
          /\ db = NoFile /\ snapshot = None /\ protected = FALSE
          /\ standing = {Baseline}
    /\ lock = None /\ memory = None
    /\ proc = [p \in Processes |-> Off]
    /\ count = Zero

\* One more of what `what' counts, if the bound allows.
Counted(what, bound) == count[what] < bound /\ count' = [count EXCEPT ![what] = @ + 1]

Goes(p, at) == proc' = [proc EXCEPT ![p].at = at]

Free(p) == lock' = IF lock = p THEN None ELSE lock

\* A start that is given up: the process exits, which closes its lock.
Exits(p) ==
    /\ proc' = [proc EXCEPT ![p] = Off] /\ Free(p)
    /\ UNCHANGED <<memory, standing>>

\* The daemon answers an edit, leaving policy q in force.
Answers(q) ==
    /\ proc' = [proc EXCEPT ![Daemon] = [Off EXCEPT !.at = "serving"]]
    /\ Free(Daemon)
    /\ standing' = {q}
    /\ UNCHANGED memory

-----------------------------------------------------------------------------
(* A process starts.                                                        *)

Start(p) ==
    /\ proc[p].at = "off"
    /\ IF p = Daemon THEN UNCHANGED count ELSE Counted("runs", MaxRuns)
    /\ Goes(p, "lock")
    /\ UNCHANGED <<db, snapshot, protected, lock, memory, standing>>

TakeLock(p) ==
    /\ proc[p].at \in {"lock", "asked"} /\ lock = None
    /\ lock' = p
    /\ Goes(p, IF proc[p].at = "lock" THEN "open" ELSE "totals")
    /\ UNCHANGED <<db, snapshot, protected, memory, standing, count>>

\* Opening the database creates it.
Open(p) ==
    /\ proc[p].at = "open"
    /\ proc' = [proc EXCEPT ![p].at = "load", ![p].fresh = (db = NoFile)]
    /\ db' = IF db = NoFile THEN NoPolicy ELSE db
    /\ UNCHANGED <<snapshot, protected, lock, memory, standing, count>>

\* A tool keeps its view to itself unless it created the database.
Persists(p) == p = Daemon \/ proc[p].fresh

\* Slip: the snapshot is for a database that was not there.
LoadPolicy_FreshOnly(p) ==
    LET found == CASE db \in Policies -> db
                   [] db \notin Policies /\ proc[p].fresh ->
                         IF snapshot # None THEN snapshot ELSE Baseline
                   [] OTHER -> None
    IN  /\ proc[p].at = "load"
        /\ IF found = None THEN Exits(p) /\ UNCHANGED db
           ELSE /\ proc' = [proc EXCEPT ![p].at = "rule", ![p].policy = found]
                /\ db' = IF db = NoPolicy /\ Persists(p) THEN found ELSE db
                /\ UNCHANGED <<lock, memory, standing>>
        /\ UNCHANGED <<snapshot, protected, count>>

LoadPolicy(p) ==
    LET found == CASE db \in Policies -> db
                   [] db \notin Policies /\ snapshot # None -> snapshot
                   [] db \notin Policies /\ snapshot = None /\ proc[p].fresh -> Baseline
                   [] OTHER -> None
    IN  /\ proc[p].at = "load"
        /\ IF found = None THEN Exits(p) /\ UNCHANGED db
           ELSE /\ proc' = [proc EXCEPT ![p].at = "rule", ![p].policy = found]
                /\ db' = IF db = NoPolicy /\ Persists(p) THEN found ELSE db
                /\ UNCHANGED <<lock, memory, standing>>
        /\ UNCHANGED <<snapshot, protected, count>>

AddBrowserRule(p) ==
    LET fixed == WithBrowserRule[proc[p].policy]
    IN  /\ proc[p].at = "rule"
        /\ proc' = [proc EXCEPT ![p].policy = fixed,
                                ![p].at = IF Persists(p) THEN "clear" ELSE "loaded"]
        /\ db' = IF fixed # proc[p].policy /\ Persists(p) THEN fixed ELSE db
        /\ UNCHANGED <<snapshot, protected, lock, memory, standing, count>>

Loaded(p) ==
    /\ proc[p].at = "loaded"
    /\ Free(p)
    /\ IF p = Daemon
       THEN /\ memory' = proc[p].policy /\ standing' = {proc[p].policy}
            /\ proc' = [proc EXCEPT ![p] = [Off EXCEPT !.at = "serving"]]
       ELSE /\ proc' = [proc EXCEPT ![p] = Off]
            /\ UNCHANGED <<memory, standing>>
    /\ UNCHANGED <<db, snapshot, protected, count>>

-----------------------------------------------------------------------------
(* PolicyRecoveryGuard::write, for a start, an edit or its rollback.        *)

WriteDone(p) ==
    CASE proc[p].doing = "start"    -> Goes(p, "loaded") /\ UNCHANGED <<lock, memory, standing>>
      [] proc[p].doing = "edit"     -> Goes(p, "commit") /\ UNCHANGED <<lock, memory, standing>>
      [] proc[p].doing = "rollback" -> Answers(memory)

WriteFails(p) == IF proc[p].doing = "start" THEN Exits(p) ELSE Answers(memory)

\* The new file is staged, and the attribute of the old one cleared.
Clear(p) ==
    /\ proc[p].at = "clear"
    /\ \/ /\ protected' = FALSE /\ Goes(p, "rename")
          /\ UNCHANGED <<lock, memory, standing, count>>
       \/ /\ Counted("file", MaxFileFailures) /\ WriteFails(p)
          /\ UNCHANGED protected
    /\ UNCHANGED <<db, snapshot>>

Rename(p) ==
    /\ proc[p].at = "rename"
    /\ \/ /\ snapshot' = proc[p].policy
          /\ proc' = [proc EXCEPT ![p].at = "protect", ![p].renamed = TRUE]
          /\ UNCHANGED <<lock, memory, standing, count>>
       \/ /\ Counted("file", MaxFileFailures)
          /\ IF snapshot = None THEN WriteFails(p)
             ELSE /\ proc' = [proc EXCEPT ![p].at = "protect", ![p].renamed = FALSE]
                  /\ UNCHANGED <<lock, memory, standing>>
          /\ UNCHANGED snapshot
    /\ UNCHANGED <<db, protected>>

\* The attribute is set again, whether or not the file was replaced.  After
\* that the file and its directory are synced.
Protect(p) ==
    /\ proc[p].at = "protect"
    /\ \/ /\ proc[p].renamed /\ protected' = Immutable
          /\ WriteDone(p) /\ UNCHANGED count
       \/ /\ ~proc[p].renamed /\ protected' = Immutable
          /\ WriteFails(p) /\ UNCHANGED count
       \/ /\ protected' \in {FALSE, Immutable}
          /\ Counted("file", MaxFileFailures) /\ WriteFails(p)
    /\ UNCHANGED <<db, snapshot>>

-----------------------------------------------------------------------------
(* persist_policy_config, under the core lock: one edit at a time.          *)

AskEdit ==
    /\ proc[Daemon].at = "serving" /\ Counted("edits", MaxEdits)
    /\ \E q \in Policies \ {memory} :
          /\ proc' = [proc EXCEPT ![Daemon] =
                 [Off EXCEPT !.at = "asked", !.doing = "edit", !.policy = q,
                             !.next = q, !.old = memory]]
          /\ standing' = standing \cup {q}
    /\ UNCHANGED <<db, snapshot, protected, lock, memory>>

\* sync_schedule_activity_totals, before anything is written.
SyncTotals ==
    /\ proc[Daemon].at = "totals"
    /\ \/ /\ Goes(Daemon, "clear")
          /\ UNCHANGED <<lock, memory, standing, count>>
       \/ /\ Counted("db", MaxDbFailures) /\ Answers(memory)
    /\ UNCHANGED <<db, snapshot, protected>>

CommitDone ==
    /\ db' = proc[Daemon].next /\ memory' = proc[Daemon].next
    /\ Goes(Daemon, "totalsAfter")
    /\ UNCHANGED <<lock, standing, count>>

\* Slip: the snapshot is left as it was written.
Commit_NoRollback ==
    /\ proc[Daemon].at = "commit"
    /\ \/ CommitDone
       \/ /\ Counted("db", MaxDbFailures) /\ Answers(memory) /\ UNCHANGED db
    /\ UNCHANGED <<snapshot, protected>>

Commit ==
    /\ proc[Daemon].at = "commit"
    /\ \/ CommitDone
       \/ /\ Counted("db", MaxDbFailures)
          /\ proc' = [proc EXCEPT ![Daemon].at = "clear", ![Daemon].doing = "rollback",
                                  ![Daemon].policy = proc[Daemon].old]
          /\ UNCHANGED <<db, lock, memory, standing>>
    /\ UNCHANGED <<snapshot, protected>>

\* Totals and notification states; a failure is answered with an error though
\* the policy is in force.
SyncAfter ==
    /\ proc[Daemon].at = "totalsAfter"
    /\ Answers(memory)
    /\ UNCHANGED count \/ Counted("db", MaxDbFailures)
    /\ UNCHANGED <<db, snapshot, protected>>

-----------------------------------------------------------------------------
Crash(p) ==
    /\ proc[p].at # "off" /\ Counted("crashes", MaxCrashes)
    /\ proc' = [proc EXCEPT ![p] = Off] /\ Free(p)
    /\ memory' = IF p = Daemon THEN None ELSE memory
    /\ UNCHANGED <<db, snapshot, protected, standing>>

\* The database is removed, without the snapshot, while nothing runs.
LoseDatabase ==
    /\ \A p \in Processes : proc[p].at = "off"
    /\ Counted("losses", MaxLosses)
    /\ db' = NoFile
    /\ UNCHANGED <<snapshot, protected, lock, proc, memory, standing>>

Step(p) ==
    \/ Open(p) \/ LoadPolicy(p) \/ AddBrowserRule(p) \/ Loaded(p)
    \/ Clear(p) \/ Rename(p) \/ Protect(p)

Edit == SyncTotals \/ Commit \/ SyncAfter

PersistenceNext ==
    \/ \E p \in Processes : Start(p) \/ TakeLock(p) \/ Step(p) \/ Crash(p)
    \/ AskEdit \/ Edit
    \/ LoseDatabase

PersistenceSpec == PersistenceInit /\ [][PersistenceNext]_policyVars

\* systemd starts the daemon again, nothing hangs, and the lock is handed on.
Fairness ==
    /\ WF_policyVars(Start(Daemon))
    /\ \A p \in Processes : WF_policyVars(TakeLock(p)) /\ WF_policyVars(Step(p))
    /\ WF_policyVars(Edit)

FairPersistence == PersistenceSpec /\ Fairness

-----------------------------------------------------------------------------
Points == {"off", "lock", "open", "load", "rule", "loaded", "clear", "rename",
           "protect", "serving", "asked", "totals", "commit", "totalsAfter"}

Unlocked == {"off", "lock", "serving", "asked"}

Activities ==
    [at : Points, doing : {"start", "edit", "rollback"},
     policy : Policies \cup {None}, next : Policies \cup {None},
     old : Policies \cup {None}, fresh : BOOLEAN, renamed : BOOLEAN]

\* Every variable stays in its domain, and exactly the process inside a start
\* or an edit holds the lock.
PersistenceTypeOK ==
    /\ db \in Policies \cup {NoPolicy, NoFile}
    /\ snapshot \in Policies \cup {None}
    /\ protected \in BOOLEAN
    /\ memory \in Policies \cup {None}
    /\ standing \subseteq Policies
    /\ lock \in Processes \cup {None}
    /\ proc \in [Processes -> Activities]
    /\ \A p \in Processes : proc[p].at \notin Unlocked <=> lock = p
    /\ count \in [DOMAIN Zero -> Nat]

\* A daemon that starts enforces the policy of the last answer, or the one of
\* an edit that was never answered: no refused edit comes back, no accepted one
\* is lost, through failures, crashes and the loss of the database.  It takes a
\* failing step on the snapshot and the loss of the database together to get a
\* refused edit in force: that case is NoIntermediatePolicy.
RestartStep ==
    (memory = None /\ memory' # None /\ (count.file = 0 \/ count.losses = 0))
        => memory' \in {WithBrowserRule[q] : q \in standing}

RestartsWhereItStood == [][RestartStep]_policyVars

\* Between edits a database without a policy would be replaced by just what is
\* in force: the snapshot agrees with the database and with the daemon, and is
\* protected, whatever failed in the database or crashed before.
SnapshotIsCurrent ==
    (proc[Daemon].at = "serving" /\ count.file = 0)
        => snapshot = db /\ db = memory /\ protected = Immutable

\* Types, and the places a policy is kept in agree when no edit is under way.
PersistenceInvariant == PersistenceTypeOK /\ SnapshotIsCurrent

\* Once there is a snapshot the daemon always comes back, whatever step of a
\* start the crash or the loss of the database came at.  Before the first one, a
\* crash may leave a database without a policy, which no start accepts.
ComesBack == <>(snapshot # None) => []<>(memory # None)

-----------------------------------------------------------------------------
(* What a comment says and these steps do not keep.                         *)

\* rpc.rs:1626, "must not read or publish an intermediate policy": what a
\* start reads was accepted, or its edit was never answered.
NoIntermediatePolicy ==
    [][\A p \in Processes :
          (proc[p].at = "load" /\ proc'[p].at = "rule") => proc'[p].policy \in standing]_policyVars
=============================================================================
