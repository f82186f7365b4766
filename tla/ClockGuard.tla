------------------------------ MODULE ClockGuard ------------------------------
(***************************************************************************)
(* Whether the wall clock is to be trusted (focusd/src/clock_guard.rs).     *)
(*                                                                          *)
(* Each use of the time compares the wall clock's movement since the stored *)
(* sample with the uptime's, latches "tampered" when they part, and stores  *)
(* the new sample.  In the daemon the core lock makes that one step; a tool *)
(* (blockuntud repair-hosts) does the same to the same rows from a process  *)
(* of its own, and nothing holds the daemon off between its reads and its   *)
(* write.                                                                   *)
(*                                                                          *)
(* A unit of time is the second that uptime may seem to run backwards.      *)
(***************************************************************************)
EXTENDS Integers, Absent

CONSTANTS
    Daemon, Tools,
    MaxDrift,           \* MAX_WALL_DRIFT_SECONDS, scaled down
    MaxBackwardReboot,  \* MAX_BACKWARD_REBOOT_SECONDS, scaled down
    Duration,           \* of a Detox
    Adjustments,        \* what somebody may set the clock by
    MaxPause,           \* bound: how long a process is held up in a check
    MaxTime,            \* bound: real time
    MaxAdjustments,     \* bound: settings of the clock
    MaxReboots,         \* bound: reboots
    MaxChecks           \* bound: checks stored

Processes == {Daemon} \cup Tools

ASSUME ClockAssumption ==
    /\ Daemon \notin Tools
    /\ MaxDrift \in Nat /\ MaxBackwardReboot \in Nat /\ Duration \in Nat \ {0}
    /\ \A d \in Adjustments : d \in Int
    /\ MaxPause \in Nat /\ MaxTime \in Nat /\ MaxAdjustments \in Nat
    /\ MaxReboots \in Nat /\ MaxChecks \in Nat

VARIABLES
    clock,      \* the machine: boot, up(time), wall clock
    real,       \* ghost: the time that really passed
    stored,     \* the rows clock_guard.*: state and the last sample
    check,      \* how far each process is in its check
    detox,      \* the Detox session, None without; begun, boot and checks are ghosts
    enforced,   \* ghost: whether the last check of a process enforced it
    count       \* adjustments and checks so far

clockVars == <<clock, real, stored, check, detox, enforced, count>>

\* The sample of a check, what it has read, and how long it has been held up.
NotChecking == [at |-> "idle", wall |-> 0, boot |-> 0, up |-> 0, state |-> "ok",
                lastWall |-> 0, late |-> 0]

\* The first check found nothing to compare with and stored its sample.
ClockInit ==
    /\ clock = [boot |-> 0, up |-> 0, wall |-> 0]
    /\ real = 0
    /\ stored = [state |-> "ok", wall |-> 0, boot |-> 0, up |-> 0]
    /\ check = [p \in Processes |-> NotChecking]
    /\ detox = None
    /\ enforced = [p \in Processes |-> FALSE]
    /\ count = [adjustments |-> 0, checks |-> 0]

-----------------------------------------------------------------------------
(* The machine                                                              *)

Busy(p) == check[p].at # "idle"

Elapse ==
    /\ real < MaxTime
    /\ \A p \in Processes : Busy(p) => check[p].late < MaxPause
    /\ real' = real + 1
    /\ clock' = [clock EXCEPT !.up = @ + 1, !.wall = @ + 1]
    /\ check' = [p \in Processes |->
          IF Busy(p) THEN [check[p] EXCEPT !.late = @ + 1] ELSE check[p]]
    /\ UNCHANGED <<stored, detox, enforced, count>>

Adjust(d) ==
    /\ count.adjustments < MaxAdjustments
    /\ clock' = [clock EXCEPT !.wall = @ + d]
    /\ count' = [count EXCEPT !.adjustments = @ + 1]
    /\ UNCHANGED <<real, stored, check, detox, enforced>>

Reboot ==
    /\ clock.boot < MaxReboots /\ real < MaxTime
    /\ real' = real + 1
    /\ clock' = [boot |-> clock.boot + 1, up |-> 0, wall |-> clock.wall + 1]
    /\ check' = [p \in Processes |-> NotChecking]
    /\ UNCHANGED <<stored, detox, enforced, count>>

-----------------------------------------------------------------------------
(* The guard.  was is the stored sample as it was read.                     *)

\* Slip: only a clock set back counts.
Violation_BackwardOnly(now, was) ==
    /\ IF was.boot # now.boot
       THEN was.wall - now.wall > MaxBackwardReboot
       ELSE \/ now.up - was.up < -1
            \/ now.wall - (was.wall + (now.up - was.up)) < -MaxDrift

\* Slip: uptimes of different boots are compared.
Violation_AnyBoot(now, was) ==
    /\ LET drift == now.wall - (was.wall + (now.up - was.up))
       IN  now.up - was.up < -1 \/ drift > MaxDrift \/ -drift > MaxDrift

\* clock_violation
Violation(now, was) ==
    /\ IF was.boot # now.boot
       THEN was.wall - now.wall > MaxBackwardReboot
       ELSE LET drift == now.wall - (was.wall + (now.up - was.up))
            IN  now.up - was.up < -1 \/ drift > MaxDrift \/ -drift > MaxDrift

NextState(state, now, was) ==
    IF state = "tampered" \/ Violation(now, was) THEN "tampered" ELSE "ok"

\* Which Detox the hosts file and the rules keep: with a clock not to be
\* trusted, any that was not cancelled.
Keeps(state, wall) ==
    /\ detox # None
    /\ state = "tampered" \/ (detox.starts <= wall /\ wall < detox.ends)

\* A check: the wall clock, the uptime, then the rows one by one.
SampleWall(p) ==
    /\ check[p].at = "idle" /\ count.checks < MaxChecks
    /\ check' = [check EXCEPT ![p] = [NotChecking EXCEPT !.at = "uptime", !.wall = clock.wall]]
    /\ UNCHANGED <<clock, real, stored, detox, enforced, count>>

SampleUptime(p) ==
    /\ check[p].at = "uptime"
    /\ check' = [check EXCEPT ![p].at = "state", ![p].boot = clock.boot,
                              ![p].up = clock.up]
    /\ UNCHANGED <<clock, real, stored, detox, enforced, count>>

ReadState(p) ==
    /\ check[p].at = "state"
    /\ check' = [check EXCEPT ![p].at = "wall", ![p].state = stored.state]
    /\ UNCHANGED <<clock, real, stored, detox, enforced, count>>

ReadWall(p) ==
    /\ check[p].at = "wall"
    /\ check' = [check EXCEPT ![p].at = "store", ![p].lastWall = stored.wall]
    /\ UNCHANGED <<clock, real, stored, detox, enforced, count>>

\* The rest of the rows, the verdict, the commit and what the caller does with
\* the time it gets; start_detox_method is one caller.
Store(p) ==
    LET now == check[p]
        was == [stored EXCEPT !.wall = now.lastWall]
        state == NextState(now.state, now, was)
    IN  /\ check[p].at = "store"
        /\ stored' = [state |-> state, wall |-> now.wall, boot |-> now.boot, up |-> now.up]
        /\ check' = [check EXCEPT ![p] = NotChecking]
        /\ \/ /\ enforced' = [enforced EXCEPT ![p] = Keeps(state, now.wall)]
              /\ UNCHANGED detox
           \/ /\ p = Daemon /\ detox = None /\ state = "ok"
              /\ detox' = [starts |-> now.wall, ends |-> now.wall + Duration,
                           begun |-> real, boot |-> now.boot,
                           checks |-> count.checks + 1]
              /\ UNCHANGED enforced
        /\ count' = [count EXCEPT !.checks = @ + 1]
        /\ UNCHANGED <<clock, real>>

\* The process is killed, or a row cannot be read or written.
GiveUp(p) ==
    /\ Busy(p)
    /\ check' = [check EXCEPT ![p] = NotChecking]
    /\ UNCHANGED <<clock, real, stored, detox, enforced, count>>

Check(p) ==
    SampleWall(p) \/ SampleUptime(p) \/ ReadState(p) \/ ReadWall(p) \/ Store(p)

ClockNext ==
    \/ Elapse \/ Reboot
    \/ \E d \in Adjustments : Adjust(d)
    \/ \E p \in Processes : Check(p) \/ GiveUp(p)

ClockSpec == ClockInit /\ [][ClockNext]_clockVars

-----------------------------------------------------------------------------
States == {"ok", "tampered"}

Samples == [state : States, wall : Int, boot : Nat, up : Nat]

Checks ==
    [at : {"idle", "uptime", "state", "wall", "store"}, wall : Int, boot : Nat,
     up : Nat, state : States, lastWall : Int, late : 0 .. MaxPause]

Detoxes == [starts : Int, ends : Int, begun : Nat, boot : Nat, checks : Nat]

\* Every variable stays in its domain, and no sample is from the future.
ClockTypeOK ==
    /\ clock \in [boot : Nat, up : Nat, wall : Int] /\ real \in Nat
    /\ stored \in Samples
    /\ stored.boot <= clock.boot
    /\ stored.boot = clock.boot => stored.up <= clock.up
    /\ check \in [Processes -> Checks]
    /\ detox \in Detoxes \cup {None}
    /\ enforced \in [Processes -> BOOLEAN]
    /\ count \in [{"adjustments", "checks"} -> Nat]

\* What the checks since the Detox began may have let pass unnoticed, and what
\* a process was held up between its two clocks.
Tolerated == (count'.checks - detox.checks) * MaxDrift + MaxPause

\* Within the boot a Detox began in, no setting of the clock, forward or back, by one step or by
\* many, gets a Detox unenforced but by what the guard tolerates of each check:
\* a check that does not enforce it comes that soon after its start, by a clock
\* that went back, or that close to its end.  The daemon is alone: see LatchHolds.
DetoxStep ==
    \A p \in Processes :
        (/\ detox # None /\ check[p].at = "store" /\ Store(p) /\ ~enforced'[p]
         /\ clock.boot = detox.boot)
           => IF check[p].wall < detox.starts
              THEN real - detox.begun <= Tolerated
              ELSE real - detox.begun + Tolerated >= Duration

DetoxHeld == [][DetoxStep]_clockVars

\* A clock nobody sets is never found tampered, through reboots and though a
\* check is held up for as long as MaxDrift.  It takes the daemon to be alone:
\* what a tool reads around
\* a check of the daemon may be the wall clock of one sample and the uptime of
\* another.
NoFalseAlarm == count.adjustments = 0 => stored.state = "ok"

\* Types, and the alarm comes only when the clock was set.
ClockInvariant == ClockTypeOK /\ NoFalseAlarm

-----------------------------------------------------------------------------
\* Testing/phase-4.md:341, "Current detection is sticky; restoring the wall
\* clock alone does not clear the stored tampered state".  A tool that reads the
\* state before a check of the daemon finds the jump and the last sample after
\* it finds nothing wrong, and stores that.
LatchHolds == [][stored.state = "tampered" => stored'.state = "tampered"]_clockVars
=============================================================================
