-------------------------------- MODULE EventLog --------------------------------
(* The record of what happened: rows of events, their totals and the plain text  *)
(* log beside the database (focus-core/src/db.rs), the diagnostics the extension *)
(* queues until the daemon has them (background.ts, record_diagnostics_method in *)
(* focusd/src/rpc.rs), and the retention that a start and a daily loop enforce   *)
(* (focusd/src/app.rs).                                                          *)
(*                                                                               *)
(* A row is committed before its line is appended, and retention deletes rows,   *)
(* reads those that remain and then puts a new file in place of the log.  The    *)
(* core lock makes each of these one at a time in the daemon; a tool enforces    *)
(* retention from a process of its own.  One kind of event is counted.           *)
EXTENDS Naturals, Sequences, SequencesExt, FiniteSets, Absent

CONSTANTS
    Diagnostics,    \* what the extension may have to tell, in one event each
    Invalid,        \* those that validate_client_diagnostic rejects
    QueueLength,    \* MAX_DIAGNOSTIC_QUEUE_LENGTH, scaled down
    BatchSize,      \* DIAGNOSTIC_BATCH_SIZE, scaled down
    Retention,      \* EVENT_DETAIL_RETENTION_DAYS, scaled down
    MaxDays,        \* bound: time
    MaxOwnEvents,   \* bound: events of the daemon itself
    MaxMishaps      \* bound: failures, crashes and restarts of the worker

ASSUME EventAssumption ==
    /\ Invalid \subseteq Diagnostics /\ None \notin Diagnostics \cup Nat
    /\ QueueLength \in Nat \ {0} /\ BatchSize \in Nat \ {0} /\ Retention \in Nat
    /\ MaxDays \in Nat /\ MaxOwnEvents \in Nat /\ MaxMishaps \in Nat

VARIABLES
    events,     \* the rows: number, source and day of each
    nextRow,    \* the number of the next row
    total,      \* event_totals, None until initialize_event_totals
    log,        \* the rows whose lines the file holds
    writer,     \* what the daemon and the tool are doing
    calls,      \* calls of record_diagnostics that are not answered yet
    tampered,   \* the clock is not to be trusted
    queue,      \* diagnosticQueue
    saved,      \* what the browser's storage holds of it
    batch,      \* the batch whose answer the extension awaits
    history,    \* ghosts: how many rows were recorded, which diagnostics were told,
                \* recorded or rejected, forgotten by retention, or may be missing
    days,       \* the time
    spent       \* own events and mishaps so far

daemonSide == <<events, nextRow, total, log, writer>>
extensionSide == <<queue, saved, batch>>
eventVars == <<daemonSide, calls, tampered, extensionSide, history, days, spent>>

Writers == {"daemon", "tool"}

\* line is to be appended, rest to be recorded, lines to be the new file.
Waiting == [at |-> "free", starting |-> FALSE, inCall |-> FALSE, rest |-> <<>>, line |-> 0,
            lines |-> {}]
Stopped == [Waiting EXCEPT !.at = "off"]

\* A database of a version that kept no totals, or one of this version.
EventsInit ==
    /\ nextRow = 2
    /\ events \in {{}, {[number |-> 1, source |-> None, day |-> 0]}}
    /\ total \in {None, 1}
    /\ log = {row.number : row \in events}
    /\ writer = [p \in Writers |-> Stopped]
    /\ calls = <<>> /\ tampered = FALSE
    /\ queue = <<>> /\ saved = <<>> /\ batch = None
    /\ history = [recorded |-> IF total = None THEN Cardinality(events) ELSE total,
                  told |-> {}, settled |-> {}, forgotten |-> {}, excused |-> {}]
    /\ days = 0 /\ spent = [own |-> 0, mishaps |-> 0]

Spend(what, bound) == spent[what] < bound /\ spent' = [spent EXCEPT ![what] = @ + 1]
Mishap == Spend("mishaps", MaxMishaps)

-----------------------------------------------------------------------------
(* The extension                                                               *)

Newest(seq, n) == SubSeq(seq, IF Len(seq) > n THEN Len(seq) - n + 1 ELSE 1, Len(seq))

\* The elements of seq that are wanted, in their order.
Filtered(seq, wanted) ==
    LET upTo[n \in 0 .. Len(seq)] ==
            IF n = 0 THEN <<>>
            ELSE IF seq[n] \in wanted THEN Append(upTo[n - 1], seq[n]) ELSE upTo[n - 1]
    IN  upTo[Len(seq)]

\* queueDiagnostic: the oldest go when the queue is full.
Queue(d) ==
    /\ d \notin history.told
    /\ queue' = Newest(Append(queue, d), QueueLength)
    /\ history' = [history EXCEPT !.told = @ \cup {d},
                       !.excused = @ \cup (ToSet(queue) \ ToSet(queue'))]
    /\ UNCHANGED <<daemonSide, calls, tampered, saved, batch, days, spent>>

PersistQueue ==
    /\ saved # queue /\ saved' = queue
    /\ UNCHANGED <<daemonSide, calls, tampered, queue, batch, history, days, spent>>

\* Of the ways to reach the daemon only the one that succeeds changes anything.
Flush ==
    /\ batch = None /\ queue # <<>>
    /\ writer["daemon"].at # "off" /\ ~writer["daemon"].starting
    /\ batch' = SubSeq(queue, 1, IF Len(queue) < BatchSize THEN Len(queue) ELSE BatchSize)
    /\ calls' = Append(calls, batch')
    /\ UNCHANGED <<daemonSide, tampered, queue, saved, history, days, spent>>

\* The answer is late or lost; the daemon may well be at work on the call.
TimeOut ==
    /\ batch # None /\ batch' = None
    /\ IF calls = <<>> THEN UNCHANGED spent ELSE Mishap
    /\ UNCHANGED <<daemonSide, calls, tampered, queue, saved, history, days>>

\* The browser stops the worker and starts it again with the stored queue.
RestartWorker ==
    /\ Mishap
    /\ queue' = Newest(saved, QueueLength) /\ batch' = None
    /\ history' = [history EXCEPT !.excused = @ \cup (ToSet(queue) \ ToSet(saved))]
    /\ UNCHANGED <<daemonSide, calls, tampered, saved, days>>

\* Slip: as many as were sent are taken from the front.
Answer_ByCount(accepted) ==
    /\ batch' = None
    /\ queue' = IF accepted THEN SubSeq(queue, Len(batch) + 1, Len(queue)) ELSE queue

\* Slip: what the daemon rejected is sent again.
Answer_KeepsRejected(accepted) ==
    /\ batch' = None
    /\ queue' = IF accepted
                THEN Filtered(queue, Invalid \cup (Diagnostics \ ToSet(batch))) ELSE queue

\* flushDiagnostics, when the answer to its batch arrives.
Answer(accepted) ==
    /\ batch' = None
    /\ queue' = IF accepted THEN Filtered(queue, Diagnostics \ ToSet(batch)) ELSE queue

-----------------------------------------------------------------------------
(* The daemon.  A call is worked through under the core lock.                  *)

DaemonWriter == writer["daemon"]

\* A call is answered; the extension may have given it up and sent another.
Reply(accepted) ==
    /\ calls' = Tail(calls)
    /\ writer' = [writer EXCEPT !["daemon"] = Waiting]
    /\ IF batch # None /\ Len(calls) = 1 THEN Answer(accepted) ELSE UNCHANGED <<queue, batch>>
    /\ UNCHANGED <<events, nextRow, total, log, tampered, saved, history, days>>

\* insert_event and the commit
Recorded(source, then) ==
    /\ events' = events \cup {[number |-> nextRow, source |-> source, day |-> days]}
    /\ nextRow' = nextRow + 1 /\ total' = total + 1
    /\ history' = [history EXCEPT !.recorded = @ + 1, !.settled = @ \cup ({source} \ {None})]
    /\ writer' = [writer EXCEPT !["daemon"] = [then EXCEPT !.at = "append", !.line = nextRow]]
    /\ UNCHANGED log

RecordEvent ==
    /\ DaemonWriter.at = "free" /\ Spend("own", MaxOwnEvents)
    /\ Recorded(None, Waiting)
    /\ UNCHANGED <<calls, tampered, extensionSide, days>>

Receive ==
    /\ DaemonWriter.at = "free" /\ calls # <<>>
    /\ writer' = [writer EXCEPT !["daemon"] =
                     [Waiting EXCEPT !.at = "call", !.inCall = TRUE, !.rest = Head(calls)]]
    /\ UNCHANGED <<events, nextRow, total, log, calls, tampered, extensionSide, history, days,
                   spent>>

Known(d) == \E row \in events : row.source = d

\* Slip: nothing is looked up in diagnostic_event_ids.
Refused_Invalid(d) == d \in Invalid

\* validate_client_diagnostic, and the duplicates
Refused(d) == d \in Invalid \/ Known(d)

RecordDiagnostic ==
    LET d == Head(DaemonWriter.rest)
        after == [DaemonWriter EXCEPT !.rest = Tail(@)]
    IN  /\ DaemonWriter.at = "call" /\ DaemonWriter.rest # <<>>
        /\ IF Refused(d)
           THEN /\ writer' = [writer EXCEPT !["daemon"] = after]
                /\ history' = [history EXCEPT !.settled = @ \cup {d}]
                /\ UNCHANGED <<events, nextRow, total, log>>
           ELSE Recorded(d, after)
        /\ UNCHANGED <<calls, tampered, extensionSide, days, spent>>

\* An error of the database leaves what the call recorded before it.
EndCall ==
    /\ DaemonWriter.at = "call"
    /\ \/ DaemonWriter.rest = <<>> /\ Reply(TRUE) /\ UNCHANGED spent
       \/ DaemonWriter.rest # <<>> /\ Mishap /\ Reply(FALSE)

\* append_event_log; a failure is only printed.
AppendLine ==
    /\ DaemonWriter.at = "append"
    /\ \/ log' = log \cup {DaemonWriter.line} /\ UNCHANGED spent
       \/ Mishap /\ UNCHANGED log
    /\ writer' = [writer EXCEPT !["daemon"].at = IF DaemonWriter.inCall THEN "call" ELSE "free"]
    /\ UNCHANGED <<events, nextRow, total, calls, tampered, extensionSide, history, days>>

-----------------------------------------------------------------------------
(* A start, and retention.                                                     *)

\* initialize_event_totals
InitialTotal == IF total = None THEN Cardinality(events) ELSE total

StartWriter(p) ==
    /\ writer[p].at = "off"
    /\ IF p = "daemon" THEN UNCHANGED spent ELSE Mishap
    /\ total' = InitialTotal
    /\ writer' = [writer EXCEPT ![p] = [Waiting EXCEPT !.starting = TRUE,
                      !.at = IF ~tampered THEN "delete" ELSE "done"]]
    /\ UNCHANGED <<events, nextRow, log, calls, tampered, extensionSide, history, days>>

Maintain ==
    /\ DaemonWriter.at = "free" /\ ~tampered
    /\ writer' = [writer EXCEPT !["daemon"].at = "delete"]
    /\ UNCHANGED <<events, nextRow, total, log, calls, tampered, extensionSide, history, days,
                   spent>>

Old == {row \in events : row.day + Retention < days}

Delete(p) ==
    /\ writer[p].at = "delete"
    /\ events' = events \ Old
    /\ history' = [history EXCEPT !.forgotten = @ \cup {row.source : row \in Old}]
    /\ writer' = [writer EXCEPT ![p].at = "read"]
    /\ UNCHANGED <<nextRow, total, log, calls, tampered, extensionSide, days, spent>>

\* event_log_snapshot
ReadRows(p) ==
    /\ writer[p].at = "read"
    /\ writer' = [writer EXCEPT ![p].at = "replace",
                                ![p].lines = {row.number : row \in events}]
    /\ UNCHANGED <<events, nextRow, total, log, calls, tampered, extensionSide, history, days,
                   spent>>

\* Slip: the lines are appended to what the file has.
NewFile_Appended(p) == log \cup writer[p].lines

NewFile(p) == writer[p].lines

\* rewrite_event_log.  A start that fails is begun again.
ReplaceLog(p) ==
    /\ writer[p].at = "replace"
    /\ \/ log' = NewFile(p) /\ UNCHANGED spent
          /\ writer' = [writer EXCEPT ![p] = [@ EXCEPT !.at = "done", !.lines = {}]]
       \/ /\ Mishap /\ UNCHANGED log
          /\ writer' = [writer EXCEPT ![p] = IF @.starting THEN Stopped ELSE Waiting]
    /\ UNCHANGED <<events, nextRow, total, calls, tampered, extensionSide, history, days>>

Done(p) ==
    /\ writer[p].at = "done"
    /\ writer' = [writer EXCEPT ![p] = IF p = "daemon" THEN Waiting ELSE Stopped]
    /\ UNCHANGED <<events, nextRow, total, log, calls, tampered, extensionSide, history, days,
                   spent>>

StopWriter(p) ==
    /\ writer[p].at # "off" /\ Mishap
    /\ writer' = [writer EXCEPT ![p] = Stopped]
    /\ calls' = IF p = "daemon" THEN <<>> ELSE calls
    /\ UNCHANGED <<events, nextRow, total, log, tampered, extensionSide, history, days>>

Elapse ==
    /\ days < MaxDays /\ days' = days + 1
    /\ UNCHANGED <<daemonSide, calls, tampered, extensionSide, history, spent>>

\* guarded_now finds a jump of the clock, and keeps that.
Tamper ==
    /\ ~tampered /\ Mishap /\ tampered' = TRUE
    /\ UNCHANGED <<daemonSide, calls, extensionSide, history, days>>

Retain(p) == Delete(p) \/ ReadRows(p) \/ ReplaceLog(p) \/ Done(p)
Work == RecordDiagnostic \/ EndCall \/ AppendLine

EventsNext ==
    \/ \E d \in Diagnostics : Queue(d)
    \/ PersistQueue \/ Flush \/ TimeOut \/ RestartWorker
    \/ RecordEvent \/ Receive \/ Work \/ Maintain
    \/ \E p \in Writers : StartWriter(p) \/ Retain(p) \/ StopWriter(p)
    \/ Elapse \/ Tamper

\* The worker flushes at every heartbeat, systemd starts the daemon, the lock is
\* free between the daily maintenances, and nothing hangs.
EventsFairness ==
    /\ WF_eventVars(Flush) /\ WF_eventVars(TimeOut) /\ SF_eventVars(Receive)
    /\ WF_eventVars(Work) /\ SF_eventVars(Maintain)
    /\ WF_eventVars(StartWriter("daemon")) /\ WF_eventVars(Retain("daemon"))

EventsSpec == EventsInit /\ [][EventsNext]_eventVars /\ EventsFairness

-----------------------------------------------------------------------------
\* Every variable stays in its domain, and only rows that were recorded have
\* lines.
EventTypeOK ==
    /\ \A row \in events : row.number < nextRow /\ row.source \in Diagnostics \cup {None}
    /\ total = None \/ total \in Nat
    /\ log \subseteq 1 .. nextRow - 1
    /\ \A p \in Writers : writer[p].at \in {"off", "free", "append", "call", "delete", "read",
                                            "replace", "done"}
    /\ Len(queue) <= QueueLength /\ Len(saved) <= QueueLength
    /\ batch = None \/ Len(batch) \in 1 .. BatchSize
    /\ IsInjective(queue)

\* The totals count all that was ever recorded: not what retention left, through
\* crashes, restarts and the start that first makes them.
TotalsNeverForget == total # None => total = history.recorded

\* A diagnostic is counted once, however often it is sent after lost answers,
\* failures within a batch, crashes and restarts of the worker with an old queue,
\* until retention has forgotten that it was there.
CountedOnce ==
    [][\A row \in events' \ events :
          row.source = None \/ row.source \notin history.settled \ history.forgotten]_eventVars

\* What was told is queued, recorded or rejected, unless the queue was full or the
\* worker was stopped before it was stored: an answer takes what it
\* is for from the queue, and nothing that came while it was awaited.
NoneIsLost ==
    history.told \subseteq ToSet(queue) \cup history.settled \cup history.excused

\* Types, and neither the daemon's totals nor the extension's queue lose an event.
EventInvariant == EventTypeOK /\ TotalsNeverForget /\ NoneIsLost

\* The text log catches up with the rows, whatever failed or crashed and whatever
\* a tool put in its place meanwhile: the lines that are missing come, and those
\* whose rows retention has deleted go.  Not under a clock that is not trusted.
LogCatchesUp == []<>(log = {row.number : row \in events} \/ tampered)

\* The queue of diagnostics empties, for all the failures of flushing it.
QueueDrains == []<>(queue = <<>>)
===============================================================================
