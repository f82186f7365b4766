------------------------------- MODULE MCUsage -------------------------------
(* The three ways time is counted, checked in one run: a behaviour is one of     *)
(* Visits, of ScheduleTime or of AppUsage, and the other two stay as they began. *)
(* Days have four minutes and weeks two days; the schedules are those of up to   *)
(* two windows of certain kinds, within a day and over midnight, on one day or   *)
(* both.  Of the moves of the user and the faults that Visits counts, all but    *)
(* one happen in a behaviour.                                                    *)
EXTENDS Visits, ScheduleTime, AppUsage

VARIABLE part

Kinds == [days : {{0}, {1}, {0, 1}}, start : {0, 1, 3}, end : {0, 1, 2, 3}]
Proper == {w \in Kinds : w.start # w.end}
MCSchedules == {{v, w} : v \in Proper, w \in Proper}
MCEdits == {{[days |-> {0, 1}, start |-> 3, end |-> 1]},
            {[days |-> {1}, start |-> 1, end |-> 3]}}
MCDetoxes == {{}, {[from |-> 2, to |-> 6], [from |-> 5, to |-> 9]}}

usagePartVars == <<visitVars, scheduleVars, usageVars, part>>

MCInit ==
    /\ part \in {"visits", "schedule", "apps"}
    /\ VisitsInit /\ ScheduleInit /\ UsageInit
    /\ part # "visits" => front = CHOOSE tab \in Tabs : TRUE
    /\ part # "schedule" => /\ schedule = CHOOSE windows \in MCEdits : TRUE
                            /\ detox = {}

VisitStep ==
    /\ part = "visits" /\ VisitsNext /\ UNCHANGED <<scheduleVars, usageVars, part>>
    /\ budget'.moves + budget'.faults > 0
ScheduleStep == part = "schedule" /\ ScheduleNext /\ UNCHANGED <<visitVars, usageVars, part>>
AppStep == part = "apps" /\ UsageNext /\ UNCHANGED <<visitVars, scheduleVars, part>>

MCNext == VisitStep \/ ScheduleStep \/ AppStep

OnVisits(action) == part = "visits" /\ action /\ UNCHANGED <<scheduleVars, usageVars, part>>

MCSpec ==
    /\ MCInit /\ [][MCNext]_usagePartVars
    /\ WF_usagePartVars(OnVisits(Handle)) /\ WF_usagePartVars(OnVisits(Receive))
    /\ WF_usagePartVars(OnVisits(Revalidate))
===============================================================================
