------------------------------- MODULE MCWatch -------------------------------
(* Which browsers the daemon closes and what it tells the user, checked in one    *)
(* run: a behaviour is one of                                                     *)
(*   "browsers": BrowserWatch over a long stretch of one browser's life with two  *)
(*       troubles, in each kind of installation, and a short one of two browsers; *)
(*   "outbox": NotificationOutbox with ticks of a minute, where an event expires  *)
(*       after one tick (blocks) or two and a warning is dropped when an equal    *)
(*       one is two ticks old;                                                    *)
(* and the other stays as it began.                                               *)
EXTENDS BrowserWatch, NotificationOutbox

CONSTANTS chrome, brave

VARIABLE part

MCSetups ==
    [installed : {{chrome}}, confined : {FALSE}, otherRules : {FALSE},
     time : {4}, launches : {2}, troubles : {2}]
    \cup [installed : {{chrome}}, confined : {TRUE}, otherRules : {TRUE},
          time : {4}, launches : {2}, troubles : {1}]
    \cup [installed : {{chrome, brave}}, confined : {FALSE}, otherRules : {TRUE},
          time : {2}, launches : {2}, troubles : {0}]

Script(source, changes) == [sources |-> {source}, changes |-> changes]
MCScripts == {Script("block", 0), Script("schedule", 2), Script("detox", 1),
              Script("allowance", 2)}

MCSavable == {[enabled |-> TRUE, on |-> Kinds],
              [enabled |-> TRUE, on |-> {"website_blocked", "schedule_ended", "detox_ended"}]}

MCCooldown == [kind \in Kinds |-> IF kind = "allowance_warning" THEN 2 ELSE 1]
MCTtl == [kind \in Kinds |-> IF kind \in BlockKinds THEN 1 ELSE 2]

-------------------------------------------------------------------------------
partVars == <<watchVars, outboxVars, part>>

MCInit ==
    /\ part \in {"browsers", "outbox"}
    /\ WatchInit /\ (part # "browsers" => setup = CHOOSE one \in MCSetups : TRUE)
    /\ OutboxInit /\ (part # "outbox" => script = Script("block", 0))

MCNext ==
    \/ part = "browsers" /\ WatchNext /\ UNCHANGED <<outboxVars, part>>
    \/ part = "outbox" /\ OutboxNext /\ UNCHANGED <<watchVars, part>>

MCSpec == MCInit /\ [][MCNext]_partVars
===============================================================================
