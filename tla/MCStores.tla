------------------------------ MODULE MCStores -------------------------------
(* What the daemon writes to disk, checked in one run: a behaviour is one of  *)
(*   "snapshot": PolicyPersistence, a first start and what follows;            *)
(*   "log", "delivery": EventLog without a tool's part in the delivery of the   *)
(*       extension's diagnostics, and without the delivery;                     *)
(*   "private": PrivateBrowsing with three lists, of which two are more than a  *)
(*       browser applies, and MaxAsks requests and troubles together;           *)
(* and the other parts stay as they began.                                      *)
EXTENDS MCPolicyPersistence, EventLog, PrivateBrowsing, TLC

CONSTANTS social, news, focus, chrome, edge

VARIABLE part

MCPatterns == (social :> 1) @@ (news :> 2) @@ (focus :> 0)
MCBrowsers == <<chrome, edge>>
MCChanges ==
    {[key |-> "mode", value |-> "policy_url_blocking"],
     [key |-> "mode", value |-> "manual_consent"],
     [key |-> "scope", value |-> "all_time"]}

-------------------------------------------------------------------------------
partVars == <<policyVars, eventVars, privateVars, part>>

MCInit ==
    /\ part \in {"snapshot", "log", "delivery", "private"}
    /\ PersistenceInit /\ (part # "snapshot" => snapshot = None)
    /\ EventsInit /\ (part # "log" => events = {} /\ total = None)
    /\ PrivateInit

SnapshotOnly == part = "snapshot" /\ UNCHANGED <<eventVars, privateVars, part>>
EventsOnly == part \in {"log", "delivery"} /\ UNCHANGED <<policyVars, privateVars, part>>
PrivateOnly == part = "private" /\ UNCHANGED <<policyVars, eventVars, part>>

Focused ==
    /\ part = "log" => UNCHANGED history.told
    /\ part = "delivery" => /\ UNCHANGED <<writer["tool"], tampered, spent.own>>
                            /\ spent'.mishaps <= 1

MCNext ==
    \/ SnapshotOnly /\ PersistenceNext
    \/ EventsOnly /\ EventsNext /\ Focused
    \/ PrivateOnly /\ PrivateNext /\ used'.asks + used'.mishaps <= MaxAsks

\* The fairness of each module, for the part that runs.
MCFairness ==
    /\ WF_partVars(SnapshotOnly /\ Start(Daemon))
    /\ \A x \in Processes : /\ WF_partVars(SnapshotOnly /\ TakeLock(x))
                            /\ WF_partVars(SnapshotOnly /\ Step(x))
    /\ WF_partVars(SnapshotOnly /\ Edit)
    /\ WF_partVars(EventsOnly /\ Flush) /\ WF_partVars(EventsOnly /\ TimeOut)
    /\ SF_partVars(EventsOnly /\ Receive)
    /\ WF_partVars(EventsOnly /\ Work) /\ SF_partVars(EventsOnly /\ Maintain)
    /\ WF_partVars(EventsOnly /\ StartWriter("daemon"))
    /\ WF_partVars(EventsOnly /\ Retain("daemon"))
    /\ WF_partVars(PrivateOnly /\ LoopWrites) /\ WF_partVars(PrivateOnly /\ Restart)

MCSpec == MCInit /\ [][MCNext]_partVars /\ MCFairness
==============================================================================
