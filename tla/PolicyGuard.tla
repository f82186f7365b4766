----------------------------- MODULE PolicyGuard -----------------------------
(***************************************************************************)
(* The policy half of the daemon's RPC interface (focusd/src/rpc.rs): the   *)
(* requests that edit website lists, application rules, schedules and       *)
(* allowances, start a Detox, open the Tier 1 edit window, and the hosts    *)
(* file those requests and the repair loop write.                           *)
(*                                                                          *)
(* Requests run on several tasks.  A handler samples the time first         *)
(* (guarded_now takes and drops the core lock), and takes the lock again    *)
(* for the body, so the `now' a body decides with may be old.  A request    *)
(* in flight is represented by that sample alone: its parameters are read   *)
(* under the lock only, and are chosen when the body runs.                  *)
(*                                                                          *)
(* Persisting the policy (and its failures) is module PolicyPersistence;    *)
(* here a body that passes validation commits.  The sessions of one Detox   *)
(* start differ by identifier in the code; two with equal times and lists   *)
(* are one here.                                                            *)
(***************************************************************************)
EXTENDS Integers, FiniteSets

CONSTANTS
    SiteLists,      \* identifiers of website lists (Config.rules)
    AppLists,       \* identifiers of application rules (Config.app_rules)
    Schedules,      \* identifiers of schedules
    Allowances,     \* identifiers of allowances
    Entries,        \* rows of a list: patterns or matchers
    Threads,        \* tasks that may have a request in flight
    None,           \* absence: no such item, no allowance, no update
    SlotsPerDay,    \* a day is cut into this many schedule slots
    OperatorSlots,  \* slots of the Sunday 20:00-23:59 access window
    KeyLength,      \* TIER1_EDIT_UNLOCK_MINUTES, in slots
    DetoxLengths,   \* durations a client asks a Detox for, in slots
    ListChoices,    \* list records a client proposes
    WindowChoices,  \* window sets a client proposes for a schedule
    MinuteChoices,  \* daily minutes a client proposes for an allowance
    Imports,        \* policies a client imports as TOML
    BlockBrowsers,  \* strict_mode.block_unsupported_browsers
    BrowserRule,    \* the identifier UNSUPPORTED_BROWSER_RULE_ID
    HardBrowserRule,\* the record unsupported_browser_rule() builds
    InitialPolicy,  \* the policy the daemon starts with
    MaxClock,       \* bound: last instant the model reaches
    MaxSessions     \* bound: Detox sessions ever started

Lists == SiteLists \cup AppLists
Slots == 0 .. SlotsPerDay - 1
Tiers == {"hard", "scheduled", "controlled"}
Modes == {"block", "allow"}
AccessModes == {"sunday", "no_active_schedule_or_detox", "all_time"}

ListRecords == [tier      : Tiers,
                enabled   : BOOLEAN,
                mode      : Modes,
                entries   : SUBSET Entries,
                schedules : SUBSET Schedules,
                allowance : Allowances \cup {None}]

Policies == [lists   : [Lists -> ListRecords \cup {None}],
             windows : [Schedules -> (SUBSET Slots) \cup {None}],
             minutes : [Allowances -> Nat \cup {None}]]

Sessions == [start : Nat, end : Nat, targets : SUBSET Lists]

ASSUME BoundsAssumption ==
    /\ MaxClock \in Nat /\ MaxSessions \in Nat
    /\ SlotsPerDay \in Nat \ {0} /\ KeyLength \in Nat
    /\ DetoxLengths \subseteq Nat \ {0}

ASSUME NoneAssumption ==
    /\ None \notin ListRecords
    /\ None \notin Allowances
    /\ \A w \in SUBSET Slots : w # None
    /\ \A m \in MinuteChoices : m # None

ASSUME ChoicesAssumption ==
    /\ ListChoices \subseteq ListRecords
    /\ WindowChoices \subseteq SUBSET Slots
    /\ MinuteChoices \subseteq Nat
    /\ Imports \subseteq Policies
    /\ BlockBrowsers \in BOOLEAN
    /\ HardBrowserRule \in ListRecords
    /\ InitialPolicy \in Policies

VARIABLES
    clock,      \* wall time
    policy,     \* core.config()
    detox,      \* detox_sessions rows
    keyUntil,   \* service state TIER1_EDIT_UNLOCK_UNTIL_KEY
    access,     \* service state PROTECTED_ACCESS_MODE_KEY
    tampered,   \* the latched clock_guard status
    handoff,    \* an uninstall handoff is under way (UninstallHandoff.tla)
    hosts,      \* rows of the managed block of the hosts file
    inflight    \* the sampled `now' of the request each task is serving

vars == <<clock, policy, detox, keyUntil, access, tampered, handoff, hosts,
          inflight>>

Idle == -1

-----------------------------------------------------------------------------
(* What is active, in a policy p at an instant n.                           *)

SlotOf(n) == n % SlotsPerDay

\* A schedule identifier the policy does not know counts as active.
SchedulesActive(p, ids, n) ==
    \E s \in ids : p.windows[s] = None \/ SlotOf(n) \in p.windows[s]

ScheduleActive(p, s, n) == p.windows[s] # None /\ SlotOf(n) \in p.windows[s]

Present(p, l) == p.lists[l] # None

ListActive(p, l, n) ==
    /\ p.lists[l].enabled
    /\ \/ p.lists[l].tier = "hard"
       \/ SchedulesActive(p, p.lists[l].schedules, n)

ActiveDetox(n) == {s \in detox : s.start <= n /\ n < s.end}

InDetox(l, n) == \E s \in ActiveDetox(n) : l \in s.targets

KeyOpen(n) == n < keyUntil

Users(p, a) == {l \in Lists : Present(p, l) /\ p.lists[l].allowance = a}

AllowanceInDetox(a, n) == \E l \in Users(policy, a) : InDetox(l, n)

\* Slip: only Detox makes an allowance active.
AllowanceActive_DetoxOnly(a, n) == AllowanceInDetox(a, n)

AllowanceActive(a, n) ==
    \/ \E l \in Users(policy, a) : ListActive(policy, l, n)
    \/ AllowanceInDetox(a, n)

AccessOpen(n) ==
    CASE access = "sunday" -> SlotOf(n) \in OperatorSlots
      [] access = "no_active_schedule_or_detox" ->
            /\ \A s \in Schedules : ~ScheduleActive(policy, s, n)
            /\ ActiveDetox(n) = {}
      [] access = "all_time" -> TRUE

-----------------------------------------------------------------------------
(* Edits.                                                                   *)

\* Slip: only the rows are compared, not the other fields.
Additive_RowsOnly(current, proposed) ==
    IF current.mode = "block"
    THEN current.entries \subseteq proposed.entries
    ELSE proposed.entries \subseteq current.entries

\* An edit that only appends blocked rows or removes allowed ones.
Additive(current, proposed) ==
    /\ proposed = [current EXCEPT !.entries = proposed.entries]
    /\ IF current.mode = "block"
       THEN current.entries \subseteq proposed.entries
       ELSE proposed.entries \subseteq current.entries

\* The allowance goes with the last list that used it.
RemoveUnreferenced(p, a) ==
    IF a = None \/ Users(p, a) # {} THEN p
    ELSE [p EXCEPT !.minutes[a] = None]

\* Config::validate.
Valid(p) ==
    /\ \A l \in Lists : Present(p, l) =>
         LET r == p.lists[l] IN
         /\ r.entries # {}
         /\ \A s \in r.schedules : p.windows[s] # None
         /\ r.mode = "allow" => r.tier # "hard" /\ r.enabled
         /\ r.allowance # None =>
              r.tier = "controlled" /\ p.minutes[r.allowance] # None
    /\ \A a \in Allowances : \A k, l \in Users(p, a) : k = l

\* The domains of Tier 1 blocklists and of active Tier 2 blocklists.
HostsFor(p, sessions, n, untrusted) ==
    UNION {p.lists[l].entries : l \in {k \in SiteLists :
        /\ Present(p, k) /\ p.lists[k].enabled /\ p.lists[k].mode = "block"
        /\ \/ p.lists[k].tier = "hard"
           \/ /\ p.lists[k].tier = "scheduled"
              /\ \/ untrusted /\ p.lists[k].schedules # {}
                 \/ SchedulesActive(p, p.lists[k].schedules, n)
                 \/ \E s \in sessions : k \in s.targets}}

\* What the hosts file holds after a body that decided at n and left policy
\* p and sessions D in force.
RepairedHosts(p, D, n) ==
    IF handoff THEN hosts
    ELSE HostsFor(p, {s \in D : s.start <= n /\ n < s.end}, n, FALSE)

\* Slip: the edit key outranks a Detox.
StageableAllowance_KeyOverDetox(a, m, n) ==
    \/ policy.minutes[a] \in {None, m}
    \/ ~AllowanceActive(a, n)
    \/ KeyOpen(n)

StageableAllowance(a, m, n) ==
    \/ policy.minutes[a] \in {None, m}
    \/ ~AllowanceActive(a, n)
    \/ KeyOpen(n) /\ ~AllowanceInDetox(a, n)

\* Slip: the edit key outranks a Detox.
EditableList_KeyOverDetox(l, r, n) ==
    policy.lists[l] \notin {None, r} /\ ~Additive(policy.lists[l], r) =>
        KeyOpen(n) \/ ~(InDetox(l, n) \/ ListActive(policy, l, n))

EditableList(l, r, n) ==
    policy.lists[l] \notin {None, r} /\ ~Additive(policy.lists[l], r) =>
        /\ ~InDetox(l, n)
        /\ ListActive(policy, l, n) => KeyOpen(n)

\* Saving list l as r, with daily minutes m for its allowance.
SavedList(l, r, m) ==
    LET staged == IF m = None THEN policy
                  ELSE [policy EXCEPT !.minutes[r.allowance] = m]
        saved  == [staged EXCEPT !.lists[l] = r]
        old    == IF Present(policy, l) THEN policy.lists[l].allowance ELSE None
    IN  IF old # r.allowance THEN RemoveUnreferenced(saved, old) ELSE saved

SaveAllowed(l, r, m, n) ==
    /\ m # None => /\ r.tier = "controlled" /\ r.allowance # None
                   /\ StageableAllowance(r.allowance, m, n)
    /\ EditableList(l, r, n)

DeletedList(l) ==
    RemoveUnreferenced([policy EXCEPT !.lists[l] = None],
                       policy.lists[l].allowance)

DeleteAllowed(l, n) ==
    /\ Present(policy, l)
    /\ ~InDetox(l, n)
    /\ ListActive(policy, l, n) => KeyOpen(n)

-----------------------------------------------------------------------------
Init ==
    /\ clock = 0
    /\ policy = InitialPolicy
    /\ Valid(policy)
    /\ detox = {}
    /\ keyUntil = 0
    /\ access \in AccessModes
    /\ tampered = FALSE
    /\ handoff = FALSE
    /\ hosts = HostsFor(policy, {}, 0, FALSE)
    /\ inflight = [t \in Threads |-> Idle]

\* A request arrives: the time is sampled, a latched clock refuses it.
Begin(t) ==
    /\ inflight[t] = Idle
    /\ ~tampered
    /\ inflight' = [inflight EXCEPT ![t] = clock]
    /\ UNCHANGED <<clock, policy, detox, keyUntil, access, tampered, handoff,
                   hosts>>

\* The body returns an error before it persists anything.
Reject(t) ==
    /\ inflight[t] # Idle
    /\ inflight' = [inflight EXCEPT ![t] = Idle]
    /\ UNCHANGED <<clock, policy, detox, keyUntil, access, tampered, handoff,
                   hosts>>

\* The body of a policy edit that passed its own checks.
Commit(t, next, newHosts) ==
    /\ Valid(next)
    /\ policy' = next
    /\ hosts' = newHosts
    /\ inflight' = [inflight EXCEPT ![t] = Idle]
    /\ UNCHANGED <<clock, detox, keyUntil, access, tampered, handoff>>

UpsertSiteList(t) ==
    \E l \in SiteLists, r \in ListChoices, m \in MinuteChoices \cup {None} :
        /\ inflight[t] # Idle
        /\ SaveAllowed(l, r, m, inflight[t])
        /\ Commit(t, SavedList(l, r, m),
                  RepairedHosts(SavedList(l, r, m), detox, inflight[t]))

UpsertAppRule(t) ==
    \E l \in AppLists, r \in ListChoices, m \in MinuteChoices \cup {None} :
        /\ inflight[t] # Idle
        /\ SaveAllowed(l, r, m, inflight[t])
        /\ Commit(t, SavedList(l, r, m), hosts)

DeleteSiteList(t) ==
    \E l \in SiteLists :
        /\ inflight[t] # Idle
        /\ DeleteAllowed(l, inflight[t])
        /\ Commit(t, DeletedList(l),
                  RepairedHosts(DeletedList(l), detox, inflight[t]))

DeleteAppRule(t) ==
    \E l \in AppLists :
        /\ inflight[t] # Idle
        /\ DeleteAllowed(l, inflight[t])
        /\ Commit(t, DeletedList(l), hosts)

UpsertAllowance(t) ==
    \E a \in Allowances, m \in MinuteChoices :
        /\ inflight[t] # Idle
        /\ StageableAllowance(a, m, inflight[t])
        /\ Commit(t, [policy EXCEPT !.minutes[a] = m], hosts)

DeleteAllowance(t) ==
    \E a \in Allowances :
        /\ inflight[t] # Idle
        /\ policy.minutes[a] # None
        /\ ~AllowanceActive(a, inflight[t])
        /\ Users(policy, a) = {}
        /\ Commit(t, [policy EXCEPT !.minutes[a] = None], hosts)

\* Lists below Tier 1 of one kind whose attachment to s a request changes.
Retargeted(s, kind, requested) ==
    IF requested = None THEN {}
    ELSE {l \in kind : /\ Present(policy, l) /\ policy.lists[l].tier # "hard"
                       /\ (s \in policy.lists[l].schedules) # (l \in requested)}

ValidTargets(p, ids) ==
    ids # None => \A l \in ids : Present(p, l) /\ p.lists[l].tier # "hard"

\* apply_schedule_target_updates: the attachment of these lists may change, ...
Retargetable(changed, n) ==
    \A l \in changed : /\ ~InDetox(l, n)
                       /\ ListActive(policy, l, n) => KeyOpen(n)

\* ... and changing it leaves these lists.
Retarget(s, changed) ==
    [l \in Lists |->
        IF l \in changed
        THEN [policy.lists[l] EXCEPT !.schedules =
                 IF s \in @ THEN @ \ {s} ELSE @ \cup {s}]
        ELSE policy.lists[l]]

\* Saving a schedule replaces its windows and, where the request names them,
\* the lists it is attached to.  The hosts file is left to the repair loop.
UpsertSchedule(t) ==
    \E s \in Schedules, w \in WindowChoices,
       sites \in (SUBSET SiteLists) \cup {None},
       apps \in (SUBSET AppLists) \cup {None} :
        LET n       == inflight[t]
            changed == Retargeted(s, SiteLists, sites)
                         \cup Retargeted(s, AppLists, apps)
        IN  /\ n # Idle
            /\ ValidTargets(policy, sites) /\ ValidTargets(policy, apps)
            /\ ScheduleActive(policy, s, n) =>
                 /\ policy.windows[s] \subseteq w
                 /\ changed # {} => KeyOpen(n)
            /\ Retargetable(changed, n)
            /\ Commit(t, [policy EXCEPT !.windows[s] = w,
                                       !.lists = Retarget(s, changed)],
                      hosts)

Detached(s) ==
    [l \in Lists |-> IF Present(policy, l)
                     THEN [policy.lists[l] EXCEPT !.schedules = @ \ {s}]
                     ELSE None]

\* Deleting an idle schedule detaches it from every list, in Detox or not.
DeleteSchedule(t) ==
    \E s \in Schedules :
        /\ inflight[t] # Idle
        /\ policy.windows[s] # None
        /\ ~ScheduleActive(policy, s, inflight[t])
        /\ Commit(t, [policy EXCEPT !.windows[s] = None, !.lists = Detached(s)],
                  hosts)

\* Appending keeps what is there and refuses an item that differs.
Appendable(current, imported) ==
    \A k \in DOMAIN current : imported[k] = None
                              \/ current[k] \in {None, imported[k]}

Append(current, imported) ==
    [k \in DOMAIN current |-> IF current[k] = None THEN imported[k]
                                                   ELSE current[k]]

\* ensure_mandatory_app_rules: the rule against unsupported browsers follows
\* strict mode.
WithBrowserRule(p) ==
    IF BrowserRule \in AppLists
    THEN [p EXCEPT !.lists[BrowserRule] =
                IF BlockBrowsers THEN HardBrowserRule ELSE None]
    ELSE p

ImportPolicy(t) ==
    \E imported \in Imports :
        LET next == WithBrowserRule(
                      [lists   |-> Append(policy.lists, imported.lists),
                       windows |-> Append(policy.windows, imported.windows),
                       minutes |-> Append(policy.minutes, imported.minutes)])
        IN  /\ inflight[t] # Idle
            /\ Valid(imported)
            /\ Appendable(policy.lists, imported.lists)
            /\ Appendable(policy.windows, imported.windows)
            /\ Appendable(policy.minutes, imported.minutes)
            /\ Commit(t, next, RepairedHosts(next, detox, inflight[t]))

StartDetox(t) ==
    \E targets \in (SUBSET Lists) \ {{}}, d \in DetoxLengths :
        LET n == inflight[t]
            session == [start |-> n, end |-> n + d, targets |-> targets]
        IN  /\ n # Idle
            /\ Cardinality(detox) < MaxSessions
            /\ ~handoff
            /\ ValidTargets(policy, targets)
            /\ detox' = detox \cup {session}
            /\ hosts' = RepairedHosts(policy, detox \cup {session}, n)
            /\ inflight' = [inflight EXCEPT ![t] = Idle]
            /\ UNCHANGED <<clock, policy, keyUntil, access, tampered, handoff>>

\* Slip: unlocking again adds to the window that is open.
UnlockTier1Edit_Accumulates(t) ==
    /\ inflight[t] # Idle
    /\ AccessOpen(inflight[t])
    /\ keyUntil' = keyUntil + KeyLength
    /\ inflight' = [inflight EXCEPT ![t] = Idle]
    /\ UNCHANGED <<clock, policy, detox, access, tampered, handoff, hosts>>

\* The holder of the Tier 1 credential opens the edit window.
UnlockTier1Edit(t) ==
    /\ inflight[t] # Idle
    /\ AccessOpen(inflight[t])
    /\ keyUntil' = inflight[t] + KeyLength
    /\ inflight' = [inflight EXCEPT ![t] = Idle]
    /\ UNCHANGED <<clock, policy, detox, access, tampered, handoff, hosts>>

\* Changing who may open the window asks for no time and no window.
SetProtectedAccessMode ==
    /\ \E mode \in AccessModes : access' = mode
    /\ UNCHANGED <<clock, policy, detox, keyUntil, tampered, handoff, hosts,
                   inflight>>

\* Slip: the loop renders the block without the Detox sessions.
RepairHosts_NoDetox ==
    /\ ~handoff
    /\ hosts' = HostsFor(policy, {}, clock, tampered)
    /\ UNCHANGED <<clock, policy, detox, keyUntil, access, tampered, handoff,
                   inflight>>

\* One pass of the repair loop over the hosts file.
RepairHosts ==
    /\ ~handoff
    /\ hosts' = HostsFor(policy, IF tampered THEN detox ELSE ActiveDetox(clock),
                         clock, tampered)
    /\ UNCHANGED <<clock, policy, detox, keyUntil, access, tampered, handoff,
                   inflight>>

\* prepare_uninstall and the end of its handoff, seen from here.
ToggleHandoff ==
    /\ handoff' = ~handoff
    /\ UNCHANGED <<clock, policy, detox, keyUntil, access, tampered, hosts,
                   inflight>>

\* A sample of the clock guard latches (ClockGuard.tla).
ClockTampered ==
    /\ tampered' = TRUE
    /\ UNCHANGED <<clock, policy, detox, keyUntil, access, handoff, hosts,
                   inflight>>

Tick ==
    /\ clock < MaxClock
    /\ clock' = clock + 1
    /\ UNCHANGED <<policy, detox, keyUntil, access, tampered, handoff, hosts,
                   inflight>>

Request(t) ==
    \/ Begin(t) \/ Reject(t)
    \/ UpsertSiteList(t) \/ DeleteSiteList(t)
    \/ UpsertAppRule(t) \/ DeleteAppRule(t)
    \/ UpsertAllowance(t) \/ DeleteAllowance(t)
    \/ UpsertSchedule(t) \/ DeleteSchedule(t)
    \/ ImportPolicy(t) \/ StartDetox(t) \/ UnlockTier1Edit(t)

Next ==
    \/ \E t \in Threads : Request(t)
    \/ SetProtectedAccessMode \/ RepairHosts \/ ToggleHandoff
    \/ ClockTampered \/ Tick

Spec == Init /\ [][Next]_vars

FairSpec == Spec /\ WF_vars(RepairHosts)
-----------------------------------------------------------------------------
(* Properties.                                                              *)

\* Every variable has its type; no request has sampled a time still to come,
\* and no Detox session starts later than now.
TypeOK ==
    /\ clock \in 0 .. MaxClock
    /\ policy \in Policies
    /\ detox \subseteq Sessions
    /\ \A s \in detox : s.start <= clock
    /\ keyUntil \in 0 .. MaxClock + KeyLength
    /\ access \in AccessModes
    /\ tampered \in BOOLEAN /\ handoff \in BOOLEAN
    /\ hosts \subseteq Entries
    /\ inflight \in [Threads -> {Idle} \cup (0 .. clock)]

\* The lists clients own: the rule on unsupported browsers is the daemon's,
\* and any import puts it back to its fixed form.
ClientLists == Lists \ {BrowserRule}

Finishes(t) == inflight[t] # Idle /\ inflight'[t] = Idle

\* In policy q, list l restricts at least as much as in policy p.
AsStrict(p, q, l) ==
    /\ Present(q, l)
    /\ q.lists[l].tier = p.lists[l].tier
    /\ q.lists[l].enabled = p.lists[l].enabled
    /\ q.lists[l].mode = p.lists[l].mode
    /\ IF p.lists[l].mode = "block"
       THEN p.lists[l].entries \subseteq q.lists[l].entries
       ELSE q.lists[l].entries \subseteq p.lists[l].entries
    /\ q.lists[l].allowance = p.lists[l].allowance
    /\ p.lists[l].allowance # None =>
         q.minutes[p.lists[l].allowance] = p.minutes[p.lists[l].allowance]

\* Policy p and sessions D enforce list l at n.
Enforced(p, D, l, n) ==
    /\ Present(p, l)
    /\ p.lists[l].enabled
    /\ \/ p.lists[l].tier = "hard"
       \/ SchedulesActive(p, p.lists[l].schedules, n)
       \/ \E s \in D : s.start <= n /\ n < s.end /\ l \in s.targets

\* "Detox-attached lists remain limited to tightening changes even with the
\* key" (Docs/FEATURES.md): a request that sampled its time after a Detox
\* started and finishes before it ends weakens no list of that Detox, whatever
\* it edits (the list, its allowance, a schedule, an import) and whoever
\* holds the key.
DetoxTightenStep ==
    \A t \in Threads : Finishes(t) =>
      \A s \in detox : s.start <= inflight[t] /\ clock < s.end =>
        \A l \in s.targets \cap ClientLists :
          Present(policy, l) => AsStrict(policy, policy', l)

DetoxOnlyTightens == [][DetoxTightenStep]_vars

\* Without the edit key no request stops or weakens what the policy enforces
\* at that moment, by any route: editing or deleting the list, its allowance,
\* a schedule it is attached to, its attachment, or importing over it.
EnforcementStep ==
    \A t \in Threads :
      Finishes(t) /\ inflight[t] = clock /\ ~KeyOpen(clock) =>
        \A l \in ClientLists : Enforced(policy, detox, l, clock) =>
          /\ AsStrict(policy, policy', l)
          /\ Enforced(policy', detox', l, clock)

EnforcementKept == [][EnforcementStep]_vars

\* Once no uninstall interferes, whatever the hosts file should block under
\* the current policy and Detox reaches it (or stops being due): edits that
\* leave the file alone, or write it for an older time, are made good by the
\* repair loop.
HostsCatchUp ==
    <>[]~handoff =>
      \A e \in Entries :
        (~tampered /\ e \in HostsFor(policy, ActiveDetox(clock), clock, FALSE))
          ~> (e \in hosts
              \/ e \notin HostsFor(policy, ActiveDetox(clock), clock, FALSE))

\* "Attached lists cannot be deleted ... during Detox" (Docs/FEATURES.md:95),
\* as the text has it, for requests of any age: a list an active Detox was
\* started with is there for as long as the Detox runs.
DetoxListsRemain ==
    \A s \in ActiveDetox(clock) : \A l \in s.targets : Present(policy, l)
=============================================================================
