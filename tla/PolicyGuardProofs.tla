-------------------------- MODULE PolicyGuardProofs --------------------------
(* Theorems about PolicyGuard, for every policy, request and clock.          *)
EXTENDS PolicyGuard, TLAPS

-----------------------------------------------------------------------------
(* The operators that build the next policy return policies.                *)

\* Dropping an allowance no list uses leaves a policy.
LEMMA RemoveUnreferencedType ==
    ASSUME NEW p \in Policies, NEW a \in Allowances \cup {None}
    PROVE  RemoveUnreferenced(p, a) \in Policies
  BY DEF RemoveUnreferenced, Policies

\* The hosts file holds rows of lists only.
LEMMA HostsForType ==
    ASSUME NEW p \in Policies, NEW D, NEW n, NEW u
    PROVE  HostsFor(p, D, n, u) \subseteq Entries
<1>1. ASSUME NEW k \in SiteLists, Present(p, k)
      PROVE  p.lists[k].entries \subseteq Entries
  BY <1>1 DEF Present, Policies, ListRecords, Lists
<1> QED
  BY <1>1 DEF HostsFor

\* Repairing the hosts file leaves it with rows of lists only.
LEMMA RepairedHostsType ==
    ASSUME TypeOK, NEW p \in Policies, NEW D, NEW n
    PROVE  RepairedHosts(p, D, n) \subseteq Entries
  BY HostsForType DEF RepairedHosts, TypeOK

\* Saving a list, with its allowance or without, leaves a policy.
LEMMA SavedListType ==
    ASSUME TypeOK, NEW l \in Lists, NEW r \in ListChoices,
           NEW m \in MinuteChoices \cup {None},
           m # None => r.allowance # None
    PROVE  SavedList(l, r, m) \in Policies
<1> DEFINE staged == IF m = None THEN policy
                     ELSE [policy EXCEPT !.minutes[r.allowance] = m]
           saved  == [staged EXCEPT !.lists[l] = r]
           old    == IF Present(policy, l) THEN policy.lists[l].allowance
                     ELSE None
<1>1. r \in ListRecords /\ r.allowance \in Allowances \cup {None}
  BY ChoicesAssumption DEF ListRecords
<1>2. staged \in Policies
  BY <1>1, ChoicesAssumption DEF TypeOK, Policies
<1>3. saved \in Policies
  BY <1>1, <1>2 DEF Policies
<1>4. old \in Allowances \cup {None}
  BY DEF TypeOK, Policies, Present, ListRecords
<1>5. RemoveUnreferenced(saved, old) \in Policies
  BY <1>3, <1>4, RemoveUnreferencedType
<1> HIDE DEF staged
<1> QED
  BY <1>3, <1>5 DEF SavedList, staged

\* Deleting a list leaves a policy.
LEMMA DeletedListType ==
    ASSUME TypeOK, NEW l \in Lists, Present(policy, l)
    PROVE  DeletedList(l) \in Policies
<1>1. [policy EXCEPT !.lists[l] = None] \in Policies
  BY DEF TypeOK, Policies
<1>2. policy.lists[l].allowance \in Allowances \cup {None}
  BY DEF TypeOK, Policies, Present, ListRecords
<1> QED
  BY <1>1, <1>2, RemoveUnreferencedType DEF DeletedList

\* Attaching and detaching a schedule leaves lists.
LEMMA RetargetType ==
    ASSUME TypeOK, NEW s \in Schedules, NEW changed \in SUBSET Lists,
           \A l \in changed : Present(policy, l)
    PROVE  Retarget(s, changed) \in [Lists -> ListRecords \cup {None}]
<1>1. ASSUME NEW l \in Lists, l \in changed
      PROVE  [policy.lists[l] EXCEPT !.schedules =
                 IF s \in @ THEN @ \ {s} ELSE @ \cup {s}] \in ListRecords
  <2>1. policy.lists[l] \in ListRecords
    BY <1>1 DEF TypeOK, Policies, Present
  <2> QED
    BY <2>1 DEF ListRecords
<1>2. ASSUME NEW l \in Lists
      PROVE  policy.lists[l] \in ListRecords \cup {None}
  BY DEF TypeOK, Policies
<1> QED
  BY <1>1, <1>2 DEF Retarget

-----------------------------------------------------------------------------
(* Type correctness.                                                        *)

\* A body that commits a policy keeps the types.
LEMMA CommitType ==
    ASSUME TypeOK, NEW t \in Threads, NEW next \in Policies,
           NEW h \in SUBSET Entries, Commit(t, next, h)
    PROVE  TypeOK'
  BY DEF TypeOK, Commit

\* A list edit keeps the types, whatever becomes of the hosts file.
LEMMA SiteListType ==
    ASSUME TypeOK, NEW t \in Threads, UpsertSiteList(t) \/ DeleteSiteList(t)
    PROVE  TypeOK'
<1>1. CASE UpsertSiteList(t)
  <2>1. PICK l \in SiteLists, r \in ListChoices, m \in MinuteChoices \cup {None} :
          /\ SaveAllowed(l, r, m, inflight[t])
          /\ Commit(t, SavedList(l, r, m),
                    RepairedHosts(SavedList(l, r, m), detox, inflight[t]))
    BY <1>1 DEF UpsertSiteList
  <2>2. SavedList(l, r, m) \in Policies
    BY <2>1, SavedListType DEF Lists, SaveAllowed
  <2>3. RepairedHosts(SavedList(l, r, m), detox, inflight[t]) \in SUBSET Entries
    BY <2>2, RepairedHostsType
  <2> QED
    BY <2>1, <2>2, <2>3, CommitType
<1>2. CASE DeleteSiteList(t)
  <2>1. PICK l \in SiteLists :
          /\ DeleteAllowed(l, inflight[t])
          /\ Commit(t, DeletedList(l),
                    RepairedHosts(DeletedList(l), detox, inflight[t]))
    BY <1>2 DEF DeleteSiteList
  <2>2. DeletedList(l) \in Policies
    BY <2>1, DeletedListType DEF Lists, DeleteAllowed
  <2>3. RepairedHosts(DeletedList(l), detox, inflight[t]) \in SUBSET Entries
    BY <2>2, RepairedHostsType
  <2> QED
    BY <2>1, <2>2, <2>3, CommitType
<1> QED
  BY <1>1, <1>2

LEMMA AppRuleType ==
    ASSUME TypeOK, NEW t \in Threads, UpsertAppRule(t) \/ DeleteAppRule(t)
    PROVE  TypeOK'
<1>0. hosts \in SUBSET Entries
  BY DEF TypeOK
<1>1. CASE UpsertAppRule(t)
  <2>1. PICK l \in AppLists, r \in ListChoices, m \in MinuteChoices \cup {None} :
          /\ SaveAllowed(l, r, m, inflight[t])
          /\ Commit(t, SavedList(l, r, m), hosts)
    BY <1>1 DEF UpsertAppRule
  <2>2. SavedList(l, r, m) \in Policies
    BY <2>1, SavedListType DEF Lists, SaveAllowed
  <2> QED
    BY <1>0, <2>1, <2>2, CommitType
<1>2. CASE DeleteAppRule(t)
  <2>1. PICK l \in AppLists :
          DeleteAllowed(l, inflight[t]) /\ Commit(t, DeletedList(l), hosts)
    BY <1>2 DEF DeleteAppRule
  <2>2. DeletedList(l) \in Policies
    BY <2>1, DeletedListType DEF Lists, DeleteAllowed
  <2> QED
    BY <1>0, <2>1, <2>2, CommitType
<1> QED
  BY <1>1, <1>2

LEMMA AllowanceType ==
    ASSUME TypeOK, NEW t \in Threads, UpsertAllowance(t) \/ DeleteAllowance(t)
    PROVE  TypeOK'
<1>0. hosts \in SUBSET Entries
  BY DEF TypeOK
<1>1. ASSUME NEW a \in Allowances, NEW m \in MinuteChoices \cup {None}
      PROVE  [policy EXCEPT !.minutes[a] = m] \in Policies
  BY ChoicesAssumption DEF TypeOK, Policies
<1> QED
  BY <1>0, <1>1, CommitType DEF UpsertAllowance, DeleteAllowance

LEMMA ScheduleType ==
    ASSUME TypeOK, NEW t \in Threads, UpsertSchedule(t) \/ DeleteSchedule(t)
    PROVE  TypeOK'
<1>0. hosts \in SUBSET Entries
  BY DEF TypeOK
<1>1. CASE UpsertSchedule(t)
  <2>1. PICK s \in Schedules, w \in WindowChoices,
             sites \in (SUBSET SiteLists) \cup {None},
             apps \in (SUBSET AppLists) \cup {None} :
          Commit(t, [policy EXCEPT !.windows[s] = w,
                       !.lists = Retarget(s, Retargeted(s, SiteLists, sites)
                                        \cup Retargeted(s, AppLists, apps))],
                 hosts)
    BY <1>1 DEF UpsertSchedule
  <2> DEFINE changed == Retargeted(s, SiteLists, sites)
                          \cup Retargeted(s, AppLists, apps)
  <2>2. changed \in SUBSET Lists /\ \A l \in changed : Present(policy, l)
    BY DEF Retargeted, Lists
  <2>3. Retarget(s, changed) \in [Lists -> ListRecords \cup {None}]
    BY <2>2, RetargetType
  <2>4. w \in SUBSET Slots
    BY ChoicesAssumption
  <2> HIDE DEF changed
  <2>5. [policy EXCEPT !.windows[s] = w, !.lists = Retarget(s, changed)]
          \in Policies
    BY <2>3, <2>4 DEF TypeOK, Policies
  <2> QED
    BY <1>0, <2>1, <2>5, CommitType DEF changed
<1>2. CASE DeleteSchedule(t)
  <2>1. PICK s \in Schedules :
          Commit(t, [policy EXCEPT !.windows[s] = None, !.lists = Detached(s)],
                 hosts)
    BY <1>2 DEF DeleteSchedule
  <2>2. ASSUME NEW l \in Lists, Present(policy, l)
        PROVE  [policy.lists[l] EXCEPT !.schedules = @ \ {s}] \in ListRecords
    <3>1. policy.lists[l] \in ListRecords
      BY <2>2 DEF TypeOK, Policies, Present
    <3> QED
      BY <3>1 DEF ListRecords
  <2>3. Detached(s) \in [Lists -> ListRecords \cup {None}]
    BY <2>2 DEF Detached
  <2>4. [policy EXCEPT !.windows[s] = None, !.lists = Detached(s)] \in Policies
    BY <2>3 DEF TypeOK, Policies
  <2> QED
    BY <1>0, <2>1, <2>4, CommitType
<1> QED
  BY <1>1, <1>2

LEMMA ImportType ==
    ASSUME TypeOK, NEW t \in Threads, ImportPolicy(t)
    PROVE  TypeOK'
<1> DEFINE next(i) == WithBrowserRule(
                        [lists   |-> Append(policy.lists, i.lists),
                         windows |-> Append(policy.windows, i.windows),
                         minutes |-> Append(policy.minutes, i.minutes)])
<1>1. PICK i \in Imports :
        Commit(t, next(i), RepairedHosts(next(i), detox, inflight[t]))
  BY DEF ImportPolicy
<1>2. i \in Policies
  BY ChoicesAssumption
<1>3. /\ Append(policy.lists, i.lists) \in [Lists -> ListRecords \cup {None}]
      /\ Append(policy.windows, i.windows)
           \in [Schedules -> (SUBSET Slots) \cup {None}]
      /\ Append(policy.minutes, i.minutes) \in [Allowances -> Nat \cup {None}]
  BY <1>2 DEF Append, TypeOK, Policies
<1>4. next(i) \in Policies
  BY <1>3, ChoicesAssumption DEF WithBrowserRule, Policies, Lists
<1>5. RepairedHosts(next(i), detox, inflight[t]) \in SUBSET Entries
  BY <1>4, RepairedHostsType
<1> QED
  BY <1>1, <1>4, <1>5, CommitType

LEMMA DetoxType ==
    ASSUME TypeOK, NEW t \in Threads, StartDetox(t)
    PROVE  TypeOK'
<1>1. PICK targets \in SUBSET Lists, d \in DetoxLengths :
        LET session == [start |-> inflight[t], end |-> inflight[t] + d,
                        targets |-> targets]
        IN  /\ inflight[t] # Idle
            /\ detox' = detox \cup {session}
            /\ hosts' = RepairedHosts(policy, detox \cup {session}, inflight[t])
            /\ inflight' = [inflight EXCEPT ![t] = Idle]
            /\ UNCHANGED <<clock, policy, keyUntil, access, tampered, handoff>>
  BY DEF StartDetox
<1>2. inflight[t] \in 0 .. clock /\ clock \in Nat /\ d \in Nat
  BY <1>1, BoundsAssumption DEF TypeOK
<1>3. [start |-> inflight[t], end |-> inflight[t] + d, targets |-> targets]
        \in Sessions
  BY <1>2 DEF Sessions
<1>4. hosts' \subseteq Entries
  BY <1>1, RepairedHostsType DEF TypeOK
<1>5. \A s \in detox' : s.start <= clock
  BY <1>1, <1>2 DEF TypeOK
<1> QED
  BY <1>1, <1>3, <1>4, <1>5 DEF TypeOK

\* Every step keeps the types.
LEMMA NextType ==
    ASSUME TypeOK, [Next]_vars
    PROVE  TypeOK'
<1>1. ASSUME NEW t \in Threads, Request(t)
      PROVE  TypeOK'
  <2>1. CASE Begin(t)
    BY <2>1, BoundsAssumption DEF TypeOK, Begin, Idle
  <2>2. CASE Reject(t)
    BY <2>2 DEF TypeOK, Reject
  <2>3. CASE UnlockTier1Edit(t)
    <3>1. inflight[t] + KeyLength \in 0 .. MaxClock + KeyLength
      BY <2>3, BoundsAssumption DEF TypeOK, UnlockTier1Edit, Idle
    <3> QED
      BY <2>3, <3>1 DEF TypeOK, UnlockTier1Edit
  <2> QED
    BY <1>1, <2>1, <2>2, <2>3, SiteListType, AppRuleType, AllowanceType,
       ScheduleType, ImportType, DetoxType DEF Request
<1>2. CASE SetProtectedAccessMode
  BY <1>2 DEF TypeOK, SetProtectedAccessMode
<1>3. CASE RepairHosts
  <2>1. hosts' \subseteq Entries
    BY <1>3, HostsForType DEF RepairHosts, TypeOK
  <2> QED
    BY <1>3, <2>1 DEF TypeOK, RepairHosts
<1>4. CASE ToggleHandoff
  BY <1>4 DEF TypeOK, ToggleHandoff
<1>5. CASE ClockTampered
  BY <1>5 DEF TypeOK, ClockTampered
<1>6. CASE Tick
  <2>1. clock' \in 0 .. MaxClock /\ clock' = clock + 1 /\ clock \in Nat
    BY <1>6, BoundsAssumption DEF Tick, TypeOK
  <2>2. \A s \in detox : s.start \in Nat /\ s.start <= clock'
    BY <2>1 DEF TypeOK, Sessions
  <2>3. \A t \in Threads : inflight[t] \in {Idle} \cup (0 .. clock')
    BY <2>1 DEF TypeOK
  <2> QED
    BY <1>6, <2>1, <2>2, <2>3 DEF TypeOK, Tick
<1>7. CASE UNCHANGED vars
  BY <1>7 DEF TypeOK, vars
<1> QED
  BY <1>1, <1>2, <1>3, <1>4, <1>5, <1>6, <1>7 DEF Next

\* The initial states have the types.
LEMMA InitType ==
    ASSUME Init
    PROVE  TypeOK
<1>1. policy \in Policies /\ hosts \subseteq Entries
  BY HostsForType, ChoicesAssumption DEF Init
<1>2. clock \in 0 .. MaxClock /\ keyUntil \in 0 .. MaxClock + KeyLength
  BY BoundsAssumption DEF Init
<1>3. inflight \in [Threads -> {Idle} \cup (0 .. clock)]
  BY DEF Init
<1>4. /\ detox \subseteq Sessions
      /\ \A s \in detox : s.start <= clock
      /\ access \in AccessModes
      /\ tampered \in BOOLEAN /\ handoff \in BOOLEAN
  BY DEF Init
<1> QED
  BY <1>1, <1>2, <1>3, <1>4 DEF TypeOK

\* Every variable keeps its type, no request holds a time still to come and
\* no Detox starts later than now, in every behaviour.
THEOREM TypeCorrect == Spec => []TypeOK
<1>1. Init => TypeOK
  BY InitType
<1>2. TypeOK /\ [Next]_vars => TypeOK'
  BY NextType
<1> QED
  BY <1>1, <1>2, PTL DEF Spec

-----------------------------------------------------------------------------
(* What a request may only tighten: a list in a Detox, with the edit key or  *)
(* without, and a list that is active when the key is not there.  The        *)
(* strengthening needed is that the policy is valid: an allowance a list     *)
(* names exists, so that staging it anew is an edit of an allowance in use   *)
(* and not the creation of a missing one, and a schedule a list names        *)
(* exists, so that importing or deleting one stops no list.                  *)

Guarded == TypeOK /\ Valid(policy)

\* A body that decides at n may only tighten list k.
Kept(k, n) == InDetox(k, n) \/ (ListActive(policy, k, n) /\ ~KeyOpen(n))

\* In policy q, list k is as strict and, if it was active at n, still is.
Holds(q, k, n) ==
    /\ AsStrict(policy, q, k)
    /\ ListActive(policy, k, n) => ListActive(q, k, n)

\* A list that stays what it was, and whose allowance does, is as strict.
LEMMA UnchangedAsStrict ==
    ASSUME NEW p, NEW q, NEW l, Present(p, l), q.lists[l] = p.lists[l],
           p.lists[l].allowance # None =>
             q.minutes[p.lists[l].allowance] = p.minutes[p.lists[l].allowance]
    PROVE  AsStrict(p, q, l)
  BY DEF AsStrict, Present

\* If the windows of its schedules stay too, it is as active.
LEMMA UnchangedHolds ==
    ASSUME NEW q, NEW k, NEW n, Present(policy, k),
           q.lists[k] = policy.lists[k],
           policy.lists[k].allowance # None =>
             q.minutes[policy.lists[k].allowance]
               = policy.minutes[policy.lists[k].allowance],
           \A s \in policy.lists[k].schedules : q.windows[s] = policy.windows[s]
    PROVE  Holds(q, k, n)
<1>1. AsStrict(policy, q, k)
  BY UnchangedAsStrict
<1>2. ListActive(policy, k, n) => ListActive(q, k, n)
  BY DEF ListActive, SchedulesActive
<1> QED
  BY <1>1, <1>2 DEF Holds

\* A list to be kept has an allowance that exists, is active, and is in Detox
\* if the list is, if it has one.
LEMMA KeptAllowance ==
    ASSUME Guarded, NEW k \in Lists, Present(policy, k), NEW n,
           policy.lists[k].allowance # None
    PROVE  LET a == policy.lists[k].allowance IN
           /\ a \in Allowances
           /\ policy.minutes[a] # None
           /\ k \in Users(policy, a)
           /\ InDetox(k, n) => AllowanceInDetox(a, n)
           /\ Kept(k, n) => AllowanceActive(a, n)
<1> DEFINE a == policy.lists[k].allowance
<1>1. a \in Allowances
  BY DEF Guarded, TypeOK, Policies, ListRecords, Present
<1>2. policy.minutes[a] # None
  BY DEF Guarded, Valid
<1>3. k \in Users(policy, a)
  BY DEF Users
<1>4. InDetox(k, n) => AllowanceInDetox(a, n)
  BY <1>3 DEF AllowanceInDetox
<1>5. Kept(k, n) => AllowanceActive(a, n)
  BY <1>3, <1>4 DEF AllowanceActive, Kept
<1> QED
  BY <1>1, <1>2, <1>3, <1>4, <1>5

\* The allowance of a list to be kept can be staged only as it is.
LEMMA KeptStaging ==
    ASSUME Guarded, NEW k \in Lists, Present(policy, k), NEW n, Kept(k, n),
           policy.lists[k].allowance # None, NEW m,
           StageableAllowance(policy.lists[k].allowance, m, n)
    PROVE  policy.minutes[policy.lists[k].allowance] = m
<1>1. CASE InDetox(k, n)
  BY <1>1, KeptAllowance DEF StageableAllowance
<1>2. CASE ~KeyOpen(n)
  BY <1>2, KeptAllowance DEF StageableAllowance
<1> QED
  BY <1>1, <1>2 DEF Kept

\* Saving any list, with any allowance, keeps the lists to be kept.
LEMMA SavedKeeps ==
    ASSUME Guarded, NEW l \in Lists, NEW r \in ListChoices,
           NEW m \in MinuteChoices \cup {None}, NEW n,
           SaveAllowed(l, r, m, n),
           NEW k \in Lists, Present(policy, k), Kept(k, n)
    PROVE  Holds(SavedList(l, r, m), k, n)
<1> DEFINE staged == IF m = None THEN policy
                     ELSE [policy EXCEPT !.minutes[r.allowance] = m]
           saved  == [staged EXCEPT !.lists[l] = r]
           old    == IF Present(policy, l) THEN policy.lists[l].allowance
                     ELSE None
           next   == SavedList(l, r, m)
           a      == policy.lists[k].allowance
<1>1. /\ policy \in Policies
      /\ r \in ListRecords
      /\ m # None => r.allowance \in Allowances
  BY ChoicesAssumption DEF Guarded, TypeOK, SaveAllowed, ListRecords
<1>2. /\ staged \in Policies
      /\ staged.lists = policy.lists
      /\ staged.minutes = IF m = None THEN policy.minutes
                          ELSE [policy.minutes EXCEPT ![r.allowance] = m]
  BY <1>1, ChoicesAssumption DEF Policies
<1>3. /\ saved.lists = [policy.lists EXCEPT ![l] = r]
      /\ saved.minutes = staged.minutes
      /\ saved \in Policies
  BY <1>1, <1>2 DEF Policies
<1>4. /\ next.lists = saved.lists
      /\ \/ next.minutes = saved.minutes
         \/ /\ old # r.allowance /\ old # None /\ Users(saved, old) = {}
            /\ next.minutes = [saved.minutes EXCEPT ![old] = None]
  <2> HIDE DEF staged
  <2>1. next = IF old # r.allowance THEN RemoveUnreferenced(saved, old)
                                     ELSE saved
    BY DEF SavedList, staged
  <2> HIDE DEF saved, old, next
  <2> QED
    BY <1>3, <2>1 DEF RemoveUnreferenced, Policies
<1>5. next.lists[k] = IF k = l THEN r ELSE policy.lists[k]
  BY <1>1, <1>3, <1>4 DEF Policies
<1>6. k = l => r = policy.lists[k] \/ Additive(policy.lists[k], r)
  BY DEF SaveAllowed, EditableList, Present, Kept
<1>7. k = l => r.allowance = a
  <2>1. policy.lists[k] \in ListRecords
    BY <1>1 DEF Policies, Present
  <2> QED
    BY <1>6, <2>1 DEF Additive, ListRecords
<1>8. a # None => next.minutes[a] = policy.minutes[a]
  <2> SUFFICES ASSUME a # None PROVE next.minutes[a] = policy.minutes[a]
    OBVIOUS
  <2>1. a \in Allowances /\ policy.minutes[a] # None
    BY KeptAllowance
  <2>2. staged.minutes[a] = policy.minutes[a]
    <3>1. m # None /\ r.allowance = a => policy.minutes[a] = m
      BY KeptStaging DEF SaveAllowed
    <3> HIDE DEF a, staged
    <3> QED
      BY <1>1, <1>2, <2>1, <3>1 DEF Policies
  <2>3. old = a /\ old # r.allowance => Users(saved, old) # {}
    <3>1. old = a /\ old # r.allowance => k # l
      BY <1>7
    <3>2. k # l => saved.lists[k] = policy.lists[k]
      BY <1>1, <1>3 DEF Policies
    <3>3. k # l => k \in Users(saved, a)
      BY <3>2 DEF Users, Present
    <3> QED
      BY <3>1, <3>3
  <2> HIDE DEF a, old, next, saved, staged
  <2> QED
    BY <1>3, <1>4, <2>1, <2>2, <2>3 DEF Policies
<1>9. next.windows = policy.windows
  <2>1. staged.windows = policy.windows
    BY <1>1 DEF Policies
  <2> HIDE DEF staged
  <2>2. saved.windows = policy.windows
    BY <1>2, <2>1 DEF Policies
  <2>3. next = IF old # r.allowance THEN RemoveUnreferenced(saved, old)
                                     ELSE saved
    BY DEF SavedList, staged
  <2> HIDE DEF saved, old, next
  <2> QED
    BY <1>3, <2>2, <2>3 DEF RemoveUnreferenced, Policies
<1>10. CASE next.lists[k] = policy.lists[k]
  BY <1>8, <1>9, <1>10, UnchangedHolds
<1>11. CASE k = l /\ Additive(policy.lists[k], r)
  <2>1. policy.lists[k] \in ListRecords /\ next.lists[k] = r
    BY <1>1, <1>5, <1>11 DEF Policies, Present
  <2>2. r # None
    BY <1>1, NoneAssumption
  <2>3. /\ r.tier = policy.lists[k].tier
        /\ r.enabled = policy.lists[k].enabled
        /\ r.mode = policy.lists[k].mode
        /\ r.schedules = policy.lists[k].schedules
        /\ r.allowance = a
        /\ IF policy.lists[k].mode = "block"
           THEN policy.lists[k].entries \subseteq r.entries
           ELSE r.entries \subseteq policy.lists[k].entries
    BY <1>11, <2>1 DEF Additive, ListRecords
  <2> HIDE DEF next
  <2>4. AsStrict(policy, next, k)
    BY <1>8, <2>1, <2>2, <2>3 DEF AsStrict, Present
  <2>5. ListActive(policy, k, n) => ListActive(next, k, n)
    BY <1>9, <2>1, <2>3 DEF ListActive, SchedulesActive
  <2>6. Holds(next, k, n)
    BY <2>4, <2>5 DEF Holds
  <2> QED
    BY <2>6 DEF next
<1> QED
  BY <1>5, <1>6, <1>10, <1>11

\* Deleting a list, and its allowance, keeps the lists to be kept.
LEMMA DeletedKeeps ==
    ASSUME Guarded, NEW l \in Lists, NEW n, DeleteAllowed(l, n),
           NEW k \in Lists, Present(policy, k), Kept(k, n)
    PROVE  Holds(DeletedList(l), k, n)
<1> DEFINE gone == [policy EXCEPT !.lists[l] = None]
           old  == policy.lists[l].allowance
           next == DeletedList(l)
           a    == policy.lists[k].allowance
<1>1. policy \in Policies /\ k # l
  BY DEF Guarded, TypeOK, DeleteAllowed, Kept
<1>2. /\ gone.lists = [policy.lists EXCEPT ![l] = None]
      /\ gone.minutes = policy.minutes
      /\ gone.windows = policy.windows
      /\ gone \in Policies
  BY <1>1 DEF Policies
<1>3. gone.lists[k] = policy.lists[k]
  BY <1>1, <1>2 DEF Policies
<1>4. a # None => k \in Users(gone, a)
  BY <1>3 DEF Users, Present
<1> HIDE DEF gone
<1>5. /\ next.lists = gone.lists
      /\ next.windows = gone.windows
      /\ \/ next.minutes = gone.minutes
         \/ /\ old # None /\ Users(gone, old) = {}
            /\ next.minutes = [gone.minutes EXCEPT ![old] = None]
  BY <1>2 DEF DeletedList, RemoveUnreferenced, Policies, gone
<1>6. a # None => next.minutes[a] = policy.minutes[a]
  <2>1. a # None => a \in Allowances
    BY KeptAllowance
  <2> HIDE DEF next, a, old
  <2> QED
    BY <1>1, <1>2, <1>4, <1>5, <2>1 DEF Policies
<1>7. next.lists[k] = policy.lists[k] /\ next.windows = policy.windows
  BY <1>2, <1>3, <1>5
<1> QED
  BY <1>6, <1>7, UnchangedHolds

\* Saving or deleting an allowance keeps the lists to be kept.
LEMMA AllowanceKeeps ==
    ASSUME Guarded, NEW a \in Allowances, NEW m \in MinuteChoices \cup {None},
           NEW n,
           \/ StageableAllowance(a, m, n)
           \/ Users(policy, a) = {},
           NEW k \in Lists, Present(policy, k), Kept(k, n)
    PROVE  Holds([policy EXCEPT !.minutes[a] = m], k, n)
<1> DEFINE next == [policy EXCEPT !.minutes[a] = m]
           b    == policy.lists[k].allowance
<1>1. /\ next.lists = policy.lists /\ next.windows = policy.windows
      /\ next.minutes = [policy.minutes EXCEPT ![a] = m]
      /\ policy.minutes \in [Allowances -> Nat \cup {None}]
  BY DEF Guarded, TypeOK, Policies
<1>2. b = a /\ b # None => policy.minutes[a] = m
  BY KeptAllowance, KeptStaging
<1>3. b # None => b \in Allowances
  BY KeptAllowance
<1>4. b # None => next.minutes[b] = policy.minutes[b]
  <2> HIDE DEF next, b
  <2> QED
    BY <1>1, <1>2, <1>3
<1> QED
  BY <1>1, <1>4, UnchangedHolds

\* A policy that differs in windows and in attachments is as strict.
LEMMA ReattachedAsStrict ==
    ASSUME NEW p, NEW q, NEW l, Present(p, l), p.lists[l] \in ListRecords,
           NEW ids, q.lists[l] = [p.lists[l] EXCEPT !.schedules = ids],
           q.lists[l] # None, q.minutes = p.minutes
    PROVE  AsStrict(p, q, l)
  BY DEF AsStrict, Present, ListRecords

\* Only the task whose body runs finishes its request.
LEMMA OneFinishes ==
    ASSUME TypeOK, NEW u \in Threads, inflight' = [inflight EXCEPT ![u] = Idle],
           NEW t \in Threads, Finishes(t)
    PROVE  t = u
  BY DEF TypeOK, Finishes

\* A body that leaves the policy alone, and ends no Detox, weakens nothing.
LEMMA SamePolicyKeeps ==
    ASSUME policy' = policy, detox \subseteq detox'
    PROVE  DetoxTightenStep /\ EnforcementStep
<1>1. \A l : Present(policy, l) => AsStrict(policy, policy', l)
  BY UnchangedAsStrict
<1>2. \A l : Enforced(policy, detox, l, clock)
               => Present(policy, l) /\ Enforced(policy', detox', l, clock)
  BY DEF Enforced
<1> QED
  BY <1>1, <1>2 DEF DetoxTightenStep, EnforcementStep

\* A commit that keeps what is to be kept at the body's own time weakens no
\* list of a Detox that had begun then and is active now, ...
LEMMA CommitTightens ==
    ASSUME TypeOK, NEW u \in Threads, NEW next, NEW h, Commit(u, next, h),
           \A k \in ClientLists :
             Present(policy, k) /\ Kept(k, inflight[u])
               => Holds(next, k, inflight[u])
    PROVE  DetoxTightenStep
<1> SUFFICES ASSUME NEW t \in Threads, Finishes(t), NEW s \in detox,
                    s.start <= inflight[t], clock < s.end,
                    NEW l \in s.targets \cap ClientLists, Present(policy, l)
             PROVE  AsStrict(policy, policy', l)
  BY DEF DetoxTightenStep
<1>1. t = u /\ inflight[u] # Idle
  BY OneFinishes DEF Commit, Finishes
<1>2. inflight[u] < s.end
  <2>1. inflight[u] \in 0 .. clock /\ clock \in Nat /\ s.end \in Nat
    BY <1>1, BoundsAssumption DEF TypeOK, Sessions
  <2> QED
    BY <2>1
<1>3. Kept(l, inflight[u])
  BY <1>1, <1>2 DEF InDetox, ActiveDetox, Kept
<1> QED
  BY <1>3 DEF Commit, Holds

\* ... and, if that time is now and the key is not there, no list that is
\* enforced.
LEMMA CommitEnforces ==
    ASSUME TypeOK, NEW u \in Threads, NEW next, NEW h, Commit(u, next, h),
           \A k \in ClientLists :
             Present(policy, k) /\ Kept(k, inflight[u])
               => Holds(next, k, inflight[u])
    PROVE  EnforcementStep
<1> SUFFICES ASSUME NEW t \in Threads, Finishes(t), inflight[t] = clock,
                    ~KeyOpen(clock), NEW l \in ClientLists,
                    Enforced(policy, detox, l, clock)
             PROVE  /\ AsStrict(policy, policy', l)
                    /\ Enforced(policy', detox', l, clock)
  BY DEF EnforcementStep
<1>1. t = u /\ inflight[u] = clock
  BY OneFinishes DEF Commit
<1>2. policy' = next /\ detox' = detox
  BY DEF Commit
<1>3. Present(policy, l) /\ Kept(l, clock)
  BY DEF Enforced, Kept, ListActive, InDetox, ActiveDetox
<1>4. Holds(policy', l, clock)
  BY <1>1, <1>2, <1>3
<1>5. AsStrict(policy, policy', l)
  BY <1>4 DEF Holds
<1>6. Present(policy', l) /\ policy'.lists[l].enabled
  BY <1>5 DEF AsStrict, Enforced
<1>7. ListActive(policy, l, clock) \/ InDetox(l, clock)
  BY <1>3 DEF Kept
<1>8. CASE ListActive(policy, l, clock)
  <2>1. ListActive(policy', l, clock)
    BY <1>4, <1>6, <1>8 DEF Holds, ListActive
  <2>2. Enforced(policy', detox', l, clock)
    BY <1>6, <2>1 DEF Enforced, ListActive
  <2> QED
    BY <1>5, <2>2
<1>9. CASE InDetox(l, clock)
  <2>1. \E s \in detox' : l \in s.targets /\ s.start <= clock /\ clock < s.end
    BY <1>2, <1>9 DEF InDetox, ActiveDetox
  <2>2. Enforced(policy', detox', l, clock)
    BY <1>6, <2>1 DEF Enforced
  <2> QED
    BY <1>5, <2>2
<1> QED
  BY <1>5, <1>7, <1>8, <1>9

\* What each edit keeps.
LEMMA EditKeeps ==
    ASSUME Guarded, NEW t \in Threads,
           \/ UpsertSiteList(t) \/ DeleteSiteList(t)
           \/ UpsertAppRule(t) \/ DeleteAppRule(t)
           \/ UpsertAllowance(t) \/ DeleteAllowance(t)
    PROVE  DetoxTightenStep /\ EnforcementStep
<1>0. TypeOK /\ ClientLists \subseteq Lists
  BY DEF Guarded, ClientLists
<1>1. CASE UpsertSiteList(t) \/ UpsertAppRule(t)
  <2>1. PICK l \in Lists, r \in ListChoices, m \in MinuteChoices \cup {None} :
          /\ SaveAllowed(l, r, m, inflight[t])
          /\ \E h : Commit(t, SavedList(l, r, m), h)
    BY <1>1 DEF UpsertSiteList, UpsertAppRule, Lists
  <2> QED
    BY <1>0, <2>1, SavedKeeps, CommitTightens, CommitEnforces
<1>2. CASE DeleteSiteList(t) \/ DeleteAppRule(t)
  <2>1. PICK l \in Lists :
          /\ DeleteAllowed(l, inflight[t])
          /\ \E h : Commit(t, DeletedList(l), h)
    BY <1>2 DEF DeleteSiteList, DeleteAppRule, Lists
  <2> QED
    BY <1>0, <2>1, DeletedKeeps, CommitTightens, CommitEnforces
<1>3. CASE UpsertAllowance(t) \/ DeleteAllowance(t)
  <2>1. PICK a \in Allowances, m \in MinuteChoices \cup {None} :
          /\ StageableAllowance(a, m, inflight[t]) \/ Users(policy, a) = {}
          /\ Commit(t, [policy EXCEPT !.minutes[a] = m], hosts)
    BY <1>3 DEF UpsertAllowance, DeleteAllowance
  <2> QED
    BY <1>0, <2>1, AllowanceKeeps, CommitTightens, CommitEnforces
<1> QED
  BY <1>1, <1>2, <1>3

\* Saving a schedule takes no time from it while it is active, and detaches it
\* from no list to be kept.
LEMMA ScheduleSavedKeeps ==
    ASSUME Guarded, NEW s \in Schedules, NEW w \in WindowChoices, NEW n,
           ScheduleActive(policy, s, n) => policy.windows[s] \subseteq w,
           NEW changed, Retargetable(changed, n),
           NEW k \in Lists, Present(policy, k), Kept(k, n)
    PROVE  Holds([policy EXCEPT !.windows[s] = w, !.lists = Retarget(s, changed)],
                 k, n)
<1> DEFINE next == [policy EXCEPT !.windows[s] = w, !.lists = Retarget(s, changed)]
<1>1. /\ next.lists = Retarget(s, changed)
      /\ next.minutes = policy.minutes
      /\ next.windows = [policy.windows EXCEPT ![s] = w]
      /\ policy.windows \in [Schedules -> (SUBSET Slots) \cup {None}]
  BY DEF Guarded, TypeOK, Policies
<1>2. k \notin changed
  BY DEF Retargetable, Kept
<1>3. next.lists[k] = policy.lists[k]
  BY <1>1, <1>2 DEF Retarget
<1> HIDE DEF next
<1>4. AsStrict(policy, next, k)
  BY <1>1, <1>3, UnchangedAsStrict
<1>5. ASSUME ListActive(policy, k, n)
      PROVE  ListActive(next, k, n)
  <2>1. CASE policy.lists[k].tier = "hard"
    BY <1>3, <1>5, <2>1 DEF ListActive
  <2>2. CASE SchedulesActive(policy, policy.lists[k].schedules, n)
    <3>1. PICK x \in policy.lists[k].schedules :
            policy.windows[x] = None \/ SlotOf(n) \in policy.windows[x]
      BY <2>2 DEF SchedulesActive
    <3>2. policy.windows[x] # None
      BY DEF Guarded, Valid
    <3>3. x \in Schedules
      BY DEF Guarded, TypeOK, Policies, ListRecords, Present
    <3>4. SlotOf(n) \in next.windows[x]
      BY <1>1, <3>1, <3>2, <3>3 DEF ScheduleActive
    <3> QED
      BY <1>3, <1>5, <3>4 DEF ListActive, SchedulesActive
  <2> QED
    BY <1>5, <2>1, <2>2 DEF ListActive
<1>6. Holds(next, k, n)
  BY <1>4, <1>5 DEF Holds
<1> QED
  BY <1>6 DEF next

\* Deleting a schedule that is not active keeps every list as active.
LEMMA ScheduleDeletedKeeps ==
    ASSUME Guarded, NEW s \in Schedules, NEW n, ~ScheduleActive(policy, s, n),
           NEW k \in Lists, Present(policy, k)
    PROVE  Holds([policy EXCEPT !.windows[s] = None, !.lists = Detached(s)], k, n)
<1> DEFINE next == [policy EXCEPT !.windows[s] = None, !.lists = Detached(s)]
           old == policy.lists[k].schedules
<1>1. /\ next.lists = Detached(s)
      /\ next.minutes = policy.minutes
      /\ next.windows = [policy.windows EXCEPT ![s] = None]
      /\ policy.windows \in [Schedules -> (SUBSET Slots) \cup {None}]
  BY DEF Guarded, TypeOK, Policies
<1>2. policy.lists[k] \in ListRecords
  BY DEF Guarded, TypeOK, Policies, Present
<1>3. next.lists[k] = [policy.lists[k] EXCEPT !.schedules = old \ {s}]
  BY <1>1 DEF Detached
<1>4. next.lists[k] # None
  BY <1>2, <1>3, NoneAssumption DEF ListRecords
<1> HIDE DEF next
<1>5. AsStrict(policy, next, k)
  BY <1>1, <1>2, <1>3, <1>4, ReattachedAsStrict
<1>6. ASSUME ListActive(policy, k, n)
      PROVE  ListActive(next, k, n)
  <2>1. /\ next.lists[k].tier = policy.lists[k].tier
        /\ next.lists[k].enabled = policy.lists[k].enabled
        /\ next.lists[k].schedules = old \ {s}
    BY <1>2, <1>3 DEF ListRecords
  <2>2. CASE policy.lists[k].tier = "hard"
    BY <1>6, <2>1, <2>2 DEF ListActive
  <2>3. CASE SchedulesActive(policy, old, n)
    <3>1. PICK x \in old : policy.windows[x] = None \/ SlotOf(n) \in policy.windows[x]
      BY <2>3 DEF SchedulesActive
    <3>2. policy.windows[x] # None
      BY DEF Guarded, Valid
    <3>3. x # s
      BY <3>1, <3>2 DEF ScheduleActive
    <3>4. next.windows[x] = policy.windows[x]
      BY <1>1, <1>2, <3>3 DEF ListRecords
    <3> QED
      BY <1>6, <2>1, <3>1, <3>3, <3>4 DEF ListActive, SchedulesActive
  <2> QED
    BY <1>6, <2>2, <2>3 DEF ListActive
<1>7. Holds(next, k, n)
  BY <1>5, <1>6 DEF Holds
<1> QED
  BY <1>7 DEF next

LEMMA ScheduleKeeps ==
    ASSUME Guarded, NEW t \in Threads, UpsertSchedule(t) \/ DeleteSchedule(t)
    PROVE  DetoxTightenStep /\ EnforcementStep
<1>0. TypeOK /\ ClientLists \subseteq Lists
  BY DEF Guarded, ClientLists
<1>1. CASE UpsertSchedule(t)
  <2>1. PICK s \in Schedules, w \in WindowChoices,
             sites \in (SUBSET SiteLists) \cup {None},
             apps \in (SUBSET AppLists) \cup {None} :
          LET changed == Retargeted(s, SiteLists, sites)
                           \cup Retargeted(s, AppLists, apps)
          IN  /\ ScheduleActive(policy, s, inflight[t])
                   => policy.windows[s] \subseteq w
              /\ Retargetable(changed, inflight[t])
              /\ Commit(t, [policy EXCEPT !.windows[s] = w,
                                         !.lists = Retarget(s, changed)],
                        hosts)
    BY <1>1 DEF UpsertSchedule
  <2> QED
    BY <1>0, <2>1, ScheduleSavedKeeps, CommitTightens, CommitEnforces
<1>2. CASE DeleteSchedule(t)
  <2>1. PICK s \in Schedules :
          /\ ~ScheduleActive(policy, s, inflight[t])
          /\ Commit(t, [policy EXCEPT !.windows[s] = None,
                                     !.lists = Detached(s)], hosts)
    BY <1>2 DEF DeleteSchedule
  <2> QED
    BY <1>0, <2>1, ScheduleDeletedKeeps, CommitTightens, CommitEnforces
<1> QED
  BY <1>1, <1>2

LEMMA ImportKeeps ==
    ASSUME Guarded, NEW t \in Threads, ImportPolicy(t)
    PROVE  DetoxTightenStep /\ EnforcementStep
<1> DEFINE joined(i) == [lists   |-> Append(policy.lists, i.lists),
                         windows |-> Append(policy.windows, i.windows),
                         minutes |-> Append(policy.minutes, i.minutes)]
           next(i) == WithBrowserRule(joined(i))
<1>0. TypeOK /\ policy \in Policies /\ ClientLists \subseteq Lists
  BY DEF Guarded, ClientLists, TypeOK
<1>1. PICK i \in Imports :
        /\ Appendable(policy.lists, i.lists)
        /\ Appendable(policy.minutes, i.minutes)
        /\ Commit(t, next(i), RepairedHosts(next(i), detox, inflight[t]))
  BY DEF ImportPolicy
<1>2. ASSUME NEW k \in ClientLists, Present(policy, k), NEW n
      PROVE  Holds(next(i), k, n)
  <2> DEFINE a == policy.lists[k].allowance
  <2>1. k \in Lists /\ k # BrowserRule
    BY DEF ClientLists
  <2>2. /\ next(i).lists[k] = joined(i).lists[k]
        /\ next(i).minutes = joined(i).minutes
        /\ next(i).windows = joined(i).windows
    <3>1. joined(i).lists \in [Lists -> {joined(i).lists[x] : x \in Lists}]
      BY <1>0 DEF Append, Policies
    <3> QED
      BY <2>1, <3>1 DEF WithBrowserRule
  <2>3. joined(i).lists[k] = policy.lists[k]
    BY <1>0, <1>2, <2>1 DEF Append, Policies, Present
  <2>4. a # None => joined(i).minutes[a] = policy.minutes[a]
    <3>1. a # None => a \in Allowances /\ policy.minutes[a] # None
      BY <1>2, <2>1, KeptAllowance
    <3> QED
      BY <1>0, <3>1 DEF Append, Policies
  <2>5. ASSUME NEW s \in policy.lists[k].schedules
        PROVE  joined(i).windows[s] = policy.windows[s]
    <3>1. s \in Schedules /\ policy.windows[s] # None
      BY <1>0, <1>2, <2>1 DEF Guarded, Valid, Policies, ListRecords, Present
    <3> QED
      BY <1>0, <3>1 DEF Append, Policies
  <2> HIDE DEF next, joined
  <2> QED
    BY <1>2, <2>2, <2>3, <2>4, <2>5, UnchangedHolds
<1> QED
  BY <1>0, <1>1, <1>2, CommitTightens, CommitEnforces

\* Every commit leaves a valid policy.
LEMMA NextGuarded ==
    ASSUME Guarded, [Next]_vars
    PROVE  Guarded'
<1>1. TypeOK'
  BY NextType DEF Guarded
<1>2. Valid(policy')
  <2>1. \A t, next, h : Commit(t, next, h) => Valid(policy')
    BY DEF Commit
  <2>2. ASSUME NEW t \in Threads, Request(t)
        PROVE  policy' = policy \/ Valid(policy')
    <3>1. CASE Begin(t) \/ Reject(t) \/ StartDetox(t) \/ UnlockTier1Edit(t)
      BY <3>1 DEF Begin, Reject, StartDetox, UnlockTier1Edit
    <3>2. CASE \/ UpsertSiteList(t) \/ DeleteSiteList(t)
               \/ UpsertAppRule(t) \/ DeleteAppRule(t)
      BY <2>1, <3>2 DEF UpsertSiteList, DeleteSiteList, UpsertAppRule,
         DeleteAppRule
    <3>3. CASE UpsertAllowance(t) \/ DeleteAllowance(t)
      BY <2>1, <3>3 DEF UpsertAllowance, DeleteAllowance
    <3>4. CASE UpsertSchedule(t)
      BY <2>1, <3>4 DEF UpsertSchedule
    <3>5. CASE DeleteSchedule(t)
      BY <2>1, <3>5 DEF DeleteSchedule
    <3>6. CASE ImportPolicy(t)
      BY <2>1, <3>6 DEF ImportPolicy
    <3> QED
      BY <2>2, <3>1, <3>2, <3>3, <3>4, <3>5, <3>6 DEF Request
  <2>3. CASE SetProtectedAccessMode \/ RepairHosts \/ ToggleHandoff
             \/ ClockTampered \/ Tick \/ UNCHANGED vars
    BY <2>3 DEF Guarded, SetProtectedAccessMode, RepairHosts, ToggleHandoff,
       ClockTampered, Tick, vars
  <2> QED
    BY <2>2, <2>3 DEF Next, Guarded
<1> QED
  BY <1>1, <1>2 DEF Guarded

\* No step weakens a list of a Detox that had begun when the step's request
\* sampled the time, nor, without the key, a list that is enforced.
LEMMA NextKeeps ==
    ASSUME Guarded, [Next]_vars
    PROVE  DetoxTightenStep /\ EnforcementStep
<1>1. ASSUME NEW t \in Threads, Request(t)
      PROVE  DetoxTightenStep /\ EnforcementStep
  <2>1. CASE Begin(t) \/ Reject(t) \/ StartDetox(t) \/ UnlockTier1Edit(t)
    BY <2>1, SamePolicyKeeps DEF Begin, Reject, StartDetox, UnlockTier1Edit
  <2> QED
    BY <1>1, <2>1, EditKeeps, ScheduleKeeps, ImportKeeps DEF Request
<1>2. CASE SetProtectedAccessMode \/ RepairHosts \/ ToggleHandoff
           \/ ClockTampered \/ Tick \/ UNCHANGED vars
  BY <1>2, SamePolicyKeeps DEF SetProtectedAccessMode, RepairHosts,
     ToggleHandoff, ClockTampered, Tick, vars
<1> QED
  BY <1>1, <1>2 DEF Next

\* The policy is valid and typed in every behaviour.
LEMMA AlwaysGuarded == Spec => []Guarded
<1>1. Init => Guarded
  <2>1. Init => TypeOK
    BY InitType
  <2> QED
    BY <2>1 DEF Init, Guarded
<1>2. Guarded /\ [Next]_vars => Guarded'
  BY NextGuarded
<1> QED
  BY <1>1, <1>2, PTL DEF Spec

\* "Detox-attached lists remain limited to tightening changes even with the
\* key": in every behaviour, a request that sampled its time after a Detox
\* began and finishes before it ends weakens none of its lists.
THEOREM DetoxIsRespected == Spec => DetoxOnlyTightens
<1>1. Guarded /\ [Next]_vars => [DetoxTightenStep]_vars
  BY NextKeeps
<1> QED
  BY <1>1, AlwaysGuarded, PTL DEF Spec, DetoxOnlyTightens

\* Without the edit key no request, by any route, weakens or stops a list the
\* policy, a schedule or a Detox enforces at that moment, in every behaviour.
THEOREM EnforcementIsKept == Spec => EnforcementKept
<1>1. Guarded /\ [Next]_vars => [EnforcementStep]_vars
  BY NextKeeps
<1> QED
  BY <1>1, AlwaysGuarded, PTL DEF Spec, EnforcementKept
=============================================================================
