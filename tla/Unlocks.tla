------------------------------- MODULE Unlocks -------------------------------
(***************************************************************************)
(* Manual unlocks of Tier 3 lists (policy.rs request_unlock, db.rs unlocks  *)
(* and unlock_rule_targets): one an hour, each with a new reason, for two   *)
(* minutes, for one list or for all application lists of one name, revoked  *)
(* list by list when the policy is replaced without them.                   *)
(*                                                                          *)
(* A request samples the time before it takes the core lock (request_unlock_*)
(* method), so the body may run with an old `now'; edits of the policy and  *)
(* other requests may run in between.  What each list says of each target   *)
(* is module Decision.                                                      *)
(***************************************************************************)
EXTENDS Decision, FiniteSets

CONSTANTS
    SiteLists,      \* identifiers of website lists
    AppLists,       \* identifiers of application lists
    AppNames,       \* display names of application lists
    NameOf,         \* the name of each application list
    Urls,           \* URLs that are asked for
    Programs,       \* executables that are asked for, none the name of a list
    Matching,       \* Matching[x]: the application lists that apply to a target x,
                    \*   in allowlist mode those without a matcher for it
    Fit,            \* Fit[x][l]: how closely website list l fits x, None if it
                    \*   does not apply, 0 in allowlist mode
    ListOrder,      \* the lists in the order of the policy, AppLists too
    Reasons,        \* normalized reasons of enough letters
    Threads,        \* tasks that may have a request in flight
    UnlockLength,   \* TIER_3_UNLOCK_MINUTES
    Hour,           \* the window of GLOBAL_UNLOCKS_PER_HOUR
    ListChoices,    \* list records a policy may hold
    InitialLists,   \* the policies the daemon may start with
    MaxClock,       \* bound: last instant
    MaxEdits        \* bound: policy replacements

Lists == SiteLists \cup AppLists
Targets == Urls \cup Programs
Instants == 0 .. MaxClock

\* A list: minutes is its allowance (None without one), used what was used of
\* it today, due whether a schedule has it active now, detox whether a Detox.
ListRecords == [tier : {"hard", "scheduled", "controlled"}, due : BOOLEAN,
                detox : BOOLEAN, minutes : Nat \cup {None}, used : Nat]

NoList == [tier |-> "hard", due |-> FALSE, detox |-> FALSE, minutes |-> None, used |-> 0]

ASSUME UnlocksAssumption ==
    /\ ListOrder \in Seq(Lists)
    /\ \A l \in Lists : \E i \in DOMAIN ListOrder : ListOrder[i] = l
    /\ UnlockLength \in Nat \ {0} /\ Hour \in Nat /\ UnlockLength <= Hour
    /\ MaxClock \in Nat /\ MaxEdits \in Nat
    /\ ListChoices \subseteq ListRecords
    /\ InitialLists \subseteq [Lists -> ListChoices]
    /\ \A x \in Targets :
          /\ \A l \in SiteLists : Fit[x][l] \in Nat \cup {None}
          /\ Matching[x] \subseteq AppLists

VARIABLES
    wall,       \* wall time
    lists,      \* the lists of the policy
    unlocks,    \* rows of unlocks, with their unlock_rule_targets
    inflight,   \* the sampled `now' of each task's request
    edits

unlockVars == <<wall, lists, unlocks, inflight, edits>>

Idle == -1

-----------------------------------------------------------------------------
Present == {l \in Lists : lists[l] # None}

\* A schedule or a Detox has the list active.
InForce(list) == list.due \/ list.detox

\* Slip: the query does not ask for the list.
UnlocksOf_AnyList(l, n) == {u \in unlocks : u.rules \ u.revoked # {} /\ u.end > n}

\* active_unlock_for_rule: the expiry is compared, not the start.
UnlocksOf(l, n) == {u \in unlocks : l \in u.rules \ u.revoked /\ u.end > n}

Unlocked(l, n) == UnlocksOf(l, n) # {}

\* The lists as Decision sees them, by how closely each fits: one that is
\* absent, or has no fit, as a list that does not apply.
Views(fit, n) ==
    [i \in DOMAIN ListOrder |->
        LET l == ListOrder[i]
            there == lists[l] # None
            list == IF there THEN lists[l] ELSE NoList
        IN  [id |-> l, tier |-> list.tier, applies |-> there /\ fit[l] # None,
             active |-> list.due, detox |-> IF list.detox THEN 1 ELSE 0,
             minutes |-> list.minutes, used |-> list.used,
             unlocked |-> Unlocked(l, n), specificity |-> fit[l]]]

\* The website lists for a target, and the application lists for it.
SiteFit(x) == [l \in Lists |-> IF l \in SiteLists THEN Fit[x][l] ELSE None]
AppFit(x) == [l \in Lists |-> IF l \in Matching[x] THEN 0 ELSE None]

Blocked(url, n) == Evaluate(Views(SiteFit(url), n), FALSE) # Allow

\* The lists a target selects: a name all of its active Tier 3 lists, another
\* the list the resolver picks.  None selected is a rejection.
NamedLists(name) ==
    {l \in Present \cap AppLists :
        NameOf[l] = name /\ lists[l].tier = "controlled" /\ InForce(lists[l])}

TargetLists(x, n) == {UnlockRule(Views(SiteFit(x), n), Views(AppFit(x), n))} \cap Present

\* What a request may select.
Selections(n) ==
    {TargetLists(x, n) : x \in Targets} \cup {NamedLists(a) : a \in AppNames}

-----------------------------------------------------------------------------
UnlocksInit ==
    /\ wall = 0
    /\ lists \in InitialLists
    /\ unlocks = {}
    /\ inflight = [t \in Threads |-> Idle]
    /\ edits = 0

Tick ==
    /\ wall < MaxClock
    /\ wall' = wall + 1
    /\ UNCHANGED <<lists, unlocks, inflight, edits>>

Sample(t) ==
    /\ inflight[t] = Idle
    /\ inflight' = [inflight EXCEPT ![t] = wall]
    /\ UNCHANGED <<wall, lists, unlocks, edits>>

\* Slip: the hour is counted back from the current unlocks' expiry.
QuotaLeft_Active(n) == {u \in unlocks : u.end > n} = {}

QuotaLeft(n) == {u \in unlocks : u.start >= n - Hour} = {}

NewReason(r) == \A u \in unlocks : u.reason # r

Granted(selected, r, n) ==
    [rules |-> selected, revoked |-> {}, reason |-> r, start |-> n,
     end |-> n + UnlockLength, kept |-> selected]

\* kept: ghost, the selected lists that no policy has been without since.
RequestUnlock(t) ==
    LET n == inflight[t]
    IN  /\ n # Idle
        /\ inflight' = [inflight EXCEPT ![t] = Idle]
        /\ \E selected \in Selections(n), r \in Reasons :
              unlocks' =
                  IF /\ selected # {} /\ NewReason(r)
                     /\ \A l \in selected : ~Unlocked(l, n)
                     /\ QuotaLeft(n)
                  THEN unlocks \cup {Granted(selected, r, n)}
                  ELSE unlocks
        /\ UNCHANGED <<wall, lists, edits>>

\* The shares of the lists that are not present.
Revoke(u, present) ==
    [u EXCEPT !.revoked = @ \cup (u.rules \ present), !.kept = @ \cap present]

\* Any edit of the policy (PolicyGuard), and the passing of schedules and
\* allowances, as a new record for one list; a deletion revokes.
ReplacePolicy ==
    /\ edits < MaxEdits
    /\ edits' = edits + 1
    /\ \E l \in Lists, record \in ListChoices \cup {None} :
          LET present == IF record = None THEN Present \ {l} ELSE Present \cup {l}
          IN  /\ lists' = [lists EXCEPT ![l] = record]
              /\ unlocks' = {Revoke(u, present) : u \in unlocks}
    /\ UNCHANGED <<wall, inflight>>

UnlocksNext ==
    \/ Tick \/ ReplacePolicy
    \/ \E t \in Threads : Sample(t) \/ RequestUnlock(t)

UnlocksSpec == UnlocksInit /\ [][UnlocksNext]_unlockVars

-----------------------------------------------------------------------------
\* Every unlock is for some lists, and only their shares are revoked.
UnlocksTypeOK ==
    /\ wall \in Nat /\ edits \in Nat
    /\ lists \in [Lists -> ListRecords \cup {None}]
    /\ inflight \in [Threads -> Nat \cup {Idle}]
    /\ \A u \in unlocks :
          /\ u.rules \subseteq Lists /\ u.rules # {}
          /\ u.revoked \subseteq u.rules /\ u.kept \subseteq u.rules
          /\ u.start \in Nat /\ u.end = u.start + UnlockLength

\* FEATURES.md, "one unlock globally per rolling hour": any two are more than
\* an hour apart, whatever the order requests were timed and served in.
OneAnHour ==
    \A u, v \in unlocks :
        u # v => (u.start - v.start > Hour \/ v.start - u.start > Hour)

\* FEATURES.md, "does not revive its old unlocks": an unlock opens a list only
\* if the list has been in the policy ever since, and every list of a group
\* that has keeps its share.
UnlocksEndWithTheirList ==
    \A l \in Present : Unlocked(l, wall) <=>
        \E u \in unlocks : l \in u.kept /\ u.end > wall

\* The lists that block a URL.
Blockers(url) ==
    {l \in Present \cap SiteLists :
        /\ Fit[url][l] # None
        /\ lists[l].tier = "hard" \/ InForce(lists[l])
        /\ lists[l].tier = "controlled" =>
              /\ ~Unlocked(l, wall)
              /\ lists[l].minutes = None \/ lists[l].used >= lists[l].minutes}

StrictBlockers(url) == {l \in Blockers(url) : lists[l].tier # "controlled"}

\* FEATURES.md, "other active lists continue to apply": a grant opens no URL
\* a list of another tier or a list it does not name still blocks, and opens
\* at least the URLs that the lists it names were alone in blocking.
GrantsAlone ==
    \A u \in unlocks' \ unlocks :
        (u.start = wall /\ lists' = lists) =>
            \A url \in Urls :
                Blocked(url, wall)' <=>
                    StrictBlockers(url) # {} \/ ~(Blockers(url) \subseteq u.rules)

OpensItsListsAlone == [][GrantsAlone]_unlockVars

\* Types, and what has been granted: one unlock an hour, for the lists there were then.
UnlocksInvariant == UnlocksTypeOK /\ OneAnHour /\ UnlocksEndWithTheirList
=============================================================================
