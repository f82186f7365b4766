------------------------------- MODULE MCRules -------------------------------
(* What a policy decides and for how long, checked in one run with how it is  *)
(* upgraded and merged with the user's and with the clock that is trusted: a   *)
(* behaviour is one of                                                         *)
(*   "walks": DecisionCheck over rules with the fields their tier looks at;    *)
(*   "unlocks": Unlocks with two website lists that share a URL and two        *)
(*       application lists of one name, the second in allowlist mode;          *)
(*   "clock": ClockGuard with small corrections of the clock and jumps of more *)
(*       than a Detox, either way;                                             *)
(*   "upgrade": Migration of what older versions left;                         *)
(*   "merged": MergedPolicy with a policy key and two settings in objects      *)
(*       managed and a setting beside one of them that is not;                 *)
(* and the other parts stay as they began.                                     *)
EXTENDS DecisionCheck, Unlocks, MCClockGuard, Migration, MergedPolicy, TLC

CONSTANTS t1, t2, s1, s2, a1, a2, games, shared, own, steam, yes

VARIABLE part

Hard == [id : {0}, tier : {"hard"}, applies : BOOLEAN, active : {FALSE},
         detox : {0}, minutes : {None}, used : {0}, unlocked : {FALSE},
         specificity : {1}]

Scheduled == [id : {0}, tier : {"scheduled"}, applies : {TRUE}, active : BOOLEAN,
              detox : {0, 5, 6}, minutes : {None}, used : {0}, unlocked : {FALSE},
              specificity : {1}]

Controlled == [id : {0}, tier : {"controlled"}, applies : {TRUE}, active : BOOLEAN,
               detox : {0, 5}, minutes : {None, 1, 2}, used : {0, 2},
               unlocked : BOOLEAN, specificity : {1, 2}]

\* A rule that is not active is one record, and one in a Detox fits one way.
Rules ==
    Hard \cup Scheduled
    \cup {r \in Controlled :
              /\ r.minutes = None => r.used = 0
              /\ r.detox # 0 => ~r.active /\ r.specificity = 1
              /\ ~r.active /\ r.detox = 0 =>
                    r.minutes = 1 /\ r.used = 2 /\ ~r.unlocked /\ r.specificity = 2}

\* Application rules as they may see a URL.  One in blocklist mode has a matcher
\* for it; one in allowlist mode matches it for want of one.
AppRule(i, kind, on, end) ==
    [id |-> 10 + i, tier |-> kind, applies |-> TRUE, active |-> on, detox |-> end,
     minutes |-> None, used |-> 0, unlocked |-> FALSE, specificity |-> 0]

MCAppRuleLists ==
    LET second == {AppRule(2, "hard", FALSE, 0), AppRule(2, "scheduled", TRUE, 0),
                   AppRule(2, "scheduled", FALSE, 0), AppRule(2, "scheduled", FALSE, 5),
                   [AppRule(2, "hard", FALSE, 0) EXCEPT !.applies = FALSE]}
        running == AppRule(1, "controlled", FALSE, 5)
    IN  {<<>>, <<AppRule(1, "controlled", FALSE, 0), AppRule(2, "controlled", TRUE, 0)>>}
            \cup {<<running, r>> : r \in second}

MCNameOf == [l \in {a1, a2} |-> games]
MCFit == [x \in {shared, own, steam} |->
    [l \in {s1, s2} |->
        CASE l = s1 /\ x # steam -> 1
          [] l = s2 /\ x = shared -> 2
          [] OTHER -> None]]
MCOrder == <<s1, s2, a1, a2>>
MCMatching == [x \in {shared, own, steam} |-> IF x = steam THEN {a1, a2} ELSE {a2}]

Open == [tier |-> "controlled", due |-> TRUE, detox |-> FALSE, minutes |-> 1, used |-> 1]
Idled == [Open EXCEPT !.due = FALSE]
Strict == [Open EXCEPT !.tier = "scheduled"]
InSession == [Strict EXCEPT !.due = FALSE, !.detox = TRUE]
Records == {Open, Idled, Strict, InSession}

\* The second list of each kind is of Tier 3 too, or of Tier 2.
FirstLists == {[l \in {s1, s2, a1, a2} |->
    CASE l = s1 -> Open [] l = s2 -> r [] l = a1 -> Open [] OTHER -> q] :
        <<r, q>> \in {<<Open, Open>>, <<Strict, InSession>>}}

Symmetry == Permutations({t1, t2})

MCKeys == {"DisableDeveloperTools", "extension", "quarantine", "homepage"}
MCManaged == MCKeys \ {"homepage"}
MCParent == [k \in MCKeys |->
    CASE k = "DisableDeveloperTools" -> "policies"
      [] k = "extension" -> "ExtensionSettings"
      [] OTHER -> "Preferences"]

\* Nobody else installs BlocKuntu's extension; other values may be ours.
Shares == [k \in MCKeys |->
    CASE k = "homepage" -> {yes, Absent}
      [] k = "extension" -> {Absent}
      [] OTHER -> {yes, Ours, Absent}]

-------------------------------------------------------------------------------
partVars == <<rules, unlockVars, clockVars, migrationVars, mergedVars, part>>

NothingOlder ==
    /\ targets = [g \in Grants |-> "none"]
    /\ columns = [t \in DOMAIN columns |-> TRUE]
    /\ \A t \in Contents : expected[t] = {"newer"}
    /\ expected["sites"] = {CHOOSE site \in Site : OlderSite(site, TRUE, TRUE)}

MCInit ==
    /\ part \in {"walks", "unlocks", "clock", "upgrade", "merged"}
    /\ RulesInit
    /\ UnlocksInit /\ (part # "unlocks" => lists = CHOOSE first \in FirstLists : TRUE)
    /\ ClockInit
    /\ MigrationInit /\ (part # "upgrade" => NothingOlder)
    /\ MergedInit /\ (part # "merged" => document = Missing)

MCNext ==
    \/ /\ part = "walks" /\ RulesNext
       /\ UNCHANGED <<unlockVars, clockVars, migrationVars, mergedVars, part>>
    \/ /\ part = "unlocks" /\ UnlocksNext
       /\ UNCHANGED <<rules, clockVars, migrationVars, mergedVars, part>>
    \/ /\ part = "clock" /\ ClockNext
       /\ UNCHANGED <<rules, unlockVars, migrationVars, mergedVars, part>>
    \/ /\ part = "upgrade" /\ MigrationNext
       /\ UNCHANGED <<rules, unlockVars, clockVars, mergedVars, part>>
    \/ /\ part = "merged" /\ MergedNext
       /\ UNCHANGED <<rules, unlockVars, clockVars, migrationVars, part>>

MCSpec == MCInit /\ [][MCNext]_partVars
===============================================================================
