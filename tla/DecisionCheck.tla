----------------------------- MODULE DecisionCheck -----------------------------
(***************************************************************************)
(* The engine's walks against what they are for: every list of up to        *)
(* MaxRules rules is built, and each walk's answer is compared with one     *)
(* read off the set of rules.                                               *)
(***************************************************************************)
EXTENDS Decision, SequencesExt

CONSTANTS
    RuleChoices,    \* records of Decision, without their identifier
    AppRuleLists,   \* lists of application rules, as they may see a URL
    MaxRules        \* bound: rules in a list

RuleRecords ==
    [id : Nat, tier : {"hard", "scheduled", "controlled"}, applies : BOOLEAN,
     active : BOOLEAN, detox : Nat, minutes : Nat \cup {None}, used : Nat,
     unlocked : BOOLEAN, specificity : Nat]

ASSUME RulesAssumption ==
    /\ RuleChoices \subseteq RuleRecords /\ MaxRules \in Nat
    /\ AppRuleLists \subseteq Seq(RuleRecords)

VARIABLE rules

RulesInit == rules = <<>>

AddRule ==
    /\ Len(rules) < MaxRules
    /\ \E r \in RuleChoices :
          rules' = Append(rules, [r EXCEPT !.id = Len(rules) + 1])

RulesNext == AddRule

RulesSpec == RulesInit /\ [][RulesNext]_rules

-----------------------------------------------------------------------------
Tampers == {FALSE, TRUE}
AllRules == ToSet(rules)

\* What each tier blocks, rule by rule.
RuleBlocks(r, tampered) ==
    /\ r.applies
    /\ CASE r.tier = "hard" -> TRUE
         [] r.tier = "scheduled" -> r.active \/ r.detox # 0
         [] r.tier = "controlled" ->
                /\ r.active \/ r.detox # 0
                /\ tampered \/ ~(r.unlocked \/ (r.minutes # None /\ r.used < r.minutes))

\* A target is blocked exactly when one of the rules blocks it, and by one
\* that does: no walk ends early on a rule that does not, and no allowance or
\* unlock of one list opens another (evaluate_url, evaluate_app).
BlockedByARule ==
    \A t \in Tampers : \A d \in {Evaluate(rules, t), EvaluateApp(rules, t)} :
        IF d = Allow THEN \A r \in AllRules : ~RuleBlocks(r, t)
        ELSE \E r \in AllRules : r.id = d.rule /\ RuleBlocks(r, t)

\* The reason given names the strictest of the Tier 3 rules that block: none
\* of them has less time, or the same and a closer pattern.
Laxer(a, b) ==
    LET time(r) == IF r.minutes = None THEN -1 ELSE r.minutes
    IN  \/ time(a) > time(b)
        \/ time(a) = time(b) /\ a.specificity < b.specificity

NamesTheStrictest ==
    LET d == Evaluate(rules, FALSE)
    IN  d.kind = "controlled" =>
            \A r \in AllRules : (r.tier = "controlled" /\ RuleBlocks(r, FALSE))
                => ~Laxer(rules[d.rule], r)

Grantable(r) ==
    r.applies /\ r.tier = "controlled" /\ (r.active \/ r.detox # 0)

DetoxHolds(apps) ==
    \E r \in ToSet(apps) : r.applies /\ r.tier = "scheduled" /\ r.detox # 0

\* An unlock asked for a URL blocked by Tier 3 opens the rule the block named,
\* so that the one unlock an hour allows is not spent on another, unless a
\* Detox has an application list that matches the URL too: then it is refused
\* (active_detox_for_unlock_target).  It is refused where Tier 1 or 2 blocks
\* the URL, and opens only an active list of Tier 3: an application list only
\* if no website list is active for the URL and no application list of Tier 1
\* or 2 blocks (resolve_unlock_rule).
UnlockOpensTheReported ==
    LET d == Evaluate(rules, FALSE)
    IN  \A apps \in AppRuleLists :
            LET u == UnlockRule(rules, apps)
            IN  /\ d.kind = "controlled" => u = IF DetoxHolds(apps) THEN None ELSE d.rule
                /\ d.kind \in {"hard", "detox", "scheduled"} => u = None
                /\ u # None => \E r \in AllRules \cup ToSet(apps) : r.id = u /\ Grantable(r)
                /\ u # None /\ (\A r \in AllRules : ~Grantable(r)) =>
                      \A r \in ToSet(apps) : r.tier # "controlled" => ~RuleBlocks(r, FALSE)

\* A visit to an allowed URL is counted against a rule with an allowance
\* whenever one of the active rules has one, and the time of an allowed
\* application against all of those that have.
VisitsAreMetered ==
    LET metered == {r \in AllRules : /\ r.applies /\ r.tier = "controlled"
                                     /\ r.active \/ r.detox # 0
                                     /\ r.minutes # None}
    IN  /\ metered # {} => \E r \in metered : r.id = VisitRule(rules)
        /\ EvaluateApp(rules, FALSE) = Allow
              => MeteredAppRules(rules) = {r.id : r \in metered}

\* The walks over the lists, each with its early returns, agree with what the set of
\* lists says: whether an address is blocked, by which of them, and what a visit costs.
WalksAgree == BlockedByARule /\ NamesTheStrictest /\ VisitsAreMetered
=============================================================================
