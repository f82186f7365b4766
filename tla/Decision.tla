------------------------------- MODULE Decision -------------------------------
(***************************************************************************)
(* The decision of the policy engine (focus-core/src/policy.rs): which rule *)
(* blocks a URL or a process, which Tier 3 rule a manual unlock opens, and  *)
(* which one a visit is counted against.                                    *)
(*                                                                          *)
(* The engine walks the policy's rules in their order, several times.  Here *)
(* a rule is reduced to what those walks ask of it for one target at one    *)
(* instant:                                                                 *)
(*   id           its identifier                                            *)
(*   tier         "hard", "scheduled" or "controlled"                       *)
(*   applies      enabled, and the target is on the blocklist or off the    *)
(*                allowlist                                                 *)
(*   active       a schedule of the rule is active (evaluate with the clock *)
(*                tampered: it has one)                                     *)
(*   detox        the latest end of the Detox sessions it is in, 0 if none  *)
(*   minutes      its allowance, None without one                           *)
(*   used         the minutes used today                                    *)
(*   unlocked     an unlock for it is running                               *)
(*   specificity  how closely its pattern fits (0 for applications)         *)
(***************************************************************************)
EXTENDS Integers, Sequences, Absent

Block(kind, r) == [kind |-> kind, rule |-> r.id]
Allow == [kind |-> "allow", rule |-> None]

\* The places of the rules a walk over a tier stops at.
Applying(rules, tier) == {i \in DOMAIN rules : rules[i].applies /\ rules[i].tier = tier}

First(places) == CHOOSE i \in places : \A j \in places : i <= j

\* The place a loop keeps of those that are wanted: a later one replaces it if
\* it is better.  0 before there is any.
KeptOf(size, wanted, better) ==
    LET kept[n \in 0 .. size] ==
            IF n = 0 THEN 0
            ELSE IF n \in wanted /\ (kept[n - 1] = 0 \/ <<n, kept[n - 1]>> \in better)
            THEN n ELSE kept[n - 1]
    IN  kept[size]

StricterThan(a, b) ==
    \/ a.minutes = None /\ b.minutes # None
    \/ a.minutes # None /\ b.minutes # None /\ a.minutes < b.minutes
    \/ a.minutes = b.minutes /\ a.specificity > b.specificity

Strictest(rules, places) ==
    rules[KeptOf(Len(rules), places,
                 {p \in places \X places : StricterThan(rules[p[1]], rules[p[2]])})]

ControlledActive(r) == r.active \/ r.detox # 0

\* Slip: an unlock is honoured whatever the clock.
ControlledBlocks_UnlockFirst(r, tampered) ==
    /\ ~r.unlocked
    /\ tampered \/ r.minutes = None \/ r.used >= r.minutes

ControlledBlocks(r, tampered) ==
    \/ tampered
    \/ ~r.unlocked /\ (r.minutes = None \/ r.used >= r.minutes)

ActiveControlled(rules) ==
    {i \in Applying(rules, "controlled") : ControlledActive(rules[i])}

BlockingControlled(rules, tampered) ==
    {i \in ActiveControlled(rules) : ControlledBlocks(rules[i], tampered)}

Metered(rules) == {i \in ActiveControlled(rules) : rules[i].minutes # None}

Due(rules) == {i \in Applying(rules, "scheduled") : rules[i].active}

InDetox(rules) == {i \in Applying(rules, "scheduled") : rules[i].detox # 0}

\* The Tier 2 rule of the Detox that ends last, the first one on a tie.
DetoxBlock(rules) ==
    rules[KeptOf(Len(rules), InDetox(rules),
                 {p \in InDetox(rules) \X InDetox(rules) :
                     rules[p[1]].detox > rules[p[2]].detox})]

\* A rule of Tier 1 or 2 holds the target.
Held(rules) ==
    Applying(rules, "hard") # {} \/ InDetox(rules) # {} \/ Due(rules) # {}

Evaluate(rules, tampered) ==
    LET hard == Applying(rules, "hard")
        blocking == BlockingControlled(rules, tampered)
    IN  IF hard # {} THEN Block("hard", rules[First(hard)])
        ELSE IF InDetox(rules) # {} THEN Block("detox", DetoxBlock(rules))
        ELSE IF Due(rules) # {} THEN Block("scheduled", rules[First(Due(rules))])
        ELSE IF blocking # {} THEN Block("controlled", Strictest(rules, blocking))
        ELSE Allow

\* Applications: every rule fits equally closely.
Unspecific(rules) == [i \in DOMAIN rules |-> [rules[i] EXCEPT !.specificity = 0]]

EvaluateApp(rules, tampered) == Evaluate(Unspecific(rules), tampered)

\* Slip: the strictest active website rule, blocking or not.
UnlockRule_Active(rules, apps) ==
    IF Held(rules) \/ InDetox(apps) # {} \/ ActiveControlled(rules) = {} THEN None
    ELSE Strictest(rules, ActiveControlled(rules)).id

\* The rule an unlock opens (tampered clocks are refused before) for a target
\* that is no application list's name.  It is looked up both as a URL, among
\* the website rules, and as an executable, among the application rules `apps'
\* (those in allowlist mode match every target that is not a member).  A Detox
\* of either kind refuses.  Then the website rules decide if they hold the
\* target or one of Tier 3 is active for it: a blocking one if any, an active
\* one otherwise.  Failing those, the first active application rule of Tier 3.
UnlockRule(rules, apps) ==
    LET blocking == BlockingControlled(rules, FALSE)
        active == ActiveControlled(rules)
        running == ActiveControlled(apps)
    IN  IF Held(rules) \/ InDetox(apps) # {} THEN None
        ELSE IF active # {}
        THEN Strictest(rules, IF blocking # {} THEN blocking ELSE active).id
        ELSE IF Held(apps) \/ running = {} THEN None
        ELSE apps[First(running)].id

\* The rule a visit is recorded under: a metered one if any.
VisitRule(rules) ==
    LET active == ActiveControlled(rules)
        metered == Metered(rules)
    IN  IF active = {} THEN None
        ELSE Strictest(rules, IF metered # {} THEN metered ELSE active).id

\* The application rules whose time a running process uses.
MeteredAppRules(rules) ==
    IF Held(rules) THEN {} ELSE {rules[i].id : i \in Metered(rules)}
=============================================================================
