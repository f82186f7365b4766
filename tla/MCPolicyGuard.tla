---------------------------- MODULE MCPolicyGuard ----------------------------
(* Small policies for PolicyGuard: one or two lists, one schedule that is    *)
(* active in slot 1 of a two-slot day, one allowance.                        *)
EXTENDS PolicyGuard, TLC

CONSTANTS S1, P1, BR, Sch, Al, E1, E2, T1, T2

List(tier, enabled, mode, entries, schedules, allowance) ==
    [tier |-> tier, enabled |-> enabled, mode |-> mode, entries |-> entries,
     schedules |-> schedules, allowance |-> allowance]

\* Proposals: Tier 1 and Tier 2 blocklists, disabled or not, attached or not;
\* an allowlist; Tier 3 with and without its allowance.
SiteChoices ==
    {List("hard",      TRUE,  "block", {E1},     {},    None),
     List("scheduled", TRUE,  "block", {E1},     {Sch}, None),
     List("scheduled", TRUE,  "block", {E1, E2}, {Sch}, None),
     List("scheduled", FALSE, "block", {E1},     {Sch}, None),
     List("scheduled", TRUE,  "allow", {E1},     {},    None)}

AppChoices ==
    {List("controlled", TRUE, "block", {E1},     {Sch}, Al),
     List("controlled", TRUE, "block", {E1, E2}, {Sch}, None),
     List("controlled", TRUE, "allow", {E1, E2}, {},    Al)}

BrowserHard == List("hard", TRUE, "block", {E1}, {}, None)

Policy(ls, ws, ms) == [lists |-> ls, windows |-> ws, minutes |-> ms]

\* A Tier 2 website list attached to the schedule.
SitePolicy ==
    Policy([l \in {S1} |->
               List("scheduled", TRUE, "block", {E1, E2}, {Sch}, None)],
           [s \in {Sch} |-> {1}],
           [a \in {} |-> None])

SiteImports ==
    {Policy([l \in {S1} |-> None], [s \in {Sch} |-> {0}], [a \in {} |-> None]),
     Policy([l \in {S1} |-> List("hard", TRUE, "block", {E2}, {}, None)],
            [s \in {Sch} |-> None], [a \in {} |-> None])}

\* A metered application rule beside the rule on unsupported browsers.
AppPolicy ==
    Policy([l \in {P1, BR} |->
               IF l = P1
               THEN List("controlled", TRUE, "block", {E1}, {Sch}, Al)
               ELSE BrowserHard],
           [s \in {Sch} |-> {1}],
           [a \in {Al} |-> 1])

AppImports ==
    {Policy([l \in {P1, BR} |->
               IF l = P1 THEN List("controlled", TRUE, "block", {E1}, {}, Al)
                         ELSE None],
            [s \in {Sch} |-> None],
            [a \in {Al} |-> 2])}

WindowSets == {{}, {1}, {0, 1}}
FirstSlot == {0}

\* The tasks are interchangeable.
TaskSymmetry == Permutations(Threads)
=============================================================================
