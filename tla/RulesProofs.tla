------------------------------ MODULE RulesProofs ------------------------------
(***************************************************************************)
(* The rules in force, and the time they go by: the decisions of the engine *)
(* for every list of rules, unlocks for every number of lists, tasks,       *)
(* requests and edits, and the clock guard for every sequence of settings   *)
(* of the clock, reboots, checks and pauses.                                *)
(***************************************************************************)
EXTENDS DecisionCheck, Unlocks, ClockGuard, Induction

-----------------------------------------------------------------------------
\* What a loop keeps at a place, from what it kept before.
KeptAt(n, kept, wanted, better) ==
    IF n = 0 THEN 0
    ELSE IF n \in wanted /\ (kept[n - 1] = 0 \/ <<n, kept[n - 1]>> \in better)
    THEN n ELSE kept[n - 1]

\* The recursion of a loop is defined.
LEMMA KeptIsDefined ==
    ASSUME NEW size \in Nat, NEW wanted, NEW better
    PROVE  \E f : /\ f = [n \in 0..size |-> KeptAt(n, f, wanted, better)]
                  /\ KeptOf(size, wanted, better) = f[size]
<1> DEFINE Defined(m) == \E f : f = [n \in 0..m |-> KeptAt(n, f, wanted, better)]
           S == {m \in Nat : Defined(m)}
<1>1. 0 \in S
  <2> DEFINE f == [n \in 0..0 |-> 0]
  <2>1. f = [n \in 0..0 |-> KeptAt(n, f, wanted, better)]
    BY DEF KeptAt
  <2> QED
    BY <2>1
<1>2. ASSUME NEW m \in Nat, m \in S PROVE m + 1 \in S
  <2>1. PICK f : f = [n \in 0..m |-> KeptAt(n, f, wanted, better)]
    BY <1>2
  <2> DEFINE g == [n \in 0..m + 1 |-> IF n = m + 1 THEN KeptAt(n, f, wanted, better) ELSE f[n]]
  <2>2. \A n \in 0..m : g[n] = f[n]
    OBVIOUS
  <2>3. \A n \in 0..m + 1 : g[n] = KeptAt(n, f, wanted, better)
    BY <2>1
  <2>4. \A n \in 0..m + 1 : KeptAt(n, f, wanted, better) = KeptAt(n, g, wanted, better)
    <3> SUFFICES ASSUME NEW n \in 0..m + 1
                 PROVE  KeptAt(n, f, wanted, better) = KeptAt(n, g, wanted, better)
      OBVIOUS
    <3>1. CASE n = 0
      BY <3>1 DEF KeptAt
    <3>2. CASE n # 0
      <4>1. n - 1 \in 0..m
        BY <3>2
      <4>2. g[n - 1] = f[n - 1]
        BY <4>1, <2>2
      <4> HIDE DEF g
      <4> QED
        BY <4>2 DEF KeptAt
    <3> QED
      BY <3>1, <3>2
  <2>5. g = [n \in 0..m + 1 |-> g[n]]
    OBVIOUS
  <2>6. g = [n \in 0..m + 1 |-> KeptAt(n, g, wanted, better)]
    <3> HIDE DEF g
    <3> QED
      BY <2>3, <2>4, <2>5
  <2>7. Defined(m + 1)
    BY <2>6
  <2> HIDE DEF Defined
  <2> QED
    BY <2>7
<1>3. size \in S
  <2> HIDE DEF S
  <2>1. Nat \subseteq S
    BY <1>1, <1>2, InductiveSet
  <2> QED
    BY <2>1
<1>4. \E f : f = [n \in 0..size |-> KeptAt(n, f, wanted, better)]
  BY <1>3
<1> DEFINE F == CHOOSE f : f = [n \in 0..size |-> KeptAt(n, f, wanted, better)]
<1>5. F = [n \in 0..size |-> KeptAt(n, F, wanted, better)]
  BY <1>4
<1>6. KeptOf(size, wanted, better) = F[size]
  BY DEF KeptOf, KeptAt
<1> QED
  BY <1>5, <1>6

\* A loop keeps a wanted place that none of the wanted is better than, when
\* better is an order.
LEMMA KeepsTheBest ==
    ASSUME NEW size \in Nat, NEW wanted \in SUBSET (1..size), wanted # {}, NEW better,
           \A i \in wanted : <<i, i>> \notin better,
           \A i, j, k \in wanted : <<i, j>> \in better /\ <<j, k>> \in better
                                    => <<i, k>> \in better
    PROVE  /\ KeptOf(size, wanted, better) \in wanted
           /\ \A i \in wanted : <<i, KeptOf(size, wanted, better)>> \notin better
<1>1. PICK f : /\ f = [n \in 0..size |-> KeptAt(n, f, wanted, better)]
               /\ KeptOf(size, wanted, better) = f[size]
  BY KeptIsDefined
<1> DEFINE Best(n) ==
             \/ f[n] = 0 /\ \A i \in wanted : i > n
             \/ /\ f[n] \in wanted
                /\ \A i \in wanted : i <= n => <<i, f[n]>> \notin better
           S == {n \in Nat : n <= size => Best(n)}
<1>2. 0 \in S
  BY <1>1 DEF KeptAt
<1>3. ASSUME NEW n \in Nat, n \in S PROVE n + 1 \in S
  <2> SUFFICES ASSUME n + 1 <= size PROVE Best(n + 1)
    OBVIOUS
  <2>1. Best(n)
    BY <1>3
  <2>2. f[n + 1] = IF n + 1 \in wanted /\ (f[n] = 0 \/ <<n + 1, f[n]>> \in better)
                   THEN n + 1 ELSE f[n]
    <3>1. n + 1 \in 0..size /\ n + 1 # 0 /\ (n + 1) - 1 = n
      OBVIOUS
    <3>2. f[n + 1] = KeptAt(n + 1, f, wanted, better)
      BY <1>1, <3>1
    <3> QED
      BY <3>1, <3>2 DEF KeptAt
  <2>3. \A i \in wanted : i \in Nat /\ i # 0 /\ (i <= n + 1 <=> i <= n \/ i = n + 1)
    OBVIOUS
  <2>4. \A i \in wanted : i > n <=> ~(i <= n)
    BY <2>3
  <2>5. CASE n + 1 \in wanted /\ f[n] = 0
    <3>1. f[n + 1] = n + 1
      BY <2>2, <2>5
    <3>2. \A i \in wanted : i > n
      BY <2>1, <2>3, <2>5
    <3>3. \A i \in wanted : i <= n + 1 => i = n + 1
      BY <3>2, <2>3, <2>4
    <3> QED
      BY <3>1, <3>3, <2>5
  <2>6. CASE n + 1 \in wanted /\ f[n] # 0 /\ <<n + 1, f[n]>> \in better
    <3>1. f[n + 1] = n + 1
      BY <2>2, <2>6
    <3>2. /\ f[n] \in wanted
          /\ \A i \in wanted : i <= n => <<i, f[n]>> \notin better
      BY <2>1, <2>6
    <3>3. ASSUME NEW i \in wanted, i <= n + 1 PROVE <<i, n + 1>> \notin better
      <4>1. CASE i = n + 1
        BY <4>1
      <4>2. CASE i <= n
        BY <4>2, <3>2, <2>6
      <4> QED
        BY <4>1, <4>2, <3>3, <2>3
    <3> QED
      BY <3>1, <3>3, <2>6
  <2>7. CASE n + 1 \in wanted /\ f[n] # 0 /\ <<n + 1, f[n]>> \notin better
    BY <2>1, <2>2, <2>3, <2>7
  <2>8. CASE n + 1 \notin wanted
    <3>1. f[n + 1] = f[n]
      BY <2>2, <2>8
    <3>2. \A i \in wanted : (i <= n + 1 <=> i <= n) /\ (i > n + 1 <=> i > n)
      BY <2>3, <2>8
    <3> QED
      BY <3>1, <3>2, <2>1
  <2> QED
    BY <2>5, <2>6, <2>7, <2>8
<1>4. size \in S
  <2> HIDE DEF S
  <2>1. Nat \subseteq S
    BY <1>2, <1>3, InductiveSet
  <2> QED
    BY <2>1
<1>5. Best(size)
  BY <1>4
<1>6. \A i \in wanted : i \in Nat /\ ~(i > size) /\ i <= size
  OBVIOUS
<1>7. f[size] \in wanted /\ \A i \in wanted : <<i, f[size]>> \notin better
  BY <1>5, <1>6
<1> QED
  BY <1>1, <1>7
-----------------------------------------------------------------------------
\* The first of some places is one of them.
LEMMA FirstIsOne ==
    ASSUME NEW size \in Nat, NEW places \in SUBSET (1..size), places # {}
    PROVE  First(places) \in places
<1>1. \E i \in places : \A j \in places : i <= j
  BY LeastNatural
<1> QED
  BY <1>1 DEF First

\* The places of a list hold rules.
LEMMA RuleAt ==
    ASSUME NEW rs \in Seq(RuleRecords), NEW i \in 1..Len(rs)
    PROVE  /\ rs[i].tier \in {"hard", "scheduled", "controlled"} /\ rs[i].detox \in Nat
           /\ rs[i].minutes \in Nat \cup {None} /\ rs[i].used \in Nat
           /\ rs[i].specificity \in Nat
           /\ rs[i].applies \in BOOLEAN /\ rs[i].active \in BOOLEAN
           /\ rs[i].unlocked \in BOOLEAN
<1>1. rs[i] \in RuleRecords
  OBVIOUS
<1> QED
  BY <1>1 DEF RuleRecords

\* A loop for the strictest rule ends at one none of the others is stricter than.
LEMMA StrictestIsOne ==
    ASSUME NEW rs \in Seq(RuleRecords), NEW places \in SUBSET (1..Len(rs)), places # {}
    PROVE  \E b \in places : /\ Strictest(rs, places) = rs[b]
                             /\ \A i \in places : ~StricterThan(rs[i], rs[b])
<1> DEFINE better == {p \in places \X places : StricterThan(rs[p[1]], rs[p[2]])}
<1>1. \A i \in places : rs[i].minutes \in Nat \cup {None} /\ rs[i].specificity \in Nat
  BY RuleAt
<1>2. \A i, j \in places : <<i, j>> \in better <=> StricterThan(rs[i], rs[j])
  OBVIOUS
<1>3. \A i \in places : <<i, i>> \notin better
  BY <1>1, <1>2 DEF StricterThan
<1>4. ASSUME NEW i \in places, NEW j \in places, NEW k \in places,
             <<i, j>> \in better, <<j, k>> \in better
      PROVE  <<i, k>> \in better
  <2>1. StricterThan(rs[i], rs[j]) /\ StricterThan(rs[j], rs[k])
    BY <1>2, <1>4
  <2>2. StricterThan(rs[i], rs[k])
    BY <1>1, <2>1 DEF StricterThan
  <2> QED
    BY <1>2, <2>2
<1> DEFINE b == KeptOf(Len(rs), places, better)
<1>5. Strictest(rs, places) = rs[b]
  BY DEF Strictest
<1> HIDE DEF better
<1>6. b \in places /\ \A i \in places : <<i, b>> \notin better
  BY <1>3, <1>4, KeepsTheBest
<1> HIDE DEF b
<1> QED
  BY <1>2, <1>5, <1>6

\* A loop for the Detox that ends last ends at a rule in a Detox.
LEMMA DetoxIsOne ==
    ASSUME NEW rs \in Seq(RuleRecords), InDetox(rs) # {}
    PROVE  \E b \in InDetox(rs) : DetoxBlock(rs) = rs[b]
<1> DEFINE places == InDetox(rs)
           better == {p \in places \X places : rs[p[1]].detox > rs[p[2]].detox}
           b == KeptOf(Len(rs), places, better)
<1>0. Len(rs) \in Nat
  OBVIOUS
<1>1. places \in SUBSET (1..Len(rs)) /\ \A i \in places : rs[i].detox \in Nat
  BY RuleAt DEF InDetox, Applying
<1>2. DetoxBlock(rs) = rs[b]
  BY DEF DetoxBlock
<1> HIDE DEF places
<1>3. \A i \in places : <<i, i>> \notin better
  BY <1>1
<1>4. \A i, j, k \in places : <<i, j>> \in better /\ <<j, k>> \in better => <<i, k>> \in better
  BY <1>1
<1> HIDE DEF better
<1>5. places # {}
  BY DEF places
<1>6. b \in places
  BY <1>0, <1>1, <1>3, <1>4, <1>5, KeepsTheBest
<1> QED
  BY <1>2, <1>6 DEF places

\* The engine allows exactly what no tier has a rule against.
LEMMA AllowedByAll ==
    ASSUME NEW rs, NEW t
    PROVE  Evaluate(rs, t) = Allow <=> ~Held(rs) /\ BlockingControlled(rs, t) = {}
BY DEF Evaluate, Held, Allow, Block

\* A block names one of the rules its tier has against the target.
LEMMA DecidedByOne ==
    ASSUME NEW rs \in Seq(RuleRecords), NEW t, Evaluate(rs, t) # Allow
    PROVE  \/ \E b \in Applying(rs, "hard") : Evaluate(rs, t) = Block("hard", rs[b])
           \/ \E b \in InDetox(rs) : Evaluate(rs, t) = Block("detox", rs[b])
           \/ \E b \in Due(rs) : Evaluate(rs, t) = Block("scheduled", rs[b])
           \/ /\ ~Held(rs)
              /\ \E b \in BlockingControlled(rs, t) :
                    /\ Evaluate(rs, t) = Block("controlled", rs[b])
                    /\ Strictest(rs, BlockingControlled(rs, t)) = rs[b]
                    /\ \A i \in BlockingControlled(rs, t) : ~StricterThan(rs[i], rs[b])
<1> DEFINE hard == Applying(rs, "hard")
           blocking == BlockingControlled(rs, t)
<1>1. /\ hard \in SUBSET (1..Len(rs)) /\ Due(rs) \in SUBSET (1..Len(rs))
      /\ blocking \in SUBSET (1..Len(rs)) /\ Len(rs) \in Nat
  BY DEF Applying, Due, BlockingControlled, ActiveControlled
<1>2. Evaluate(rs, t) =
         IF hard # {} THEN Block("hard", rs[First(hard)])
         ELSE IF InDetox(rs) # {} THEN Block("detox", DetoxBlock(rs))
         ELSE IF Due(rs) # {} THEN Block("scheduled", rs[First(Due(rs))])
         ELSE IF blocking # {} THEN Block("controlled", Strictest(rs, blocking))
         ELSE Allow
  BY DEF Evaluate
<1> HIDE DEF hard, blocking
<1>3. CASE hard # {}
  BY <1>1, <1>2, <1>3, FirstIsOne DEF hard
<1>4. CASE hard = {} /\ InDetox(rs) # {}
  BY <1>2, <1>4, DetoxIsOne
<1>5. CASE hard = {} /\ InDetox(rs) = {} /\ Due(rs) # {}
  BY <1>1, <1>2, <1>5, FirstIsOne
<1>6. CASE hard = {} /\ InDetox(rs) = {} /\ Due(rs) = {}
  <2>1. blocking # {} /\ Evaluate(rs, t) = Block("controlled", Strictest(rs, blocking))
    BY <1>2, <1>6
  <2>2. PICK b \in blocking : /\ Strictest(rs, blocking) = rs[b]
                              /\ \A i \in blocking : ~StricterThan(rs[i], rs[b])
    BY <1>1, <2>1, StrictestIsOne
  <2>3. ~Held(rs)
    BY <1>6 DEF Held, hard
  <2> QED
    BY <2>1, <2>2, <2>3 DEF blocking
<1> QED
  BY <1>3, <1>4, <1>5, <1>6

\* What blocks, place by place.
LEMMA RuleBlocksAt ==
    ASSUME NEW rs \in Seq(RuleRecords), NEW t, NEW i \in 1..Len(rs)
    PROVE  RuleBlocks(rs[i], t) <=>
              i \in Applying(rs, "hard") \cup InDetox(rs) \cup Due(rs)
                        \cup BlockingControlled(rs, t)
<1>1. /\ rs[i].tier \in {"hard", "scheduled", "controlled"} /\ rs[i].used \in Nat
      /\ rs[i].minutes \in Nat \cup {None}
      /\ rs[i].applies \in BOOLEAN /\ rs[i].active \in BOOLEAN
      /\ rs[i].unlocked \in BOOLEAN
  BY RuleAt
<1>2. i \in DOMAIN rs
  OBVIOUS
<1> DEFINE r == rs[i]
<1>3. /\ i \in Applying(rs, "hard") <=> r.applies /\ r.tier = "hard"
      /\ i \in InDetox(rs) <=> r.applies /\ r.tier = "scheduled" /\ r.detox # 0
      /\ i \in Due(rs) <=> r.applies /\ r.tier = "scheduled" /\ r.active
      /\ i \in BlockingControlled(rs, t) <=>
            /\ r.applies /\ r.tier = "controlled" /\ ControlledActive(r)
            /\ ControlledBlocks(r, t)
  BY <1>2, Zenon DEF Applying, InDetox, Due, BlockingControlled, ActiveControlled
<1>4. i \in Applying(rs, "hard") \cup InDetox(rs) \cup Due(rs) \cup BlockingControlled(rs, t)
         <=> \/ i \in Applying(rs, "hard") \/ i \in InDetox(rs) \/ i \in Due(rs)
             \/ i \in BlockingControlled(rs, t)
  OBVIOUS
<1>5. ControlledBlocks(r, t) <=>
         t \/ ~(r.unlocked \/ (r.minutes # None /\ r.used < r.minutes))
  BY <1>1 DEF ControlledBlocks
<1> HIDE DEF r
<1> QED
  BY <1>1, <1>3, <1>4, <1>5 DEF RuleBlocks, ControlledActive, r

\* A decision is that of the rules one by one.
LEMMA DecidedByTheRules ==
    ASSUME NEW rs \in Seq(RuleRecords), NEW t
    PROVE  IF Evaluate(rs, t) = Allow THEN \A i \in 1..Len(rs) : ~RuleBlocks(rs[i], t)
           ELSE \E i \in 1..Len(rs) : /\ rs[i].id = Evaluate(rs, t).rule
                                      /\ RuleBlocks(rs[i], t)
<1>1. CASE Evaluate(rs, t) = Allow
  <2>1. /\ Applying(rs, "hard") = {} /\ InDetox(rs) = {} /\ Due(rs) = {}
        /\ BlockingControlled(rs, t) = {}
    BY <1>1, AllowedByAll DEF Held
  <2> QED
    BY <1>1, <2>1, RuleBlocksAt
<1>2. CASE Evaluate(rs, t) # Allow
  <2>1. PICK b \in Applying(rs, "hard") \cup InDetox(rs) \cup Due(rs)
                       \cup BlockingControlled(rs, t) :
             \E kind : Evaluate(rs, t) = Block(kind, rs[b])
    BY <1>2, DecidedByOne
  <2>2. Evaluate(rs, t).rule = rs[b].id
    BY <2>1 DEF Block
  <2>3. b \in 1..Len(rs)
    BY DEF Applying, InDetox, Due, BlockingControlled, ActiveControlled
  <2>4. RuleBlocks(rs[b], t)
    BY <2>1, <2>3, RuleBlocksAt
  <2> QED
    BY <1>2, <2>2, <2>3, <2>4
<1> QED
  BY <1>1, <1>2

-----------------------------------------------------------------------------
\* The lists DecisionCheck builds: each rule named by its place.
Listed == rules \in Seq(RuleRecords) /\ \A i \in 1..Len(rules) : rules[i].id = i

LEMMA ListedStart == RulesInit => Listed
BY DEF RulesInit, Listed

LEMMA ListedStep == Listed /\ [RulesNext]_rules => Listed'
<1> SUFFICES ASSUME Listed, [RulesNext]_rules PROVE Listed'
  OBVIOUS
<1>1. CASE UNCHANGED rules
  BY <1>1 DEF Listed
<1>2. CASE RulesNext
  <2>1. PICK r \in RuleChoices : rules' = Append(rules, [r EXCEPT !.id = Len(rules) + 1])
    BY <1>2 DEF RulesNext, AddRule
  <2> DEFINE added == [r EXCEPT !.id = Len(rules) + 1]
  <2>2. added \in RuleRecords /\ added.id = Len(rules) + 1
    <3>1. r \in RuleRecords /\ Len(rules) + 1 \in Nat
      BY RulesAssumption DEF Listed
    <3> QED
      BY <3>1 DEF RuleRecords
  <2> HIDE DEF added
  <2>3. rules' = Append(rules, added)
    BY <2>1 DEF added
  <2>4. \A i \in 1..Len(rules') :
            rules'[i] = IF i = Len(rules) + 1 THEN added ELSE rules[i]
    BY <2>2, <2>3 DEF Listed
  <2> QED
    BY <2>2, <2>3, <2>4 DEF Listed
<1> QED
  BY <1>1, <1>2
\* Without its specificity a rule blocks what it blocked.
LEMMA UnspecificAgrees ==
    ASSUME NEW rs \in Seq(RuleRecords)
    PROVE  /\ Unspecific(rs) \in Seq(RuleRecords) /\ Len(Unspecific(rs)) = Len(rs)
           /\ \A i \in 1..Len(rs) :
                 /\ Unspecific(rs)[i].id = rs[i].id
                 /\ \A t : RuleBlocks(Unspecific(rs)[i], t) <=> RuleBlocks(rs[i], t)
           /\ \A tier : Applying(Unspecific(rs), tier) = Applying(rs, tier)
           /\ InDetox(Unspecific(rs)) = InDetox(rs) /\ Due(Unspecific(rs)) = Due(rs)
<1> DEFINE us == Unspecific(rs)
<1>1. us = [i \in 1..Len(rs) |-> [rs[i] EXCEPT !.specificity = 0]]
  BY DEF Unspecific
<1>2. ASSUME NEW i \in 1..Len(rs)
      PROVE  /\ us[i] \in RuleRecords
             /\ us[i].id = rs[i].id /\ us[i].tier = rs[i].tier
             /\ us[i].applies = rs[i].applies /\ us[i].active = rs[i].active
             /\ us[i].detox = rs[i].detox /\ us[i].minutes = rs[i].minutes
             /\ us[i].used = rs[i].used /\ us[i].unlocked = rs[i].unlocked
  <2>1. PICK r \in RuleRecords : r = rs[i]
    OBVIOUS
  <2>2. us[i] = [r EXCEPT !.specificity = 0]
    BY <1>1, <2>1
  <2> HIDE DEF us
  <2>3. us[i] \in RuleRecords
    <3> DEFINE e == [r EXCEPT !.specificity = 0]
    <3>1. e \in RuleRecords
      BY DEF RuleRecords
    <3> QED
      BY <2>2, <3>1
  <2>4. /\ us[i].id = r.id /\ us[i].tier = r.tier
        /\ us[i].applies = r.applies /\ us[i].active = r.active
        /\ us[i].detox = r.detox /\ us[i].minutes = r.minutes
        /\ us[i].used = r.used /\ us[i].unlocked = r.unlocked
    BY <2>2 DEF RuleRecords
  <2> QED
    BY <2>1, <2>3, <2>4
<1>3. us \in Seq(RuleRecords) /\ Len(us) = Len(rs)
  <2>1. us \in [1..Len(rs) -> RuleRecords]
    BY <1>1, <1>2
  <2> HIDE DEF us
  <2> QED
    BY <2>1
<1> HIDE DEF us
<1>4. \A i \in 1..Len(rs) : \A t : RuleBlocks(us[i], t) <=> RuleBlocks(rs[i], t)
  BY <1>2, Zenon DEF RuleBlocks
<1>5. DOMAIN us = 1..Len(rs) /\ DOMAIN rs = 1..Len(rs)
  BY <1>3
<1>6. \A tier : Applying(us, tier) = Applying(rs, tier)
  BY <1>2, <1>5 DEF Applying
<1>7. InDetox(us) = InDetox(rs) /\ Due(us) = Due(rs)
  <2>1. \A i \in Applying(rs, "scheduled") : i \in 1..Len(rs)
    BY <1>5 DEF Applying
  <2> QED
    BY <1>2, <1>6, <2>1 DEF InDetox, Due
<1> QED
  BY <1>2, <1>3, <1>4, <1>6, <1>7 DEF us

LEMMA ListedBlockedByARule == Listed => BlockedByARule
<1> SUFFICES ASSUME Listed, NEW t \in Tampers,
                    NEW d \in {Evaluate(rules, t), EvaluateApp(rules, t)}
             PROVE  IF d = Allow THEN \A r \in AllRules : ~RuleBlocks(r, t)
                    ELSE \E r \in AllRules : r.id = d.rule /\ RuleBlocks(r, t)
  BY DEF BlockedByARule
<1>1. rules \in Seq(RuleRecords) /\ AllRules = {rules[i] : i \in 1..Len(rules)}
  BY DEF Listed, AllRules, ToSet
<1> SUFFICES IF d = Allow THEN \A i \in 1..Len(rules) : ~RuleBlocks(rules[i], t)
             ELSE \E i \in 1..Len(rules) : /\ rules[i].id = d.rule
                                           /\ RuleBlocks(rules[i], t)
  BY <1>1
<1>2. CASE d = Evaluate(rules, t)
  BY <1>1, <1>2, DecidedByTheRules
<1>3. CASE d = Evaluate(Unspecific(rules), t)
  <2> DEFINE us == Unspecific(rules)
  <2>1. /\ us \in Seq(RuleRecords) /\ Len(us) = Len(rules)
        /\ \A i \in 1..Len(rules) : us[i].id = rules[i].id
        /\ \A i \in 1..Len(rules) : RuleBlocks(us[i], t) <=> RuleBlocks(rules[i], t)
    BY <1>1, UnspecificAgrees
  <2> HIDE DEF us
  <2>2. IF Evaluate(us, t) = Allow THEN \A i \in 1..Len(us) : ~RuleBlocks(us[i], t)
        ELSE \E i \in 1..Len(us) : us[i].id = Evaluate(us, t).rule /\ RuleBlocks(us[i], t)
    BY <2>1, DecidedByTheRules
  <2>3. d = Evaluate(us, t)
    BY <1>3 DEF us
  <2> QED
    BY <2>1, <2>2, <2>3
<1> QED
  BY <1>2, <1>3 DEF EvaluateApp

\* The rule of a decision of Tier 3, in the list it was decided by.
LEMMA ListedControlled ==
    ASSUME Listed, Evaluate(rules, FALSE).kind = "controlled"
    PROVE  /\ ~Held(rules) /\ BlockingControlled(rules, FALSE) # {}
           /\ Evaluate(rules, FALSE).rule =
                 Strictest(rules, BlockingControlled(rules, FALSE)).id
           /\ \E b \in BlockingControlled(rules, FALSE) :
                 /\ Evaluate(rules, FALSE).rule = b
                 /\ \A i \in BlockingControlled(rules, FALSE) :
                       ~StricterThan(rules[i], rules[b])
<1> DEFINE blocking == BlockingControlled(rules, FALSE)
           d == Evaluate(rules, FALSE)
<1>1. /\ rules \in Seq(RuleRecords)
      /\ \A i \in 1..Len(rules) : rules[i].id = i
  BY DEF Listed
<1>2. d # Allow
  <2>1. Allow.kind = "allow" /\ d.kind = "controlled"
    BY DEF Allow
  <2> QED
    BY <2>1
<1>3. \A kind, r : Block(kind, r).kind = kind /\ Block(kind, r).rule = r.id
  BY DEF Block
<1>4. \/ \E b \in Applying(rules, "hard") : d = Block("hard", rules[b])
      \/ \E b \in InDetox(rules) : d = Block("detox", rules[b])
      \/ \E b \in Due(rules) : d = Block("scheduled", rules[b])
      \/ /\ ~Held(rules)
         /\ \E b \in blocking :
               /\ d = Block("controlled", rules[b])
               /\ Strictest(rules, blocking) = rules[b]
               /\ \A i \in blocking : ~StricterThan(rules[i], rules[b])
  BY <1>1, <1>2, DecidedByOne
<1>5. blocking \subseteq 1..Len(rules)
  <2>1. DOMAIN rules = 1..Len(rules)
    BY <1>1
  <2> QED
    BY <2>1 DEF BlockingControlled, ActiveControlled, Applying
<1> HIDE DEF blocking, d
<1>6. d.kind = "controlled"
  BY DEF d
<1>7. PICK b \in blocking : /\ ~Held(rules)
                            /\ d = Block("controlled", rules[b])
                            /\ Strictest(rules, blocking) = rules[b]
                            /\ \A i \in blocking : ~StricterThan(rules[i], rules[b])
  BY <1>3, <1>4, <1>6
<1>8. d.rule = rules[b].id /\ rules[b].id = b
  BY <1>1, <1>3, <1>5, <1>7
<1> QED
  BY <1>7, <1>8 DEF blocking, d

LEMMA ListedNamesTheStrictest == Listed => NamesTheStrictest
<1> DEFINE d == Evaluate(rules, FALSE)
<1> SUFFICES ASSUME Listed, d.kind = "controlled", NEW r \in AllRules,
                    r.tier = "controlled", RuleBlocks(r, FALSE)
             PROVE  ~Laxer(rules[d.rule], r)
  BY DEF NamesTheStrictest
<1>1. PICK b \in BlockingControlled(rules, FALSE) :
          /\ d.rule = b
          /\ \A i \in BlockingControlled(rules, FALSE) : ~StricterThan(rules[i], rules[b])
  BY ListedControlled
<1>2. PICK i \in 1..Len(rules) : rules[i] = r
  BY DEF Listed, AllRules, ToSet
<1>3. rules \in Seq(RuleRecords) /\ b \in 1..Len(rules)
  BY DEF Listed, BlockingControlled, ActiveControlled, Applying
<1>4. i \in BlockingControlled(rules, FALSE)
  <2>1. i \in Applying(rules, "hard") \cup InDetox(rules) \cup Due(rules)
                  \cup BlockingControlled(rules, FALSE)
    BY <1>2, <1>3, RuleBlocksAt
  <2> QED
    BY <1>2, <2>1 DEF Applying, InDetox, Due
<1>5. ~StricterThan(rules[i], rules[b])
  BY <1>1, <1>4
<1>6. /\ rules[i].minutes \in Nat \cup {None} /\ rules[i].specificity \in Nat
      /\ rules[b].minutes \in Nat \cup {None} /\ rules[b].specificity \in Nat
  BY <1>3, RuleAt
<1>7. ~Laxer(rules[b], rules[i])
  BY <1>5, <1>6 DEF StricterThan, Laxer
<1> QED
  BY <1>1, <1>2, <1>7

LEMMA ListedVisitsAreMetered == Listed => VisitsAreMetered
<1> SUFFICES ASSUME Listed PROVE VisitsAreMetered
  OBVIOUS
<1> DEFINE costs == {r \in AllRules : /\ r.applies /\ r.tier = "controlled"
                                      /\ r.active \/ r.detox # 0
                                      /\ r.minutes # None}
<1>1. /\ rules \in Seq(RuleRecords) /\ AllRules = {rules[i] : i \in 1..Len(rules)}
      /\ Metered(rules) \subseteq 1..Len(rules) /\ DOMAIN rules = 1..Len(rules)
  BY DEF Listed, AllRules, ToSet, Metered, ActiveControlled, Applying
<1>2. costs = {rules[i] : i \in Metered(rules)}
  <2>1. \A i \in 1..Len(rules) :
            i \in Metered(rules) <=>
               /\ rules[i].applies /\ rules[i].tier = "controlled"
               /\ rules[i].active \/ rules[i].detox # 0
               /\ rules[i].minutes # None
    BY <1>1, Zenon DEF Metered, ActiveControlled, Applying, ControlledActive
  <2>2. \A r \in costs : \E i \in Metered(rules) : r = rules[i]
    <3> SUFFICES ASSUME NEW r \in costs PROVE \E i \in Metered(rules) : r = rules[i]
      OBVIOUS
    <3>1. PICK i \in 1..Len(rules) : r = rules[i]
      BY <1>1
    <3> QED
      BY <2>1, <3>1
  <2>3. \A i \in Metered(rules) : rules[i] \in costs
    BY <1>1, <2>1
  <2> HIDE DEF costs
  <2> QED
    BY <2>2, <2>3
<1> HIDE DEF costs
<1>3. ASSUME costs # {} PROVE \E r \in costs : r.id = VisitRule(rules)
  <2>1. Metered(rules) # {} /\ ActiveControlled(rules) # {}
    BY <1>2, <1>3 DEF Metered
  <2>2. VisitRule(rules) = Strictest(rules, Metered(rules)).id
    BY <2>1 DEF VisitRule
  <2>3. \E b \in Metered(rules) : Strictest(rules, Metered(rules)) = rules[b]
    BY <1>1, <2>1, StrictestIsOne
  <2> QED
    BY <1>2, <2>2, <2>3
<1>4. ASSUME EvaluateApp(rules, FALSE) = Allow
      PROVE  MeteredAppRules(rules) = {r.id : r \in costs}
  <2>1. ~Held(Unspecific(rules))
    BY <1>4, AllowedByAll DEF EvaluateApp
  <2>2. ~Held(rules)
    BY <1>1, <2>1, UnspecificAgrees DEF Held
  <2> QED
    BY <1>2, <2>2 DEF MeteredAppRules
<1>5. /\ costs # {} => \E r \in costs : r.id = VisitRule(rules)
      /\ EvaluateApp(rules, FALSE) = Allow
            => MeteredAppRules(rules) = {r.id : r \in costs}
  BY <1>3, <1>4
<1> QED
  BY <1>5 DEF VisitsAreMetered, costs

\* The rules of Tier 3 a walk for an unlock may open, by their places.
LEMMA GrantableAt ==
    ASSUME NEW rs \in Seq(RuleRecords)
    PROVE  /\ ActiveControlled(rs) \subseteq 1..Len(rs)
           /\ \A i \in 1..Len(rs) : i \in ActiveControlled(rs) <=> Grantable(rs[i])
           /\ ToSet(rs) = {rs[i] : i \in 1..Len(rs)}
<1>1. DOMAIN rs = 1..Len(rs)
  OBVIOUS
<1> QED
  BY <1>1 DEF ActiveControlled, Applying, ControlledActive, Grantable, ToSet

\* A Detox with an application list for the target, by the places of the walk.
LEMMA DetoxAt ==
    ASSUME NEW rs \in Seq(RuleRecords)
    PROVE  InDetox(rs) # {} <=> DetoxHolds(rs)
<1>1. DOMAIN rs = 1..Len(rs)
  OBVIOUS
<1> QED
  BY <1>1 DEF InDetox, Applying, DetoxHolds, ToSet

\* Where no walk over Tiers 1 and 2 stops, no rule of theirs blocks.
LEMMA HeldAt ==
    ASSUME NEW rs \in Seq(RuleRecords), ~Held(rs), NEW r \in ToSet(rs),
           r.tier # "controlled"
    PROVE  ~RuleBlocks(r, FALSE)
<1>1. PICK i \in 1..Len(rs) : r = rs[i]
  BY GrantableAt
<1>2. i \notin Applying(rs, "hard") \cup InDetox(rs) \cup Due(rs)
  BY DEF Held
<1>3. i \notin BlockingControlled(rs, FALSE)
  BY <1>1 DEF BlockingControlled, ActiveControlled, Applying
<1> QED
  BY <1>1, <1>2, <1>3, RuleBlocksAt

\* Which of the walks an unlock is opened by.
LEMMA UnlockCases ==
    ASSUME NEW rs \in Seq(RuleRecords), NEW apps \in Seq(RuleRecords),
           UnlockRule(rs, apps) # None
    PROVE  /\ ~Held(rs) /\ InDetox(apps) = {}
           /\ \/ \E b \in ActiveControlled(rs) : UnlockRule(rs, apps) = rs[b].id
              \/ /\ ActiveControlled(rs) = {} /\ ~Held(apps)
                 /\ \E b \in ActiveControlled(apps) : UnlockRule(rs, apps) = apps[b].id
<1> DEFINE blocking == BlockingControlled(rs, FALSE)
           active == ActiveControlled(rs)
           running == ActiveControlled(apps)
           chosen == IF blocking # {} THEN blocking ELSE active
<1>1. UnlockRule(rs, apps) =
         IF Held(rs) \/ InDetox(apps) # {} THEN None
         ELSE IF active # {} THEN Strictest(rs, chosen).id
         ELSE IF Held(apps) \/ running = {} THEN None
         ELSE apps[First(running)].id
  BY DEF UnlockRule
<1>2. /\ active \in SUBSET (1..Len(rs)) /\ running \in SUBSET (1..Len(apps))
      /\ blocking \subseteq active /\ Len(apps) \in Nat
  <2>1. active \subseteq 1..Len(rs) /\ running \subseteq 1..Len(apps)
    BY GrantableAt
  <2>2. blocking \subseteq active
    BY DEF BlockingControlled
  <2>3. Len(apps) \in Nat
    OBVIOUS
  <2> HIDE DEF blocking, active, running
  <2> QED
    BY <2>1, <2>2, <2>3
<1> HIDE DEF blocking, active, running
<1>3. ~Held(rs) /\ InDetox(apps) = {}
  BY <1>1
<1>4. CASE active # {}
  <2>1. chosen \in SUBSET (1..Len(rs)) /\ chosen # {} /\ chosen \subseteq active
    BY <1>2, <1>4
  <2> HIDE DEF chosen
  <2>2. PICK b \in chosen : Strictest(rs, chosen) = rs[b]
    BY <2>1, StrictestIsOne
  <2> QED
    BY <1>1, <1>3, <1>4, <2>1, <2>2 DEF active
<1>5. CASE active = {}
  <2>1. ~Held(apps) /\ running # {} /\ UnlockRule(rs, apps) = apps[First(running)].id
    BY <1>1, <1>5
  <2>2. First(running) \in running
    BY <1>2, <2>1, FirstIsOne
  <2> QED
    BY <1>3, <1>5, <2>1, <2>2 DEF active, running
<1> QED
  BY <1>4, <1>5

LEMMA ListedUnlockOpensTheReported == Listed => UnlockOpensTheReported
<1> SUFFICES ASSUME Listed PROVE UnlockOpensTheReported
  OBVIOUS
<1> DEFINE d == Evaluate(rules, FALSE)
<1>0. rules \in Seq(RuleRecords) /\ AppRuleLists \subseteq Seq(RuleRecords)
  BY RulesAssumption DEF Listed
<1>1. ASSUME d.kind = "controlled", NEW apps \in AppRuleLists
      PROVE  UnlockRule(rules, apps) = IF DetoxHolds(apps) THEN None ELSE d.rule
  <2>1. /\ ~Held(rules) /\ BlockingControlled(rules, FALSE) # {}
        /\ d.rule = Strictest(rules, BlockingControlled(rules, FALSE)).id
    BY <1>1, ListedControlled
  <2>2. ActiveControlled(rules) # {}
    BY <2>1 DEF BlockingControlled
  <2>3. InDetox(apps) # {} <=> DetoxHolds(apps)
    BY <1>0, DetoxAt
  <2> QED
    BY <2>1, <2>2, <2>3 DEF UnlockRule
<1>2. ASSUME d.kind \in {"hard", "detox", "scheduled"}, NEW apps \in AppRuleLists
      PROVE  UnlockRule(rules, apps) = None
  <2>1. Held(rules)
    BY <1>2 DEF Evaluate, Held, Block, Allow
  <2> QED
    BY <2>1 DEF UnlockRule
<1>3. ASSUME NEW apps \in AppRuleLists, UnlockRule(rules, apps) # None
      PROVE  /\ \E r \in AllRules \cup ToSet(apps) :
                   r.id = UnlockRule(rules, apps) /\ Grantable(r)
             /\ (\A r \in AllRules : ~Grantable(r)) =>
                   \A r \in ToSet(apps) : r.tier # "controlled" => ~RuleBlocks(r, FALSE)
  <2>1. apps \in Seq(RuleRecords)
    BY <1>0
  <2>2. AllRules = ToSet(rules)
    BY DEF AllRules
  <2>3. CASE \E b \in ActiveControlled(rules) : UnlockRule(rules, apps) = rules[b].id
    <3>1. PICK b \in 1..Len(rules) :
              Grantable(rules[b]) /\ UnlockRule(rules, apps) = rules[b].id
      BY <1>0, <2>3, GrantableAt
    <3>2. rules[b] \in AllRules
      BY <1>0, <2>2, GrantableAt
    <3> QED
      BY <3>1, <3>2
  <2>4. CASE /\ ActiveControlled(rules) = {} /\ ~Held(apps)
             /\ \E b \in ActiveControlled(apps) : UnlockRule(rules, apps) = apps[b].id
    <3>1. PICK b \in 1..Len(apps) :
              Grantable(apps[b]) /\ UnlockRule(rules, apps) = apps[b].id
      BY <2>1, <2>4, GrantableAt
    <3>2. apps[b] \in ToSet(apps)
      BY <2>1, GrantableAt
    <3>3. \A r \in ToSet(apps) : r.tier # "controlled" => ~RuleBlocks(r, FALSE)
      BY <2>1, <2>4, HeldAt
    <3> QED
      BY <3>1, <3>2, <3>3
  <2> QED
    BY <1>0, <1>3, <2>1, <2>3, <2>4, UnlockCases
<1> HIDE DEF d
<1> QED
  BY <1>1, <1>2, <1>3 DEF UnlockOpensTheReported, d

\* For every list of rules, the walks agree with what the set of rules says: a
\* target is blocked exactly when a rule blocks it, the strictest Tier 3 rule is
\* the one named, and a visit is counted against an allowance if one of the active
\* rules has one (evaluate_url, evaluate_app, visit_rule_for_url).
THEOREM WalksAgreeAlways == RulesSpec => []WalksAgree
<1>1. Listed => WalksAgree
  BY ListedBlockedByARule, ListedNamesTheStrictest, ListedVisitsAreMetered DEF WalksAgree
<1> QED
  BY <1>1, ListedStart, ListedStep, PTL DEF RulesSpec

\* For every list of website rules and every list of application rules that may
\* see the URL: the hour's unlock is spent on the rule the block named, or refused
\* if a Detox has an application rule that matches; nothing is opened where Tier 1
\* or 2 blocks the URL; and an application rule is opened only if no website rule is
\* active for the URL and no application rule of Tier 1 or 2 blocks (evaluate_url,
\* active_detox_for_unlock_target, resolve_unlock_rule).
THEOREM UnlocksWhatWasReported == RulesSpec => []UnlockOpensTheReported
<1> QED
  BY ListedUnlockOpensTheReported, ListedStart, ListedStep, PTL DEF RulesSpec

-----------------------------------------------------------------------------
SharesKept == \A u \in unlocks : u.kept = u.rules \ u.revoked

UnlockRecords ==
    [rules : SUBSET Lists, revoked : SUBSET Lists, reason : Reasons, start : Nat,
     end : Nat, kept : SUBSET Lists]

UnlocksKept ==
    /\ UnlocksTypeOK /\ OneAnHour /\ SharesKept
    /\ unlocks \subseteq UnlockRecords

-----------------------------------------------------------------------------
\* Only lists of the policy are unlocked.
LEMMA SelectedAreLists ==
    ASSUME NEW n, NEW selected \in Selections(n)
    PROVE  selected \subseteq Lists
<1>1. \A x \in Targets : TargetLists(x, n) \subseteq Lists
  BY DEF TargetLists, Present
<1>2. \A a \in AppNames : NamedLists(a) \subseteq Lists
  BY DEF NamedLists, Present
<1> QED
  BY <1>1, <1>2 DEF Selections

\* A grant is an unlock of its own, more than an hour from the others.
LEMMA GrantKeeps ==
    ASSUME UnlocksKept, NEW selected \in SUBSET Lists, selected # {},
           NEW r \in Reasons, NEW n \in Nat, QuotaLeft(n),
           unlocks' = unlocks \cup {Granted(selected, r, n)}
    PROVE  /\ \A u \in unlocks' :
                 /\ u \in UnlockRecords
                 /\ u.rules \subseteq Lists /\ u.rules # {}
                 /\ u.revoked \subseteq u.rules /\ u.kept \subseteq u.rules
                 /\ u.start \in Nat /\ u.end = u.start + UnlockLength
                 /\ u.kept = u.rules \ u.revoked
           /\ OneAnHour'
<1> DEFINE g == Granted(selected, r, n)
<1>1. /\ g \in UnlockRecords /\ g.start = n /\ g.rules = selected /\ g.kept = selected
      /\ g.revoked = {} /\ g.end = n + UnlockLength
  BY UnlocksAssumption DEF Granted, UnlockRecords
<1>2. unlocks' = unlocks \cup {g}
  OBVIOUS
<1> HIDE DEF g
<1>3. ASSUME NEW u \in unlocks'
      PROVE  /\ u \in UnlockRecords
             /\ u.rules \subseteq Lists /\ u.rules # {}
             /\ u.revoked \subseteq u.rules /\ u.kept \subseteq u.rules
             /\ u.start \in Nat /\ u.end = u.start + UnlockLength
             /\ u.kept = u.rules \ u.revoked
  <2>1. CASE u \in unlocks
    BY <2>1 DEF UnlocksKept, UnlocksTypeOK, SharesKept
  <2>2. CASE u = g
    BY <1>1, <2>2
  <2> QED
    BY <1>2, <2>1, <2>2
<1>4. \A u \in unlocks : u.start \in Nat /\ n - u.start > Hour
  BY UnlocksAssumption DEF UnlocksKept, UnlocksTypeOK, QuotaLeft
<1>5. OneAnHour'
  BY <1>1, <1>2, <1>4 DEF UnlocksKept, OneAnHour
<1> QED
  BY <1>3, <1>5

\* What an edit of the policy leaves of an unlock.
LEMMA RevokeKeeps ==
    ASSUME UnlocksKept, NEW u \in unlocks, NEW present
    PROVE  LET v == Revoke(u, present) IN
           /\ v \in UnlockRecords
           /\ v.rules = u.rules /\ v.start = u.start /\ v.end = u.end
           /\ v.revoked \subseteq v.rules
           /\ v.kept = v.rules \ v.revoked
<1> DEFINE v == Revoke(u, present)
<1>1. u \in UnlockRecords /\ u.kept = u.rules \ u.revoked /\ u.revoked \subseteq u.rules
  BY DEF UnlocksKept, UnlocksTypeOK, SharesKept
<1>2. v = [rules |-> u.rules, revoked |-> u.revoked \cup (u.rules \ present),
           reason |-> u.reason, start |-> u.start, end |-> u.end,
           kept |-> u.kept \cap present]
  <2>1. u = [rules |-> u.rules, revoked |-> u.revoked, reason |-> u.reason,
             start |-> u.start, end |-> u.end, kept |-> u.kept]
    BY <1>1 DEF UnlockRecords
  <2>2. PICK asked, revoked, reason, start, end, kept :
            u = [rules |-> asked, revoked |-> revoked, reason |-> reason,
                 start |-> start, end |-> end, kept |-> kept]
    BY <2>1
  <2> DEFINE more == revoked \cup (asked \ present)
             fewer == kept \cap present
  <2>3. /\ u.rules = asked /\ u.revoked = revoked /\ u.reason = reason
        /\ u.start = start /\ u.end = end /\ u.kept = kept
    BY <2>2
  <2>4. v = [u EXCEPT !.revoked = more, !.kept = fewer]
    BY <2>3 DEF Revoke
  <2> HIDE DEF more, fewer
  <2>5. v = [rules |-> asked, revoked |-> more, reason |-> reason,
             start |-> start, end |-> end, kept |-> fewer]
    BY <2>2, <2>4
  <2> HIDE DEF v
  <2> QED
    BY <2>3, <2>5, Zenon DEF more, fewer
<1>3. v \in UnlockRecords
  <2>1. /\ u.rules \in SUBSET Lists /\ u.revoked \in SUBSET Lists /\ u.reason \in Reasons
        /\ u.start \in Nat /\ u.end \in Nat /\ u.kept \in SUBSET Lists
    BY <1>1 DEF UnlockRecords
  <2> DEFINE revoked == u.revoked \cup (u.rules \ present)
             kept == u.kept \cap present
  <2>2. revoked \in SUBSET Lists /\ kept \in SUBSET Lists
    BY <2>1
  <2>3. v = [rules |-> u.rules, revoked |-> revoked, reason |-> u.reason,
             start |-> u.start, end |-> u.end, kept |-> kept]
    BY <1>2
  <2> HIDE DEF v, revoked, kept
  <2> QED
    BY <2>1, <2>2, <2>3 DEF UnlockRecords
<1>4. /\ v.rules = u.rules /\ v.start = u.start /\ v.end = u.end
      /\ v.revoked = u.revoked \cup (u.rules \ present)
      /\ v.kept = u.kept \cap present
  BY <1>2
<1> QED
  BY <1>1, <1>3, <1>4

LEMMA UnlocksStart == UnlocksInit => UnlocksKept
<1> SUFFICES ASSUME UnlocksInit PROVE UnlocksKept
  OBVIOUS
<1>1. lists \in [Lists -> ListRecords \cup {None}]
  BY UnlocksAssumption DEF UnlocksInit
<1> QED
  BY <1>1 DEF UnlocksInit, UnlocksKept, UnlocksTypeOK, OneAnHour, SharesKept

LEMMA UnlocksStep == UnlocksKept /\ [UnlocksNext]_unlockVars => UnlocksKept'
<1> SUFFICES ASSUME UnlocksKept, [UnlocksNext]_unlockVars PROVE UnlocksKept'
  OBVIOUS
<1>0. UnlocksTypeOK /\ OneAnHour /\ SharesKept /\ unlocks \subseteq UnlockRecords
  BY DEF UnlocksKept
<1>1. CASE Tick \/ (\E t \in Threads : Sample(t)) \/ UNCHANGED unlockVars
  <2>1. UNCHANGED <<lists, unlocks>>
    BY <1>1 DEF Tick, Sample, unlockVars
  <2>2. wall' \in Nat /\ edits' \in Nat /\ inflight' \in [Threads -> Nat \cup {Idle}]
    BY <1>0, <1>1 DEF UnlocksTypeOK, Tick, Sample, unlockVars
  <2> QED
    BY <1>0, <2>1, <2>2 DEF UnlocksKept, UnlocksTypeOK, OneAnHour, SharesKept
<1>2. ASSUME NEW t \in Threads, RequestUnlock(t) PROVE UnlocksKept'
  <2> DEFINE n == inflight[t]
  <2>1. n \in Nat
    BY <1>0, <1>2 DEF UnlocksTypeOK, RequestUnlock
  <2>2. UNCHANGED <<wall, lists, edits>> /\ inflight' = [inflight EXCEPT ![t] = Idle]
    BY <1>2 DEF RequestUnlock
  <2>3. inflight' \in [Threads -> Nat \cup {Idle}]
    BY <1>0, <2>2 DEF UnlocksTypeOK
  <2>4. PICK selected \in Selections(n), r \in Reasons :
             \/ unlocks' = unlocks
             \/ /\ selected # {} /\ QuotaLeft(n)
                /\ unlocks' = unlocks \cup {Granted(selected, r, n)}
    BY <1>2 DEF RequestUnlock
  <2>5. CASE unlocks' = unlocks
    BY <1>0, <2>2, <2>3, <2>5 DEF UnlocksKept, UnlocksTypeOK, OneAnHour, SharesKept
  <2>6. CASE /\ selected # {} /\ QuotaLeft(n)
             /\ unlocks' = unlocks \cup {Granted(selected, r, n)}
    <3>1. selected \in SUBSET Lists
      BY <2>4, SelectedAreLists
    <3> HIDE DEF n
    <3>2. /\ \A u \in unlocks' :
                /\ u \in UnlockRecords
                /\ u.rules \subseteq Lists /\ u.rules # {}
                /\ u.revoked \subseteq u.rules /\ u.kept \subseteq u.rules
                /\ u.start \in Nat /\ u.end = u.start + UnlockLength
                /\ u.kept = u.rules \ u.revoked
          /\ OneAnHour'
      BY <2>1, <2>6, <3>1, GrantKeeps
    <3> QED
      BY <1>0, <2>2, <2>3, <3>2 DEF UnlocksKept, UnlocksTypeOK, SharesKept
  <2> QED
    BY <2>4, <2>5, <2>6
<1>3. CASE ReplacePolicy
  <2>0. PICK l \in Lists, record \in ListChoices \cup {None} :
            LET kept == IF record = None THEN Present \ {l} ELSE Present \cup {l}
            IN  /\ lists' = [lists EXCEPT ![l] = record]
                /\ unlocks' = {Revoke(u, kept) :
                                  u \in unlocks}
    BY <1>3 DEF ReplacePolicy
  <2> DEFINE present == IF record = None THEN Present \ {l} ELSE Present \cup {l}
  <2>1. /\ lists' = [lists EXCEPT ![l] = record]
        /\ unlocks' = {Revoke(u, present) :
                          u \in unlocks}
    BY <2>0
  <2> HIDE DEF present
  <2>2. edits' \in Nat /\ wall' \in Nat /\ inflight' \in [Threads -> Nat \cup {Idle}]
    BY <1>0, <1>3 DEF ReplacePolicy, UnlocksTypeOK
  <2>3. lists' \in [Lists -> ListRecords \cup {None}]
    BY <1>0, <2>1, UnlocksAssumption DEF UnlocksTypeOK
  <2>4. ASSUME NEW v \in unlocks'
        PROVE  \E u \in unlocks :
                  /\ v = Revoke(u, present)
                  /\ v \in UnlockRecords
                  /\ v.rules = u.rules /\ v.start = u.start /\ v.end = u.end
                  /\ v.revoked \subseteq v.rules
                  /\ v.kept = v.rules \ v.revoked
    <3>1. PICK u \in unlocks :
              v = Revoke(u, present)
      BY <2>1
    <3>2. /\ v \in UnlockRecords
          /\ v.rules = u.rules /\ v.start = u.start /\ v.end = u.end
          /\ v.revoked \subseteq v.rules
          /\ v.kept = v.rules \ v.revoked
      BY <3>1, RevokeKeeps
    <3> WITNESS u \in unlocks
    <3> QED
      BY <3>1, <3>2
  <2>5. \A v \in unlocks' :
            /\ v \in UnlockRecords
            /\ v.rules \subseteq Lists /\ v.rules # {}
            /\ v.revoked \subseteq v.rules /\ v.kept \subseteq v.rules
            /\ v.start \in Nat /\ v.end = v.start + UnlockLength
            /\ v.kept = v.rules \ v.revoked
    BY <1>0, <2>4 DEF UnlocksTypeOK
  <2>6. OneAnHour'
    <3> SUFFICES ASSUME NEW v \in unlocks', NEW w \in unlocks', v # w
                 PROVE  v.start - w.start > Hour \/ w.start - v.start > Hour
      BY DEF OneAnHour
    <3>1. PICK u \in unlocks :
              /\ v = Revoke(u, present)
              /\ v.start = u.start
      BY <2>4
    <3>2. PICK z \in unlocks :
              /\ w = Revoke(z, present)
              /\ w.start = z.start
      BY <2>4
    <3>3. u # z
      BY <3>1, <3>2
    <3> QED
      BY <1>0, <3>1, <3>2, <3>3 DEF OneAnHour
  <2> QED
    BY <2>2, <2>3, <2>5, <2>6 DEF UnlocksKept, UnlocksTypeOK, SharesKept
<1> QED
  BY <1>1, <1>2, <1>3 DEF UnlocksNext

-----------------------------------------------------------------------------
\* Whatever order requests were timed and served in, no two unlocks are within
\* an hour, and an unlock opens a list exactly as long as the list has been in
\* the policy ever since (request_unlock, replace_policy_config).
THEOREM UnlocksAreRationed == UnlocksSpec => []UnlocksInvariant
<1>1. UnlocksKept => UnlocksInvariant
  BY DEF UnlocksKept, UnlocksInvariant, UnlocksEndWithTheirList, SharesKept, Unlocked,
         UnlocksOf, Present
<1> QED
  BY <1>1, UnlocksStart, UnlocksStep, PTL DEF UnlocksSpec

-----------------------------------------------------------------------------
\* A share that is kept is the one of a list of the policy.
KeptArePresent == \A u \in unlocks : u.kept \subseteq Present

LEMMA SelectedArePresent ==
    ASSUME NEW n, NEW selected \in Selections(n)
    PROVE  selected \subseteq Present
<1>1. \A x \in Targets : TargetLists(x, n) \subseteq Present
  BY DEF TargetLists
<1>2. \A a \in AppNames : NamedLists(a) \subseteq Present
  BY DEF NamedLists
<1> QED
  BY <1>1, <1>2 DEF Selections

\* Which lists are there after an edit of one.
LEMMA PresentAfter ==
    ASSUME UnlocksTypeOK, NEW l \in Lists, NEW record, lists' = [lists EXCEPT ![l] = record]
    PROVE  Present' = IF record = None THEN Present \ {l} ELSE Present \cup {l}
<1>1. \A k \in Lists : lists'[k] = IF k = l THEN record ELSE lists[k]
  BY DEF UnlocksTypeOK
<1> QED
  BY <1>1 DEF Present

LEMMA KeptArePresentStep ==
    UnlocksKept /\ KeptArePresent /\ [UnlocksNext]_unlockVars => KeptArePresent'
<1> SUFFICES ASSUME UnlocksKept, KeptArePresent, [UnlocksNext]_unlockVars
             PROVE  KeptArePresent'
  OBVIOUS
<1>1. CASE Tick \/ (\E t \in Threads : Sample(t)) \/ UNCHANGED unlockVars
  <2>1. UNCHANGED <<lists, unlocks>>
    BY <1>1 DEF Tick, Sample, unlockVars
  <2> QED
    BY <2>1 DEF KeptArePresent, Present
<1>2. ASSUME NEW t \in Threads, RequestUnlock(t) PROVE KeptArePresent'
  <2>1. PICK selected \in Selections(inflight[t]), r \in Reasons :
             /\ lists' = lists
             /\ \/ unlocks' = unlocks
                \/ unlocks' = unlocks \cup {Granted(selected, r, inflight[t])}
    BY <1>2 DEF RequestUnlock
  <2>2. Granted(selected, r, inflight[t]).kept = selected
    BY DEF Granted
  <2>3. selected \subseteq Present /\ Present' = Present
    BY <2>1, SelectedArePresent DEF Present
  <2> QED
    BY <2>1, <2>2, <2>3 DEF KeptArePresent
<1>3. CASE ReplacePolicy
  <2>1. PICK l \in Lists, record \in ListChoices \cup {None} :
            LET present == IF record = None THEN Present \ {l} ELSE Present \cup {l}
            IN  /\ lists' = [lists EXCEPT ![l] = record]
                /\ unlocks' = {Revoke(u, present) : u \in unlocks}
    BY <1>3 DEF ReplacePolicy
  <2>2. Present' = IF record = None THEN Present \ {l} ELSE Present \cup {l}
    BY <2>1, PresentAfter DEF UnlocksKept
  <2>3. unlocks' = {Revoke(u, Present') : u \in unlocks}
    BY <2>1, <2>2
  <2>4. \A u \in unlocks : Revoke(u, Present').kept = u.kept \cap Present'
    <3> SUFFICES ASSUME NEW u \in unlocks
                 PROVE  Revoke(u, Present').kept = u.kept \cap Present'
      OBVIOUS
    <3>1. u \in UnlockRecords
      BY DEF UnlocksKept
    <3> QED
      BY <3>1 DEF Revoke, UnlockRecords
  <2> QED
    BY <2>3, <2>4 DEF KeptArePresent
<1> QED
  BY <1>1, <1>2, <1>3 DEF UnlocksNext

\* A list that blocks a URL: active, for it, and neither unlocked nor within its
\* allowance if it is of Tier 3.
BlocksUrl(record, fits, opened) ==
    /\ fits
    /\ record.tier = "hard" \/ InForce(record)
    /\ record.tier = "controlled" =>
          /\ ~opened
          /\ record.minutes = None \/ record.used >= record.minutes

\* vs is what the engine sees of a policy's lists for a URL.
Sees(vs, records, opened, url) ==
    /\ DOMAIN vs = DOMAIN ListOrder
    /\ \A i \in DOMAIN ListOrder :
          LET l == ListOrder[i]
              list == IF records[l] # None THEN records[l] ELSE NoList
          IN  /\ vs[i].tier = list.tier /\ vs[i].active = list.due
              /\ vs[i].detox = IF list.detox THEN 1 ELSE 0
              /\ vs[i].minutes = list.minutes /\ vs[i].used = list.used
              /\ vs[i].unlocked = (l \in opened)
              /\ vs[i].applies =
                    (records[l] # None /\ l \in SiteLists /\ Fit[url][l] # None)

BlockedByAList(records, opened, url) ==
    \E l \in SiteLists : /\ records[l] # None
                         /\ BlocksUrl(records[l], Fit[url][l] # None, l \in opened)

\* When the engine blocks, by the lists.
LEMMA SeenBlocked ==
    ASSUME NEW records \in [Lists -> ListRecords \cup {None}], NEW opened, NEW url,
           NEW vs, Sees(vs, records, opened, url)
    PROVE  Evaluate(vs, FALSE) # Allow <=> BlockedByAList(records, opened, url)
<1> DEFINE BlocksAt(i) == i \in Applying(vs, "hard") \cup InDetox(vs) \cup Due(vs)
                                   \cup BlockingControlled(vs, FALSE)
<1>1. ListOrder \in Seq(Lists) /\ \A l \in Lists : \E i \in DOMAIN ListOrder : ListOrder[i] = l
  BY UnlocksAssumption
<1>2. ASSUME NEW i \in DOMAIN ListOrder
      PROVE  BlocksAt(i) <=> /\ ListOrder[i] \in SiteLists /\ records[ListOrder[i]] # None
                             /\ BlocksUrl(records[ListOrder[i]], Fit[url][ListOrder[i]] # None,
                                          ListOrder[i] \in opened)
  <2> DEFINE l == ListOrder[i]
             v == vs[i]
             record == records[l]
             there == record # None /\ l \in SiteLists /\ Fit[url][l] # None
  <2>1. BlocksAt(i) <=> /\ v.applies
                        /\ \/ v.tier = "hard"
                           \/ v.tier = "scheduled" /\ ControlledActive(v)
                           \/ /\ v.tier = "controlled" /\ ControlledActive(v)
                              /\ ControlledBlocks(v, FALSE)
    <3>1. /\ i \in Applying(vs, "hard") <=> v.applies /\ v.tier = "hard"
          /\ i \in InDetox(vs) <=> v.applies /\ v.tier = "scheduled" /\ v.detox # 0
          /\ i \in Due(vs) <=> v.applies /\ v.tier = "scheduled" /\ v.active
          /\ i \in BlockingControlled(vs, FALSE) <=>
                /\ v.applies /\ v.tier = "controlled" /\ ControlledActive(v)
                /\ ControlledBlocks(v, FALSE)
      BY Zenon DEF Sees, Applying, InDetox, Due, BlockingControlled, ActiveControlled
    <3>2. BlocksAt(i) <=> \/ i \in Applying(vs, "hard") \/ i \in InDetox(vs)
                          \/ i \in Due(vs) \/ i \in BlockingControlled(vs, FALSE)
      OBVIOUS
    <3>3. ControlledActive(v) <=> v.active \/ v.detox # 0
      BY Zenon DEF ControlledActive
    <3> HIDE DEF v, BlocksAt
    <3> QED
      BY <3>1, <3>2, <3>3
  <2>2. v.applies = there /\ v.unlocked = (l \in opened)
    BY DEF Sees
  <2>3. ASSUME there
        PROVE  /\ v.tier = record.tier /\ v.active = record.due
               /\ v.detox = IF record.detox THEN 1 ELSE 0
               /\ v.minutes = record.minutes /\ v.used = record.used
               /\ record.tier \in {"hard", "scheduled", "controlled"}
               /\ record.due \in BOOLEAN
    <3>1. l \in Lists /\ record \in ListRecords
      BY <1>1, <2>3
    <3>2. record.tier \in {"hard", "scheduled", "controlled"} /\ record.due \in BOOLEAN
      BY <3>1 DEF ListRecords
    <3> QED
      BY <2>3, <3>2 DEF Sees
  <2>4. BlocksUrl(record, Fit[url][l] # None, l \in opened) <=>
           /\ Fit[url][l] # None
           /\ record.tier = "hard" \/ record.due \/ record.detox
           /\ record.tier = "controlled" =>
                 /\ l \notin opened
                 /\ record.minutes = None \/ record.used >= record.minutes
    BY Zenon DEF BlocksUrl, InForce
  <2>5. ASSUME there PROVE ControlledActive(v) <=> record.due \/ record.detox
    BY <2>3, <2>5 DEF ControlledActive
  <2>6. ControlledBlocks(v, FALSE) <=>
            l \notin opened /\ (v.minutes = None \/ v.used >= v.minutes)
    BY <2>2, Zenon DEF ControlledBlocks
  <2> HIDE DEF v, record, BlocksAt, l
  <2>7. BlocksAt(i) <=> /\ l \in SiteLists /\ record # None
                        /\ BlocksUrl(record, Fit[url][l] # None, l \in opened)
    BY <2>1, <2>2, <2>3, <2>4, <2>5, <2>6
  <2> QED
    BY <2>7 DEF record, l
<1>4. Evaluate(vs, FALSE) # Allow <=> \E i \in DOMAIN ListOrder : BlocksAt(i)
  <2>1. /\ Applying(vs, "hard") \subseteq DOMAIN ListOrder /\ Due(vs) \subseteq DOMAIN ListOrder
        /\ BlockingControlled(vs, FALSE) \subseteq DOMAIN ListOrder
        /\ InDetox(vs) \subseteq DOMAIN ListOrder
    BY DEF Sees, Applying, InDetox, Due, BlockingControlled, ActiveControlled
  <2>2. Evaluate(vs, FALSE) # Allow <=>
           \/ Applying(vs, "hard") # {} \/ InDetox(vs) # {} \/ Due(vs) # {}
           \/ BlockingControlled(vs, FALSE) # {}
    BY AllowedByAll, Zenon DEF Held
  <2> QED
    BY <2>1, <2>2
<1> HIDE DEF BlocksAt
<1>5. \A l \in SiteLists : l \in Lists
  BY DEF Lists
<1>6. ASSUME NEW i \in DOMAIN ListOrder, BlocksAt(i)
      PROVE  \E l \in SiteLists : /\ records[l] # None
                                  /\ BlocksUrl(records[l], Fit[url][l] # None, l \in opened)
  BY <1>2, <1>6
<1>7. ASSUME NEW l \in SiteLists, records[l] # None,
             BlocksUrl(records[l], Fit[url][l] # None, l \in opened)
      PROVE  \E i \in DOMAIN ListOrder : BlocksAt(i)
  <2>1. PICK i \in DOMAIN ListOrder : ListOrder[i] = l
    BY <1>1, <1>5
  <2> QED
    BY <1>2, <1>7, <2>1
<1> QED
  BY <1>4, <1>6, <1>7 DEF BlockedByAList

\* What a list is unlocked by after a grant: the grant, or what it was before.
LEMMA OpenedByGrant ==
    ASSUME UnlocksKept, NEW selected \in SUBSET Lists, NEW r \in Reasons, NEW l \in Lists,
           wall' = wall, unlocks' = unlocks \cup {Granted(selected, r, wall)}
    PROVE  Unlocked(l, wall)' <=> Unlocked(l, wall) \/ l \in selected
<1> DEFINE g == Granted(selected, r, wall)
<1>1. g.rules = selected /\ g.revoked = {} /\ g.end = wall + UnlockLength
  BY DEF Granted
<1>2. g.end > wall
  BY <1>1, UnlocksAssumption DEF UnlocksKept, UnlocksTypeOK
<1>3. unlocks' = unlocks \cup {g}
  OBVIOUS
<1> HIDE DEF g
<1> QED
  BY <1>1, <1>2, <1>3 DEF Unlocked, UnlocksOf

LEMMA GrantOpensItsLists ==
    ASSUME UnlocksKept, KeptArePresent, [UnlocksNext]_unlockVars
    PROVE  [GrantsAlone]_unlockVars
<1> SUFFICES ASSUME UnlocksNext, NEW u \in unlocks' \ unlocks,
                    u.start = wall, lists' = lists, NEW url \in Urls
             PROVE  Blocked(url, wall)' <=>
                       StrictBlockers(url) # {} \/ ~(Blockers(url) \subseteq u.rules)
  BY DEF GrantsAlone
<1>1. \E t \in Threads : RequestUnlock(t)
  <2>1. ~Tick /\ \A t \in Threads : ~Sample(t)
    BY DEF Tick, Sample
  <2>2. ~ReplacePolicy
    <3> SUFFICES ASSUME ReplacePolicy PROVE FALSE
      OBVIOUS
    <3>1. PICK l \in Lists, record \in ListChoices \cup {None} :
              LET present == IF record = None THEN Present \ {l} ELSE Present \cup {l}
              IN  /\ lists' = [lists EXCEPT ![l] = record]
                  /\ unlocks' = {Revoke(v, present) : v \in unlocks}
      BY DEF ReplacePolicy
    <3>2. unlocks' = {Revoke(v, Present) : v \in unlocks}
      <4>1. Present' = Present
        BY DEF Present
      <4>2. Present' = IF record = None THEN Present \ {l} ELSE Present \cup {l}
        BY <3>1, PresentAfter DEF UnlocksKept
      <4> QED
        BY <3>1, <4>1, <4>2
    <3>3. PICK v \in unlocks : u = Revoke(v, Present)
      BY <3>2
    <3>4. Revoke(v, Present) = v
      <4>1. v \in UnlockRecords /\ v.kept = v.rules \ v.revoked /\ v.kept \subseteq Present
        BY DEF UnlocksKept, SharesKept, KeptArePresent
      <4>2. v.revoked \cup (v.rules \ Present) = v.revoked /\ v.kept \cap Present = v.kept
        BY <4>1
      <4>3. Revoke(v, Present) = [v EXCEPT !.revoked = v.revoked, !.kept = v.kept]
        BY <4>2, Zenon DEF Revoke
      <4> QED
        BY <4>1, <4>3 DEF UnlockRecords
    <3> QED
      BY <3>3, <3>4
  <2> QED
    BY <2>1, <2>2 DEF UnlocksNext
<1>0. PICK t \in Threads : RequestUnlock(t)
  BY <1>1
<1>2. PICK selected \in Selections(inflight[t]), r \in Reasons :
          /\ wall' = wall
          /\ unlocks' = unlocks \cup {Granted(selected, r, inflight[t])}
  BY <1>0 DEF RequestUnlock
<1>3. u = Granted(selected, r, inflight[t])
  BY <1>2
<1>4. inflight[t] = wall /\ u.rules = selected
  BY <1>3 DEF Granted
<1>5. selected \in SUBSET Lists /\ unlocks' = unlocks \cup {Granted(selected, r, wall)}
  BY <1>2, <1>4, SelectedAreLists
<1>6. \A l \in Lists : Unlocked(l, wall)' <=> Unlocked(l, wall) \/ l \in u.rules
  BY <1>2, <1>4, <1>5, OpenedByGrant
<1> DEFINE opened == {l \in Lists : Unlocked(l, wall)'}
           vs == Views(SiteFit(url), wall)'
<1>7. lists \in [Lists -> ListRecords \cup {None}] /\ ListOrder \in Seq(Lists)
  BY UnlocksAssumption DEF UnlocksKept, UnlocksTypeOK
<1>8. \A i \in DOMAIN ListOrder :
          ListOrder[i] \in Lists /\ (ListOrder[i] \in Present <=> lists[ListOrder[i]] # None)
  BY <1>7 DEF Present
<1>9. Sees(vs, lists, opened, url)
  <2>1. \A l \in Lists : SiteFit(url)[l] # None <=> l \in SiteLists /\ Fit[url][l] # None
    BY DEF SiteFit
  <2>2. vs = [i \in DOMAIN ListOrder |->
                LET l == ListOrder[i]
                    there == lists[l] # None
                    list == IF there THEN lists[l] ELSE NoList
                IN  [id |-> l, tier |-> list.tier,
                     applies |-> there /\ SiteFit(url)[l] # None,
                     active |-> list.due, detox |-> IF list.detox THEN 1 ELSE 0,
                     minutes |-> list.minutes, used |-> list.used,
                     unlocked |-> Unlocked(l, wall)', specificity |-> SiteFit(url)[l]]]
    BY DEF Views, SiteFit
  <2> HIDE DEF vs
  <2>3. \A l \in Lists : Unlocked(l, wall)' = (l \in opened)
    BY DEF Unlocked
  <2> HIDE DEF opened
  <2> QED
    BY <1>8, <2>1, <2>2, <2>3 DEF Sees
<1>10. Blocked(url, wall)' <=> Evaluate(vs, FALSE) # Allow
  BY DEF Blocked
<1> HIDE DEF vs, opened
<1>11. Blocked(url, wall)' <=>
          \E l \in SiteLists : /\ lists[l] # None
                               /\ BlocksUrl(lists[l], Fit[url][l] # None, l \in opened)
  <2>1. Evaluate(vs, FALSE) # Allow <=> BlockedByAList(lists, opened, url)
    BY <1>7, <1>9, SeenBlocked
  <2> QED
    BY <1>10, <2>1, Zenon DEF BlockedByAList
<1>12. ASSUME NEW l \in SiteLists
       PROVE  (lists[l] # None /\ BlocksUrl(lists[l], Fit[url][l] # None, l \in opened))
                 <=> l \in Blockers(url) /\ (lists[l].tier # "controlled" \/ l \notin u.rules)
  <2>1. l \in Lists /\ (l \in opened <=> Unlocked(l, wall) \/ l \in u.rules)
    BY <1>6 DEF Lists, opened
  <2>2. l \in Blockers(url) <=>
            lists[l] # None /\ BlocksUrl(lists[l], Fit[url][l] # None, Unlocked(l, wall))
    BY <2>1 DEF Present, Blockers, BlocksUrl
  <2> QED
    BY <2>1, <2>2, Zenon DEF BlocksUrl
<1>13. \A l \in Blockers(url) : l \in SiteLists
  BY DEF Blockers
<1> QED
  BY <1>11, <1>12, <1>13 DEF StrictBlockers

\* Whatever the lists, and however requests and edits of the policy are served: a
\* grant opens the URLs the lists it names were alone in blocking, and no other
\* (request_unlock, evaluate_url).
THEOREM UnlockOpensItsLists == UnlocksSpec => OpensItsListsAlone
<1>1. UnlocksInit => KeptArePresent
  BY DEF UnlocksInit, KeptArePresent
<1> QED
  BY <1>1, UnlocksStart, UnlocksStep, KeptArePresentStep, GrantOpensItsLists, PTL
     DEF UnlocksSpec, OpensItsListsAlone

-----------------------------------------------------------------------------
(* The clock guard.  Types hold with any tools beside the daemon; what it   *)
(* promises takes the daemon alone.                                         *)

Sampled == {"state", "wall", "store"}

\* The time the machine was started, for what is sampled in this boot.
Booted == real - clock.up

\* A check's sample of the uptime is as old as the check is late.
SampleFits(c) ==
    c.at \in Sampled =>
        /\ c.boot = clock.boot
        /\ clock.up - c.late <= c.up /\ c.up <= clock.up

\* What a check has read of the rows is what they say: nobody else writes them.
ReadFits(c) ==
    /\ c.at \in Sampled => (stored.boot = c.boot => stored.up <= c.up)
    /\ c.at \in {"wall", "store"} => c.state = stored.state
    /\ c.at = "store" => c.lastWall = stored.wall

\* How far the wall clock may have moved from the uptime since the Detox began,
\* a sample of a wall clock and an uptime apart.
Drifted(shown, up) == shown - detox.starts - (up + Booted - detox.begun)

Within(drifted, checks) ==
    /\ -(checks * MaxDrift) <= drifted
    /\ drifted <= checks * MaxDrift + MaxPause

DetoxKept ==
    detox # None =>
        /\ detox.ends = detox.starts + Duration
        /\ detox.boot <= clock.boot
        /\ detox.checks <= count.checks
        /\ clock.boot = detox.boot =>
               /\ stored.boot = clock.boot
               /\ stored.state = "ok" =>
                     Within(Drifted(stored.wall, stored.up), count.checks - detox.checks)

\* With nobody setting the clock, the two clocks agree but for what a check is
\* held up between them.
Agree(shown, up) == shown <= up + Booted /\ up + Booted <= shown + MaxPause

Unset ==
    /\ clock.wall = real
    /\ stored.state = "ok" /\ stored.wall <= real
    /\ stored.boot = clock.boot => Agree(stored.wall, stored.up)
    /\ LET c == check[Daemon]
       IN  /\ c.at # "idle" => stored.wall <= c.wall /\ c.wall + c.late = real
           /\ c.at \in Sampled => Agree(c.wall, c.up)

ClockTypesKept == ClockTypeOK /\ \A p \in Processes : SampleFits(check[p])

ClockKept ==
    /\ ClockTypesKept
    /\ ReadFits(check[Daemon])
    /\ DetoxKept
    /\ (MaxPause <= MaxDrift /\ count.adjustments = 0) => Unset

-----------------------------------------------------------------------------
(* One process moves on in its check.                                       *)

LEMMA CheckMoves ==
    ASSUME check \in [Processes -> Checks], NEW p \in Processes, NEW c \in Checks,
           check' = [check EXCEPT ![p] = c]
    PROVE  /\ check' \in [Processes -> Checks] /\ check'[p] = c
           /\ \A q \in Processes : q # p => check'[q] = check[q]
OBVIOUS

LEMMA IdleIsACheck ==
    NotChecking \in Checks /\ NotChecking.at = "idle" /\ NotChecking.late = 0
BY ClockAssumption DEF NotChecking, Checks, States

LEMMA SampleWallMoves ==
    ASSUME ClockTypeOK, NEW p \in Processes, SampleWall(p)
    PROVE  \E c \in Checks :
              /\ check' = [check EXCEPT ![p] = c]
              /\ check[p].at = "idle" /\ c.at = "uptime" /\ c.wall = clock.wall
              /\ c.late = 0
<1> DEFINE c == [NotChecking EXCEPT !.at = "uptime", !.wall = clock.wall]
<1>1. clock.wall \in Int
  BY DEF ClockTypeOK
<1>2. c \in Checks
  BY <1>1, IdleIsACheck DEF Checks
<1>3. c.at = "uptime" /\ c.wall = clock.wall /\ c.late = 0
  BY IdleIsACheck DEF Checks
<1>4. check' = [check EXCEPT ![p] = c] /\ check[p].at = "idle"
  BY DEF SampleWall
<1> HIDE DEF c
<1> QED
  BY <1>2, <1>3, <1>4

LEMMA SampleUptimeMoves ==
    ASSUME ClockTypeOK, NEW p \in Processes, SampleUptime(p)
    PROVE  \E c \in Checks :
              /\ check' = [check EXCEPT ![p] = c]
              /\ check[p].at = "uptime" /\ c.at = "state"
              /\ c.boot = clock.boot /\ c.up = clock.up
              /\ c.wall = check[p].wall /\ c.late = check[p].late
<1> DEFINE c == [check[p] EXCEPT !.at = "state", !.boot = clock.boot, !.up = clock.up]
<1>1. check[p] \in Checks /\ clock.boot \in Nat /\ clock.up \in Nat
  BY DEF ClockTypeOK
<1>2. c \in Checks
  BY <1>1 DEF Checks
<1>3. /\ c.at = "state" /\ c.boot = clock.boot /\ c.up = clock.up
      /\ c.wall = check[p].wall /\ c.late = check[p].late
  BY <1>1 DEF Checks
<1>4. check' = [check EXCEPT ![p] = c] /\ check[p].at = "uptime"
  BY DEF SampleUptime, ClockTypeOK
<1> HIDE DEF c
<1> QED
  BY <1>2, <1>3, <1>4

LEMMA ReadStateMoves ==
    ASSUME ClockTypeOK, NEW p \in Processes, ReadState(p)
    PROVE  \E c \in Checks :
              /\ check' = [check EXCEPT ![p] = c]
              /\ check[p].at = "state" /\ c.at = "wall" /\ c.state = stored.state
              /\ c.boot = check[p].boot /\ c.up = check[p].up
              /\ c.wall = check[p].wall /\ c.late = check[p].late
<1> DEFINE c == [check[p] EXCEPT !.at = "wall", !.state = stored.state]
<1>1. check[p] \in Checks /\ stored.state \in States
  BY DEF ClockTypeOK, Samples
<1>2. c \in Checks
  BY <1>1 DEF Checks
<1>3. /\ c.at = "wall" /\ c.state = stored.state
      /\ c.boot = check[p].boot /\ c.up = check[p].up
      /\ c.wall = check[p].wall /\ c.late = check[p].late
  BY <1>1 DEF Checks
<1>4. check' = [check EXCEPT ![p] = c] /\ check[p].at = "state"
  BY DEF ReadState, ClockTypeOK
<1> HIDE DEF c
<1> QED
  BY <1>2, <1>3, <1>4

LEMMA ReadWallMoves ==
    ASSUME ClockTypeOK, NEW p \in Processes, ReadWall(p)
    PROVE  \E c \in Checks :
              /\ check' = [check EXCEPT ![p] = c]
              /\ check[p].at = "wall" /\ c.at = "store" /\ c.lastWall = stored.wall
              /\ c.boot = check[p].boot /\ c.up = check[p].up /\ c.state = check[p].state
              /\ c.wall = check[p].wall /\ c.late = check[p].late
<1> DEFINE c == [check[p] EXCEPT !.at = "store", !.lastWall = stored.wall]
<1>1. check[p] \in Checks /\ stored.wall \in Int
  BY DEF ClockTypeOK, Samples
<1>2. c \in Checks
  BY <1>1 DEF Checks
<1>3. /\ c.at = "store" /\ c.lastWall = stored.wall
      /\ c.boot = check[p].boot /\ c.up = check[p].up /\ c.state = check[p].state
      /\ c.wall = check[p].wall /\ c.late = check[p].late
  BY <1>1 DEF Checks
<1>4. check' = [check EXCEPT ![p] = c] /\ check[p].at = "wall"
  BY DEF ReadWall, ClockTypeOK
<1> HIDE DEF c
<1> QED
  BY <1>2, <1>3, <1>4

\* Time passes: every check under way is a unit later.
LEMMA ElapseMoves ==
    ASSUME ClockTypeOK, Elapse
    PROVE  /\ check' \in [Processes -> Checks]
           /\ \A p \in Processes :
                 /\ check'[p].at = check[p].at /\ check'[p].wall = check[p].wall
                 /\ check'[p].boot = check[p].boot /\ check'[p].up = check[p].up
                 /\ check'[p].state = check[p].state
                 /\ check'[p].lastWall = check[p].lastWall
                 /\ check[p].at # "idle" => check'[p].late = check[p].late + 1
           /\ clock' \in [boot : Nat, up : Nat, wall : Int]
           /\ clock'.boot = clock.boot /\ clock'.up = clock.up + 1
           /\ clock'.wall = clock.wall + 1
           /\ real' = real + 1
           /\ UNCHANGED <<stored, detox, enforced, count>>
<1>1. /\ clock' \in [boot : Nat, up : Nat, wall : Int]
      /\ clock'.boot = clock.boot /\ clock'.up = clock.up + 1
      /\ clock'.wall = clock.wall + 1
  <2>1. clock \in [boot : Nat, up : Nat, wall : Int]
    BY DEF ClockTypeOK
  <2> DEFINE up == clock.up + 1
             shown == clock.wall + 1
  <2>2. clock' = [clock EXCEPT !.up = up, !.wall = shown]
    BY DEF Elapse
  <2>3. up \in Nat /\ shown \in Int
    BY <2>1
  <2>4. up = clock.up + 1 /\ shown = clock.wall + 1
    OBVIOUS
  <2> HIDE DEF up, shown
  <2>5. /\ clock' \in [boot : Nat, up : Nat, wall : Int]
        /\ clock'.boot = clock.boot /\ clock'.up = up /\ clock'.wall = shown
    BY <2>1, <2>2, <2>3
  <2> QED
    BY <2>4, <2>5
<1>2. ASSUME NEW p \in Processes
      PROVE  /\ check'[p] \in Checks
             /\ check'[p].at = check[p].at /\ check'[p].wall = check[p].wall
             /\ check'[p].boot = check[p].boot /\ check'[p].up = check[p].up
             /\ check'[p].state = check[p].state
             /\ check'[p].lastWall = check[p].lastWall
             /\ check[p].at # "idle" => check'[p].late = check[p].late + 1
  <2>1. check[p] \in Checks
    BY DEF ClockTypeOK
  <2>2. CASE check[p].at # "idle"
    <3>1. check'[p] = [check[p] EXCEPT !.late = @ + 1] /\ check[p].late < MaxPause
      BY <2>2 DEF Elapse, Busy
    <3>2. check[p].late + 1 \in 0 .. MaxPause
      BY <2>1, <3>1, ClockAssumption DEF Checks
    <3> QED
      BY <2>1, <3>1, <3>2 DEF Checks
  <2>3. CASE check[p].at = "idle"
    <3>1. check'[p] = check[p]
      BY <2>3 DEF Elapse, Busy
    <3> QED
      BY <2>1, <2>3, <3>1
  <2> QED
    BY <2>2, <2>3
<1>3. check' \in [Processes -> Checks]
  <2> DEFINE later(p) == IF Busy(p) THEN [check[p] EXCEPT !.late = @ + 1] ELSE check[p]
  <2>1. check' = [p \in Processes |-> later(p)]
    BY DEF Elapse
  <2> HIDE DEF later
  <2> QED
    BY <1>2, <2>1
<1> QED
  BY <1>1, <1>2, <1>3 DEF Elapse


\* A check is stored: the sample becomes the last one.
LEMMA StoreMoves ==
    ASSUME ClockTypeOK, NEW p \in Processes, Store(p)
    PROVE  LET c == check[p]
               state == NextState(c.state, c, [stored EXCEPT !.wall = c.lastWall])
           IN  /\ c.at = "store" /\ state \in States
               /\ check' = [check EXCEPT ![p] = NotChecking]
               /\ stored' \in Samples
               /\ stored'.state = state /\ stored'.wall = c.wall
               /\ stored'.boot = c.boot /\ stored'.up = c.up
               /\ count' \in [{"adjustments", "checks"} -> Nat]
               /\ count'["adjustments"] = count["adjustments"]
               /\ count'["checks"] = count["checks"] + 1
               /\ UNCHANGED <<clock, real>>
               /\ \/ /\ detox' = detox
                     /\ enforced' = [enforced EXCEPT ![p] = Keeps(state, c.wall)]
                  \/ /\ detox = None /\ state = "ok" /\ enforced' = enforced
                     /\ detox' = [starts |-> c.wall, ends |-> c.wall + Duration,
                                  begun |-> real, boot |-> c.boot,
                                  checks |-> count["checks"] + 1]
<1> DEFINE c == check[p]
           state == NextState(c.state, c, [stored EXCEPT !.wall = c.lastWall])
<1>1. state \in States
  BY DEF NextState, States
<1>2. c \in Checks
  BY DEF ClockTypeOK
<1>3. /\ c.at = "store"
      /\ check' = [check EXCEPT ![p] = NotChecking]
      /\ stored' = [state |-> state, wall |-> c.wall, boot |-> c.boot, up |-> c.up]
      /\ count' = [count EXCEPT !.checks = @ + 1]
      /\ UNCHANGED <<clock, real>>
      /\ \/ /\ detox' = detox
            /\ enforced' = [enforced EXCEPT ![p] = Keeps(state, c.wall)]
         \/ /\ detox = None /\ state = "ok" /\ enforced' = enforced
            /\ detox' = [starts |-> c.wall, ends |-> c.wall + Duration,
                         begun |-> real, boot |-> c.boot,
                         checks |-> count["checks"] + 1]
  BY DEF Store
<1> HIDE DEF state, c
<1>4. /\ stored' \in Samples
      /\ stored'.state = state /\ stored'.wall = c.wall
      /\ stored'.boot = c.boot /\ stored'.up = c.up
  BY <1>1, <1>2, <1>3 DEF Samples, Checks
<1>5. /\ count' \in [{"adjustments", "checks"} -> Nat]
      /\ count'["adjustments"] = count["adjustments"]
      /\ count'["checks"] = count["checks"] + 1
  <2>1. count \in [{"adjustments", "checks"} -> Nat]
    BY DEF ClockTypeOK
  <2> QED
    BY <1>3, <2>1
<1> QED
  BY <1>1, <1>3, <1>4, <1>5 DEF state, c

-----------------------------------------------------------------------------
(* Types, with any tools.                                                   *)

LEMMA TypesInit == ClockInit => ClockTypesKept
<1> SUFFICES ASSUME ClockInit PROVE ClockTypesKept
  OBVIOUS
<1>1. check \in [Processes -> Checks] /\ \A p \in Processes : check[p] = NotChecking
  BY IdleIsACheck DEF ClockInit
<1>2. \A p \in Processes : SampleFits(check[p])
  BY <1>1, IdleIsACheck DEF SampleFits, Sampled
<1>3. ClockTypeOK
  BY <1>1 DEF ClockInit, ClockTypeOK, Samples, States
<1> QED
  BY <1>2, <1>3 DEF ClockTypesKept

\* A step of one process that leaves the machine and the rows alone.
LEMMA ReadingKeepsTypes ==
    ASSUME ClockTypesKept, NEW p \in Processes, NEW c \in Checks,
           check' = [check EXCEPT ![p] = c], SampleFits(c),
           UNCHANGED <<clock, real, stored, detox, enforced, count>>
    PROVE  ClockTypesKept'
<1>1. /\ check' \in [Processes -> Checks] /\ check'[p] = c
      /\ \A q \in Processes : q # p => check'[q] = check[q]
  BY CheckMoves DEF ClockTypesKept, ClockTypeOK
<1>2. \A q \in Processes : SampleFits(check'[q])
  BY <1>1 DEF ClockTypesKept
<1>3. \A q \in Processes : SampleFits(check[q])'
  BY <1>2 DEF SampleFits
<1> QED
  BY <1>1, <1>3 DEF ClockTypesKept, ClockTypeOK

LEMMA TypesStep == ClockTypesKept /\ [ClockNext]_clockVars => ClockTypesKept'
<1> SUFFICES ASSUME ClockTypesKept, [ClockNext]_clockVars PROVE ClockTypesKept'
  OBVIOUS
<1>0. ClockTypeOK /\ \A p \in Processes : SampleFits(check[p]) /\ check[p] \in Checks
  BY DEF ClockTypesKept, ClockTypeOK
<1>1. CASE Elapse
  <2>1. /\ check' \in [Processes -> Checks]
        /\ \A p \in Processes :
              /\ check'[p].at = check[p].at
              /\ check'[p].boot = check[p].boot /\ check'[p].up = check[p].up
              /\ check[p].at # "idle" => check'[p].late = check[p].late + 1
        /\ clock' \in [boot : Nat, up : Nat, wall : Int]
        /\ clock'.boot = clock.boot /\ clock'.up = clock.up + 1
        /\ real' = real + 1
        /\ UNCHANGED <<stored, detox, enforced, count>>
    BY <1>0, <1>1, ElapseMoves
  <2>2. ASSUME NEW p \in Processes PROVE SampleFits(check[p])'
    <3>1. clock.up \in Nat /\ check[p].late \in Int /\ check[p].up \in Int
      BY <1>0 DEF ClockTypeOK, Checks
    <3> QED
      BY <1>0, <2>1, <3>1 DEF SampleFits, Sampled
  <2>3. stored'.boot <= clock'.boot /\ (stored'.boot = clock'.boot => stored'.up <= clock'.up)
    <3>1. clock.up \in Nat /\ stored.up \in Nat
      BY <1>0 DEF ClockTypeOK, Samples
    <3> QED
      BY <1>0, <2>1, <3>1 DEF ClockTypeOK
  <2>4. real' \in Nat
    BY <1>0, <2>1 DEF ClockTypeOK
  <2> QED
    BY <1>0, <2>1, <2>2, <2>3, <2>4 DEF ClockTypesKept, ClockTypeOK
<1>2. CASE Reboot
  <2>1. /\ check' \in [Processes -> Checks]
        /\ \A p \in Processes : check'[p] = NotChecking
    BY <1>2, IdleIsACheck DEF Reboot
  <2>2. clock' = [boot |-> clock.boot + 1, up |-> 0, wall |-> clock.wall + 1]
        /\ real' = real + 1 /\ UNCHANGED <<stored, detox, enforced, count>>
    BY <1>2 DEF Reboot
  <2>3. clock.boot \in Nat /\ clock.wall \in Int /\ stored.boot \in Nat
        /\ real \in Nat /\ stored.boot <= clock.boot
    BY <1>0 DEF ClockTypeOK, Samples
  <2>4. clock' \in [boot : Nat, up : Nat, wall : Int] /\ real' \in Nat
        /\ stored'.boot <= clock'.boot /\ stored'.boot # clock'.boot
    BY <2>2, <2>3
  <2>5. \A p \in Processes : SampleFits(check[p])'
    BY <2>1, IdleIsACheck DEF SampleFits, Sampled
  <2> QED
    BY <1>0, <2>1, <2>2, <2>4, <2>5 DEF ClockTypesKept, ClockTypeOK
<1>3. ASSUME NEW d \in Adjustments, Adjust(d) PROVE ClockTypesKept'
  <2>1. clock' = [clock EXCEPT !.wall = @ + d]
        /\ count' = [count EXCEPT !.adjustments = @ + 1]
        /\ UNCHANGED <<real, stored, check, detox, enforced>>
    BY <1>3 DEF Adjust
  <2>2. clock' \in [boot : Nat, up : Nat, wall : Int]
        /\ clock'.boot = clock.boot /\ clock'.up = clock.up
    <3>1. clock \in [boot : Nat, up : Nat, wall : Int] /\ d \in Int
      BY <1>0, ClockAssumption DEF ClockTypeOK
    <3> QED
      BY <2>1, <3>1
  <2>3. count' \in [{"adjustments", "checks"} -> Nat]
    BY <1>0, <2>1 DEF ClockTypeOK
  <2>4. \A p \in Processes : SampleFits(check[p])'
    BY <1>0, <2>1, <2>2 DEF SampleFits
  <2> QED
    BY <1>0, <2>1, <2>2, <2>3, <2>4 DEF ClockTypesKept, ClockTypeOK
<1>4. ASSUME NEW p \in Processes, SampleWall(p) PROVE ClockTypesKept'
  <2>1. PICK c \in Checks : check' = [check EXCEPT ![p] = c] /\ c.at = "uptime"
    BY <1>0, <1>4, SampleWallMoves
  <2>2. SampleFits(c)
    BY <2>1 DEF SampleFits, Sampled
  <2>3. UNCHANGED <<clock, real, stored, detox, enforced, count>>
    BY <1>4 DEF SampleWall
  <2> QED
    BY <2>1, <2>2, <2>3, ReadingKeepsTypes
<1>5. ASSUME NEW p \in Processes, SampleUptime(p) PROVE ClockTypesKept'
  <2>1. PICK c \in Checks : /\ check' = [check EXCEPT ![p] = c]
                           /\ c.boot = clock.boot /\ c.up = clock.up
    BY <1>0, <1>5, SampleUptimeMoves
  <2>2. SampleFits(c)
    BY <1>0, <2>1 DEF SampleFits, Sampled, ClockTypeOK, Checks
  <2>3. UNCHANGED <<clock, real, stored, detox, enforced, count>>
    BY <1>5 DEF SampleUptime
  <2> QED
    BY <2>1, <2>2, <2>3, ReadingKeepsTypes
<1>6. ASSUME NEW p \in Processes, ReadState(p) \/ ReadWall(p) PROVE ClockTypesKept'
  <2>1. PICK c \in Checks :
            /\ check' = [check EXCEPT ![p] = c]
            /\ check[p].at \in Sampled
            /\ c.boot = check[p].boot /\ c.up = check[p].up /\ c.late = check[p].late
    BY <1>0, <1>6, ReadStateMoves, ReadWallMoves DEF Sampled
  <2>2. SampleFits(c)
    BY <1>0, <2>1 DEF SampleFits
  <2>3. UNCHANGED <<clock, real, stored, detox, enforced, count>>
    BY <1>6 DEF ReadState, ReadWall
  <2> QED
    BY <2>1, <2>2, <2>3, ReadingKeepsTypes
<1>7. ASSUME NEW p \in Processes, Store(p) PROVE ClockTypesKept'
  <2>1. /\ check[p].at = "store"
        /\ check' = [check EXCEPT ![p] = NotChecking]
        /\ stored' \in Samples
        /\ stored'.boot = check[p].boot /\ stored'.up = check[p].up
        /\ count' \in [{"adjustments", "checks"} -> Nat]
        /\ UNCHANGED <<clock, real>>
    BY <1>0, <1>7, StoreMoves
  <2>2. stored'.boot = clock'.boot /\ stored'.up <= clock'.up
    BY <1>0, <2>1 DEF SampleFits, Sampled
  <2>3. detox' \in Detoxes \cup {None} /\ enforced' \in [Processes -> BOOLEAN]
    <3>1. check[p].wall \in Int /\ check[p].boot \in Nat /\ real \in Nat
          /\ count["checks"] + 1 \in Nat /\ check[p].wall + Duration \in Int
      BY <1>0, ClockAssumption DEF ClockTypeOK, Checks
    <3>2. \A state, shown : Keeps(state, shown) \in BOOLEAN
      BY DEF Keeps
    <3>3. CASE detox' = detox
      BY <1>0, <1>7, <3>2, <3>3 DEF ClockTypeOK, Store
    <3>4. CASE enforced' = enforced
               /\ detox' = [starts |-> check[p].wall, ends |-> check[p].wall + Duration,
                            begun |-> real, boot |-> check[p].boot,
                            checks |-> count["checks"] + 1]
      BY <1>0, <3>1, <3>4 DEF ClockTypeOK, Detoxes
    <3> QED
      BY <1>0, <1>7, <3>3, <3>4, StoreMoves
  <2>4. ASSUME NEW q \in Processes PROVE SampleFits(check'[q])
    <3>1. SampleFits(NotChecking)
      BY IdleIsACheck DEF SampleFits, Sampled
    <3>2. check'[q] \in {NotChecking, check[q]}
      BY <1>0, <2>1, IdleIsACheck, CheckMoves DEF ClockTypeOK
    <3> QED
      BY <1>0, <3>1, <3>2
  <2>5. \A q \in Processes : SampleFits(check[q])'
    BY <2>1, <2>4 DEF SampleFits
  <2> QED
    <3>1. check' \in [Processes -> Checks]
      BY <1>0, <2>1, IdleIsACheck DEF ClockTypeOK
    <3>2. clock' \in [boot : Nat, up : Nat, wall : Int] /\ real' \in Nat
      BY <1>0, <2>1 DEF ClockTypeOK
    <3>3. stored'.boot <= clock'.boot
      BY <1>0, <2>2, <3>2 DEF ClockTypeOK
    <3> QED
      BY <2>1, <2>2, <2>3, <2>5, <3>1, <3>2, <3>3 DEF ClockTypesKept, ClockTypeOK
<1>8. ASSUME NEW p \in Processes, GiveUp(p) PROVE ClockTypesKept'
  <2>1. SampleFits(NotChecking)
    BY IdleIsACheck DEF SampleFits, Sampled
  <2> QED
    BY <1>8, <2>1, IdleIsACheck, ReadingKeepsTypes DEF GiveUp
<1>9. CASE UNCHANGED clockVars
  BY <1>0, <1>9 DEF clockVars, ClockTypesKept, ClockTypeOK, SampleFits
<1> QED
  BY <1>1, <1>2, <1>3, <1>4, <1>5, <1>6, <1>7, <1>8, <1>9 DEF ClockNext, Check

-----------------------------------------------------------------------------
(* The daemon alone: what a check has read is what the rows say.            *)

LEMMA ReadFitsStep ==
    ASSUME Tools = {}, ClockTypesKept, ReadFits(check[Daemon]), [ClockNext]_clockVars
    PROVE  ReadFits(check[Daemon])'
<1>0. /\ ClockTypeOK /\ Processes = {Daemon} /\ Daemon \in Processes
      /\ check \in [Processes -> Checks]
  BY DEF ClockTypesKept, ClockTypeOK, Processes
<1>1. CASE Elapse
  <2>1. /\ check'[Daemon].at = check[Daemon].at
        /\ check'[Daemon].boot = check[Daemon].boot
        /\ check'[Daemon].up = check[Daemon].up
        /\ check'[Daemon].state = check[Daemon].state
        /\ check'[Daemon].lastWall = check[Daemon].lastWall
        /\ stored' = stored
    BY <1>0, <1>1, ElapseMoves
  <2> QED
    BY <2>1 DEF ReadFits
<1>2. CASE Reboot \/ GiveUp(Daemon) \/ Store(Daemon) \/ SampleWall(Daemon)
  <2>1. check'[Daemon].at \in {"idle", "uptime"}
    <3>1. CASE SampleWall(Daemon)
      BY <1>0, <3>1, SampleWallMoves
    <3>2. CASE Reboot \/ GiveUp(Daemon) \/ Store(Daemon)
      <4>1. check'[Daemon] = NotChecking
        BY <1>0, <3>2 DEF Reboot, GiveUp, Store
      <4> QED
        BY <4>1, IdleIsACheck
    <3> QED
      BY <1>2, <3>1, <3>2
  <2> QED
    BY <2>1 DEF ReadFits, Sampled
<1>3. CASE (\E d \in Adjustments : Adjust(d)) \/ UNCHANGED clockVars
  BY <1>3 DEF Adjust, clockVars, ReadFits
<1>4. CASE SampleUptime(Daemon)
  <2>1. PICK c \in Checks : /\ check' = [check EXCEPT ![Daemon] = c]
                           /\ c.at = "state" /\ c.boot = clock.boot /\ c.up = clock.up
    BY <1>0, <1>4, SampleUptimeMoves
  <2>2. check'[Daemon] = c /\ stored' = stored
    BY <1>0, <1>4, <2>1 DEF SampleUptime
  <2> QED
    BY <1>0, <2>1, <2>2 DEF ReadFits, ClockTypeOK
<1>5. CASE ReadState(Daemon) \/ ReadWall(Daemon)
  <2>1. PICK c \in Checks :
            /\ check' = [check EXCEPT ![Daemon] = c]
            /\ check[Daemon].at \in Sampled
            /\ c.boot = check[Daemon].boot /\ c.up = check[Daemon].up
            /\ \/ c.at = "wall" /\ c.state = stored.state
               \/ /\ check[Daemon].at = "wall" /\ c.at = "store"
                  /\ c.state = check[Daemon].state /\ c.lastWall = stored.wall
    BY <1>0, <1>5, ReadStateMoves, ReadWallMoves DEF Sampled
  <2>2. check'[Daemon] = c /\ stored' = stored
    BY <1>0, <1>5, <2>1 DEF ReadState, ReadWall
  <2> QED
    BY <2>1, <2>2 DEF ReadFits
<1> QED
  BY <1>0, <1>1, <1>2, <1>3, <1>4, <1>5 DEF ClockNext, Check

-----------------------------------------------------------------------------
(* How far the clock that is trusted has moved since a Detox began.         *)

\* Every check adds what the guard tolerates.
LEMMA ToleratedGrows ==
    /\ \A n \in Int : (n + 1) * MaxDrift = n * MaxDrift + MaxDrift
    /\ \A n \in Int : n * MaxDrift \in Int
    /\ 0 * MaxDrift = 0
BY ClockAssumption

\* A check of the same boot that finds nothing wrong.
LEMMA VerdictBounds ==
    ASSUME ClockTypeOK, NEW c \in Checks, c.boot = stored.boot,
           c.lastWall = stored.wall,
           NextState(c.state, c, [stored EXCEPT !.wall = c.lastWall]) = "ok"
    PROVE  /\ c.state # "tampered"
           /\ c.wall - stored.wall - (c.up - stored.up) <= MaxDrift
           /\ -(c.wall - stored.wall - (c.up - stored.up)) <= MaxDrift
<1>1. [stored EXCEPT !.wall = c.lastWall] = stored
  BY DEF ClockTypeOK, Samples
<1>2. c.state # "tampered" /\ ~Violation(c, stored)
  BY <1>1 DEF NextState
<1>3. c.wall \in Int /\ c.up \in Int /\ stored.wall \in Int /\ stored.up \in Int
  BY DEF ClockTypeOK, Samples, Checks
<1> QED
  BY <1>2, <1>3, ClockAssumption DEF Violation

\* At the end of its check.
LEMMA DriftIsTolerated ==
    ASSUME ClockTypesKept, ReadFits(check[Daemon]), DetoxKept, Daemon \in Processes,
           detox # None, clock.boot = detox.boot, Store(Daemon), stored'.state = "ok"
    PROVE  LET c == check[Daemon]
           IN  Within(Drifted(c.wall, c.up), (count["checks"] + 1) - detox.checks)
<1> DEFINE c == check[Daemon]
           n == count["checks"] - detox.checks
<1>1. /\ c.at = "store"
      /\ NextState(c.state, c, [stored EXCEPT !.wall = c.lastWall]) = "ok"
  BY StoreMoves DEF ClockTypesKept
<1>2. c \in Checks /\ c.boot = clock.boot /\ stored.boot = clock.boot
      /\ c.state = stored.state /\ c.lastWall = stored.wall
  BY <1>1 DEF ClockTypesKept, ClockTypeOK, SampleFits, ReadFits, DetoxKept, Sampled
<1>3. stored.state = "ok"
  BY <1>1, <1>2, VerdictBounds DEF ClockTypesKept, ClockTypeOK, Samples, States
<1>4. Within(Drifted(stored.wall, stored.up), n)
  BY <1>2, <1>3 DEF DetoxKept
<1>5. /\ c.wall - stored.wall - (c.up - stored.up) <= MaxDrift
      /\ -(c.wall - stored.wall - (c.up - stored.up)) <= MaxDrift
  BY <1>1, <1>2, VerdictBounds DEF ClockTypesKept
<1>6. /\ c.wall \in Int /\ c.up \in Int /\ stored.wall \in Int /\ stored.up \in Int
      /\ detox.starts \in Int /\ detox.begun \in Int /\ n \in Int /\ Booted \in Int
      /\ MaxDrift \in Int /\ MaxPause \in Int
  BY <1>2, ClockAssumption
  DEF ClockTypesKept, ClockTypeOK, Samples, Checks, Detoxes, Booted
<1>7. Drifted(c.wall, c.up) = Drifted(stored.wall, stored.up)
                                + (c.wall - stored.wall - (c.up - stored.up))
  BY <1>6 DEF Drifted
<1>8. Drifted(stored.wall, stored.up) \in Int
  BY <1>6 DEF Drifted
<1>9. n * MaxDrift \in Int /\ (n + 1) * MaxDrift = n * MaxDrift + MaxDrift
  BY <1>6, ToleratedGrows
<1>10. (count["checks"] + 1) - detox.checks = n + 1
  BY DEF ClockTypesKept, ClockTypeOK, Detoxes
<1> HIDE DEF n, c
<1>11. Within(Drifted(c.wall, c.up), n + 1)
  BY <1>4, <1>5, <1>6, <1>7, <1>8, <1>9 DEF Within
<1> QED
  BY <1>10, <1>11 DEF c

LEMMA DetoxKeeps ==
    ASSUME Tools = {}, ClockTypesKept, ReadFits(check[Daemon]), DetoxKept,
           [ClockNext]_clockVars
    PROVE  DetoxKept'
<1>0. /\ ClockTypeOK /\ Processes = {Daemon} /\ Daemon \in Processes
      /\ clock.up \in Int /\ clock.boot \in Int /\ real \in Int
      /\ detox # None => detox \in Detoxes
  BY DEF ClockTypesKept, ClockTypeOK, Processes
<1>1. CASE /\ UNCHANGED <<stored, detox, count["checks"]>>
           /\ clock'.boot = clock.boot /\ Booted' = Booted
  BY <1>1 DEF DetoxKept, Within, Drifted
<1>2. CASE Elapse
  <2>1. /\ clock'.boot = clock.boot /\ clock'.up = clock.up + 1 /\ real' = real + 1
        /\ UNCHANGED <<stored, detox, count>>
    BY <1>0, <1>2, ElapseMoves
  <2>2. Booted' = Booted
    BY <1>0, <2>1 DEF Booted
  <2> QED
    BY <1>1, <2>1, <2>2
<1>3. CASE Reboot
  <2>1. clock'.boot = clock.boot + 1 /\ UNCHANGED <<detox, count>>
    BY <1>3 DEF Reboot
  <2>2. detox # None => detox.boot \in Int
    BY <1>0 DEF Detoxes
  <2> QED
    BY <1>0, <2>1, <2>2 DEF DetoxKept
<1>4. CASE \E d \in Adjustments : Adjust(d)
  <2>1. clock'.boot = clock.boot /\ clock'.up = clock.up
        /\ UNCHANGED <<stored, detox, real>> /\ count'["checks"] = count["checks"]
    BY <1>0, <1>4 DEF Adjust, ClockTypeOK
  <2> QED
    BY <1>1, <2>1 DEF Booted
<1>5. CASE \/ SampleWall(Daemon) \/ SampleUptime(Daemon) \/ ReadState(Daemon)
           \/ ReadWall(Daemon) \/ GiveUp(Daemon) \/ UNCHANGED clockVars
  <2>1. UNCHANGED <<stored, detox, count, clock, real>>
    BY <1>5 DEF SampleWall, SampleUptime, ReadState, ReadWall, GiveUp, clockVars
  <2> QED
    BY <1>1, <2>1 DEF Booted
<1>6. CASE Store(Daemon)
  <2> DEFINE c == check[Daemon]
  <2>1. /\ c.at = "store" /\ c \in Checks
        /\ stored'.wall = c.wall /\ stored'.up = c.up /\ stored'.boot = c.boot
        /\ count'["checks"] = count["checks"] + 1 /\ UNCHANGED <<clock, real>>
        /\ \/ detox' = detox
           \/ detox' = [starts |-> c.wall, ends |-> c.wall + Duration,
                        begun |-> real, boot |-> c.boot,
                        checks |-> count["checks"] + 1]
    BY <1>0, <1>6, StoreMoves DEF ClockTypeOK
  <2>2. c.boot = clock.boot /\ clock.up - c.late <= c.up /\ c.up <= clock.up
    BY <1>0, <2>1 DEF ClockTypesKept, SampleFits, Sampled
  <2>3. c.up \in Int /\ c.late \in Int /\ c.late <= MaxPause /\ c.wall \in Int
        /\ MaxPause \in Int /\ count["checks"] \in Int
    BY <1>0, <2>1, ClockAssumption DEF Checks, ClockTypeOK
  <2>4. CASE detox' = detox
    <3> SUFFICES ASSUME detox # None PROVE DetoxKept'
      BY <2>4 DEF DetoxKept
    <3>1. /\ detox.ends = detox.starts + Duration /\ detox.boot <= clock.boot
          /\ detox.checks <= count["checks"] + 1
      BY <1>0, <2>3 DEF DetoxKept, Detoxes
    <3>2. ASSUME clock.boot = detox.boot, stored'.state = "ok"
          PROVE  Within(Drifted(c.wall, c.up), (count["checks"] + 1) - detox.checks)
      BY <1>0, <1>6, <3>2, DriftIsTolerated
    <3>3. Drifted(stored.wall, stored.up)' = Drifted(c.wall, c.up)
      BY <2>1, <2>4 DEF Drifted, Booted
    <3>4. count'["checks"] - detox'.checks = (count["checks"] + 1) - detox.checks
      BY <2>1, <2>4
    <3>5. ASSUME clock.boot = detox.boot, stored'.state = "ok"
          PROVE  Within(Drifted(stored.wall, stored.up), count["checks"] - detox.checks)'
      <4>1. Within(Drifted(stored.wall, stored.up)', count'["checks"] - detox'.checks)
        BY <3>2, <3>3, <3>4, <3>5
      <4> QED
        BY <4>1 DEF Within
    <3> HIDE DEF c
    <3>6. /\ detox'.ends = detox'.starts + Duration /\ detox'.boot <= clock'.boot
          /\ detox'.checks <= count'["checks"]
      BY <2>1, <2>4, <3>1
    <3>7. clock'.boot = detox'.boot => clock.boot = detox.boot /\ stored'.boot = clock'.boot
      BY <2>1, <2>2, <2>4
    <3> QED
      BY <3>5, <3>6, <3>7 DEF DetoxKept
  <2>5. CASE detox' = [starts |-> c.wall, ends |-> c.wall + Duration,
                       begun |-> real, boot |-> c.boot, checks |-> count["checks"] + 1]
    <3>1. /\ detox'.starts = c.wall /\ detox'.ends = c.wall + Duration
          /\ detox'.begun = real /\ detox'.boot = c.boot
          /\ detox'.checks = count["checks"] + 1
      BY <2>5
    <3>2. Drifted(stored.wall, stored.up)' = clock.up - c.up
      BY <1>0, <2>1, <2>3, <3>1 DEF Drifted, Booted
    <3>3. count'["checks"] - detox'.checks = 0
      BY <2>1, <2>3, <3>1
    <3>4. 0 <= clock.up - c.up /\ clock.up - c.up <= MaxPause
      BY <1>0, <2>2, <2>3
    <3>5. Within(clock.up - c.up, 0)
      BY <3>4, <1>0, <2>3, ToleratedGrows DEF Within
    <3>6. Within(Drifted(stored.wall, stored.up), count["checks"] - detox.checks)'
      BY <3>2, <3>3, <3>5 DEF Within
    <3>7. /\ detox'.boot <= clock'.boot /\ detox'.checks <= count'["checks"]
          /\ stored'.boot = clock'.boot
      BY <1>0, <2>1, <2>2, <2>3, <3>1
    <3> QED
      BY <3>1, <3>6, <3>7 DEF DetoxKept
  <2> QED
    BY <2>1, <2>4, <2>5
<1> QED
  BY <1>0, <1>2, <1>3, <1>4, <1>5, <1>6 DEF ClockNext, Check

-----------------------------------------------------------------------------
(* Nobody sets the clock.                                                   *)

LEMMA UnsetKeeps ==
    ASSUME Tools = {}, ClockTypesKept, ReadFits(check[Daemon]), Unset,
           MaxPause <= MaxDrift, count["adjustments"] = 0, count'["adjustments"] = 0,
           [ClockNext]_clockVars
    PROVE  Unset'
<1> DEFINE c == check[Daemon]
<1>0. /\ ClockTypeOK /\ Processes = {Daemon} /\ Daemon \in Processes /\ c \in Checks
      /\ clock.up \in Int /\ clock.boot \in Int /\ clock.wall \in Int /\ real \in Int
      /\ stored.wall \in Int /\ stored.up \in Int /\ stored.boot \in Int
      /\ stored.boot <= clock.boot
      /\ c.wall \in Int /\ c.up \in Int /\ c.late \in Int /\ c.late <= MaxPause
      /\ 0 <= c.late /\ MaxPause \in Int /\ MaxDrift \in Int /\ 0 <= MaxPause
      /\ check \in [Processes -> Checks]
  <2>1. ClockTypeOK /\ Processes = {Daemon} /\ Daemon \in Processes /\ c \in Checks
    BY DEF ClockTypesKept, ClockTypeOK, Processes
  <2> HIDE DEF c
  <2> QED
    BY <2>1, ClockAssumption DEF ClockTypeOK, Samples, Checks
<1>1. CASE Elapse
  <2>1. /\ c'.at = c.at /\ c'.wall = c.wall /\ c'.up = c.up
        /\ c.at # "idle" => c'.late = c.late + 1
        /\ clock'.boot = clock.boot /\ clock'.up = clock.up + 1
        /\ clock'.wall = clock.wall + 1 /\ real' = real + 1 /\ stored' = stored
    BY <1>0, <1>1, ElapseMoves
  <2>2. Booted' = Booted
    BY <1>0, <2>1 DEF Booted
  <2> HIDE DEF c
  <2>3. c'.at # "idle" => stored'.wall <= c'.wall /\ c'.wall + c'.late = real'
    BY <1>0, <2>1 DEF Unset, c
  <2>4. c'.at \in Sampled => Agree(c.wall, c.up)'
    BY <2>1, <2>2 DEF Unset, c, Agree
  <2>5. stored'.boot = clock'.boot => Agree(stored.wall, stored.up)'
    BY <2>1, <2>2 DEF Unset, Agree
  <2>6. clock'.wall = real' /\ stored'.state = "ok" /\ stored'.wall <= real'
    BY <1>0, <2>1 DEF Unset
  <2> QED
    BY <2>3, <2>4, <2>5, <2>6 DEF Unset, c
<1>2. CASE Reboot
  <2>1. c' = NotChecking
    BY <1>0, <1>2 DEF Reboot
  <2>2. /\ clock'.boot = clock.boot + 1 /\ clock'.wall = clock.wall + 1
        /\ real' = real + 1 /\ stored' = stored
    BY <1>2 DEF Reboot
  <2>3. stored'.boot # clock'.boot
    BY <1>0, <2>2
  <2>4. clock'.wall = real' /\ stored'.state = "ok" /\ stored'.wall <= real'
    BY <1>0, <2>2 DEF Unset
  <2> QED
    BY <2>1, <2>3, <2>4, IdleIsACheck DEF Unset, Sampled
<1>3. ASSUME NEW d \in Adjustments, Adjust(d) PROVE FALSE
  BY <1>0, <1>3 DEF Adjust, ClockTypeOK
<1>4. CASE UNCHANGED clockVars
  BY <1>4 DEF clockVars, Unset, Agree, Booted
<1>5. CASE SampleWall(Daemon)
  <2>1. c'.at = "uptime" /\ c'.wall = clock.wall /\ c'.late = 0
    <3>1. PICK s \in Checks : /\ check' = [check EXCEPT ![Daemon] = s]
                             /\ s.at = "uptime" /\ s.wall = clock.wall /\ s.late = 0
      BY <1>0, <1>5, SampleWallMoves
    <3> QED
      BY <1>0, <3>1, CheckMoves
  <2>2. UNCHANGED <<clock, real, stored>>
    BY <1>5 DEF SampleWall
  <2>3. stored'.wall <= c'.wall /\ c'.wall + c'.late = real'
    BY <1>0, <2>1, <2>2 DEF Unset
  <2> QED
    BY <2>1, <2>2, <2>3 DEF Unset, Agree, Booted, Sampled
<1>6. CASE SampleUptime(Daemon)
  <2>1. /\ c.at = "uptime" /\ c'.at = "state" /\ c'.up = clock.up
        /\ c'.wall = c.wall /\ c'.late = c.late
    <3>1. PICK s \in Checks : /\ check' = [check EXCEPT ![Daemon] = s]
                             /\ c.at = "uptime" /\ s.at = "state" /\ s.up = clock.up
                             /\ s.wall = c.wall /\ s.late = c.late
      BY <1>0, <1>6, SampleUptimeMoves
    <3> QED
      BY <1>0, <3>1, CheckMoves
  <2>2. UNCHANGED <<clock, real, stored>>
    BY <1>6 DEF SampleUptime
  <2>3. stored.wall <= c.wall /\ c.wall + c.late = real
    BY <2>1 DEF Unset
  <2>4. clock.up + Booted = real
    BY <1>0 DEF Booted
  <2>5. Agree(c.wall, clock.up)
    BY <1>0, <2>3, <2>4 DEF Agree
  <2>6. Agree(c.wall, c.up)'
    BY <2>1, <2>2, <2>5 DEF Agree, Booted
  <2> QED
    BY <2>1, <2>2, <2>3, <2>6 DEF Unset, Agree, Booted
<1>7. CASE ReadState(Daemon) \/ ReadWall(Daemon)
  <2>1. /\ c.at \in Sampled /\ c'.up = c.up /\ c'.wall = c.wall /\ c'.late = c.late
        /\ c'.at # "idle"
    <3>1. PICK s \in Checks :
              /\ check' = [check EXCEPT ![Daemon] = s]
              /\ c.at \in Sampled /\ s.at # "idle"
              /\ s.up = c.up /\ s.wall = c.wall /\ s.late = c.late
      BY <1>0, <1>7, ReadStateMoves, ReadWallMoves DEF Sampled
    <3> QED
      BY <1>0, <3>1, CheckMoves
  <2>2. UNCHANGED <<clock, real, stored>>
    BY <1>7 DEF ReadState, ReadWall
  <2> QED
    BY <2>1, <2>2 DEF Unset, Agree, Booted, Sampled
<1>8. CASE GiveUp(Daemon)
  <2>1. c' = NotChecking /\ UNCHANGED <<clock, real, stored>>
    BY <1>0, <1>8, IdleIsACheck, CheckMoves DEF GiveUp
  <2> QED
    BY <2>1, IdleIsACheck DEF Unset, Agree, Booted, Sampled
<1>9. CASE Store(Daemon)
  <2> DEFINE state == NextState(c.state, c, [stored EXCEPT !.wall = c.lastWall])
  <2>1. /\ c.at = "store" /\ stored'.state = state
        /\ stored'.wall = c.wall /\ stored'.up = c.up /\ stored'.boot = c.boot
        /\ UNCHANGED <<clock, real>> /\ check' = [check EXCEPT ![Daemon] = NotChecking]
    BY <1>0, <1>9, StoreMoves
  <2>2. c' = NotChecking
    BY <1>0, <2>1 DEF ClockTypeOK
  <2> HIDE DEF c
  <2>3. /\ c.boot = clock.boot /\ c.state = "ok" /\ c.lastWall = stored.wall
        /\ stored.boot = clock.boot => stored.up <= c.up /\ Agree(stored.wall, stored.up)
        /\ stored.wall <= c.wall /\ c.wall + c.late = real /\ Agree(c.wall, c.up)
    BY <1>0, <2>1 DEF Unset, ReadFits, ClockTypesKept, SampleFits, Sampled, c
  <2>4. [stored EXCEPT !.wall = c.lastWall] = stored
    BY <1>0, <2>3 DEF ClockTypeOK, Samples
  <2>5. ~Violation(c, stored)
    <3>1. Booted \in Int /\ MaxBackwardReboot \in Nat
      BY <1>0, ClockAssumption DEF Booted
    <3>2. CASE stored.boot # c.boot
      BY <1>0, <2>3, <3>1, <3>2 DEF Violation
    <3>3. CASE stored.boot = c.boot
      BY <1>0, <2>3, <3>1, <3>3 DEF Violation, Agree
    <3> QED
      BY <3>2, <3>3
  <2>6. state = "ok"
    BY <2>3, <2>4, <2>5 DEF NextState
  <2>7. stored'.wall <= real'
    BY <1>0, <2>1, <2>3
  <2>8. Agree(stored.wall, stored.up)'
    BY <2>1, <2>3 DEF Agree, Booted
  <2> QED
    BY <2>1, <2>2, <2>6, <2>7, <2>8, IdleIsACheck DEF Unset, Sampled, c
<1> QED
  BY <1>0, <1>1, <1>2, <1>3, <1>4, <1>5, <1>6, <1>7, <1>8, <1>9 DEF ClockNext, Check

-----------------------------------------------------------------------------
(* All of it.                                                               *)

LEMMA ClockStart == ClockInit => ClockKept
<1> SUFFICES ASSUME ClockInit PROVE ClockKept
  OBVIOUS
<1>1. check[Daemon] = NotChecking
  BY DEF ClockInit, Processes
<1>2. ReadFits(check[Daemon])
  BY <1>1, IdleIsACheck DEF ReadFits, Sampled
<1>3. DetoxKept
  BY DEF ClockInit, DetoxKept
<1>4. Unset
  BY <1>1, IdleIsACheck, ClockAssumption DEF ClockInit, Unset, Agree, Booted, Sampled
<1> QED
  BY <1>2, <1>3, <1>4, TypesInit DEF ClockKept

LEMMA ClockStep == Tools = {} /\ ClockKept /\ [ClockNext]_clockVars => ClockKept'
<1> SUFFICES ASSUME Tools = {}, ClockKept, [ClockNext]_clockVars PROVE ClockKept'
  OBVIOUS
<1>1. ClockTypesKept' /\ ReadFits(check[Daemon])' /\ DetoxKept'
  BY TypesStep, ReadFitsStep, DetoxKeeps DEF ClockKept
<1>2. count'["adjustments"] = 0 => count["adjustments"] = 0
  <2>1. count["adjustments"] \in Nat
    BY DEF ClockKept, ClockTypesKept, ClockTypeOK
  <2>2. \/ count'["adjustments"] = count["adjustments"]
        \/ count'["adjustments"] = count["adjustments"] + 1
    <3>1. CASE \E p \in Processes : Store(p)
      BY <3>1, StoreMoves DEF ClockKept, ClockTypesKept
    <3>2. CASE \E d \in Adjustments : Adjust(d)
      BY <3>2 DEF Adjust, ClockKept, ClockTypesKept, ClockTypeOK
    <3>3. CASE \/ UNCHANGED clockVars \/ Elapse \/ Reboot
               \/ \E p \in Processes : \/ SampleWall(p) \/ SampleUptime(p)
                                       \/ ReadState(p) \/ ReadWall(p) \/ GiveUp(p)
      BY <3>3 DEF clockVars, Elapse, Reboot, SampleWall, SampleUptime, ReadState,
         ReadWall, GiveUp
    <3> QED
      BY <3>1, <3>2, <3>3 DEF ClockNext, Check
  <2> QED
    BY <2>1, <2>2
<1>3. (MaxPause <= MaxDrift /\ count'["adjustments"] = 0) => Unset'
  BY <1>2, UnsetKeeps DEF ClockKept
<1> QED
  BY <1>1, <1>3 DEF ClockKept

\* Every variable stays in its domain, and no stored sample is from the future,
\* whatever tools check the clock beside the daemon.
THEOREM ClockTypeCorrect == ClockSpec => []ClockTypeOK
<1>1. ClockTypesKept => ClockTypeOK
  BY DEF ClockTypesKept
<1> QED
  BY <1>1, TypesInit, TypesStep, PTL DEF ClockSpec

\* The daemon alone, held up in a check for no longer than the guard tolerates,
\* finds a clock tampered only if somebody set it, through every number of
\* checks and reboots (clock_violation).
THEOREM NoAlarmUnlessSet ==
    ASSUME Tools = {}, MaxPause <= MaxDrift
    PROVE  ClockSpec => []ClockInvariant
<1>1. ClockKept => ClockInvariant
  BY DEF ClockKept, ClockTypesKept, ClockInvariant, NoFalseAlarm, Unset
<1>2. ClockKept /\ [ClockNext]_clockVars => ClockKept'
  BY ClockStep
<1> QED
  BY <1>1, <1>2, ClockStart, PTL DEF ClockSpec

\* The daemon alone keeps a Detox within the boot it began in, whatever the
\* clock is set by, however often and however long its checks are held up, but
\* for what the guard tolerates of each check (clock_violation,
\* active_or_clock_uncertain_detox).
THEOREM DetoxOutlastsTheClock ==
    ASSUME Tools = {}
    PROVE  ClockSpec => DetoxHeld
<1>1. ClockKept /\ [ClockNext]_clockVars => [DetoxStep]_clockVars
  <2> SUFFICES ASSUME ClockKept, NEW p \in Processes, detox # None, check[p].at = "store",
                      Store(p), ~enforced'[p], clock.boot = detox.boot
               PROVE  IF check[p].wall < detox.starts
                      THEN real - detox.begun <= Tolerated
                      ELSE real - detox.begun + Tolerated >= Duration
    BY DEF DetoxStep
  <2>0. /\ ClockTypesKept /\ ClockTypeOK /\ ReadFits(check[Daemon]) /\ DetoxKept
        /\ p = Daemon /\ Daemon \in Processes
    BY DEF ClockKept, ClockTypesKept, Processes
  <2> DEFINE c == check[Daemon]
             state == NextState(c.state, c, [stored EXCEPT !.wall = c.lastWall])
             n == (count["checks"] + 1) - detox.checks
  <2>1. /\ stored'.state = state /\ state \in States
        /\ enforced' = [enforced EXCEPT ![Daemon] = Keeps(state, c.wall)]
        /\ count'["checks"] = count["checks"] + 1
    BY <2>0, StoreMoves
  <2>2. ~Keeps(state, c.wall)
    BY <2>0, <2>1 DEF ClockTypeOK
  <2>3. state = "ok"
    BY <2>1, <2>2 DEF Keeps, States
  <2>4. c.wall < detox.starts \/ detox.ends <= c.wall
    <3>1. c.wall \in Int /\ detox.starts \in Int /\ detox.ends \in Int
      BY <2>0 DEF ClockTypeOK, Checks, Detoxes
    <3> QED
      BY <2>2, <3>1 DEF Keeps
  <2>5. Within(Drifted(c.wall, c.up), n)
    BY <2>0, <2>1, <2>3, DriftIsTolerated
  <2>6. clock.up - c.late <= c.up /\ c.up <= clock.up /\ detox.ends = detox.starts + Duration
    BY <2>0 DEF ClockTypesKept, SampleFits, Sampled, DetoxKept
  <2>7. /\ c.wall \in Int /\ c.up \in Int /\ c.late \in Int /\ c.late <= MaxPause
        /\ clock.up \in Int /\ real \in Int /\ detox.starts \in Int
        /\ detox.begun \in Int /\ MaxPause \in Int /\ Duration \in Int
        /\ n \in Int
    BY <2>0, ClockAssumption DEF ClockTypeOK, Checks, Detoxes
  <2>8. n * MaxDrift \in Int
    BY <2>7, ToleratedGrows
  <2>9. Tolerated = n * MaxDrift + MaxPause
    BY <2>1 DEF Tolerated
  <2> HIDE DEF n, c, state
  <2>10. /\ -(n * MaxDrift) <= Drifted(c.wall, c.up)
         /\ Drifted(c.wall, c.up) <= n * MaxDrift + MaxPause
    BY <2>5 DEF Within
  <2>11. Drifted(c.wall, c.up) = (c.wall - detox.starts) - ((c.up + (real - clock.up)) - detox.begun)
    BY <2>7 DEF Drifted, Booted
  <2>12. c.wall < detox.starts => real - detox.begun <= n * MaxDrift + MaxPause
    BY <2>6, <2>7, <2>8, <2>10, <2>11
  <2>13. detox.ends <= c.wall
            => (real - detox.begun) + (n * MaxDrift + MaxPause) >= Duration
    BY <2>6, <2>7, <2>8, <2>10, <2>11
  <2> QED
    BY <2>0, <2>4, <2>7, <2>9, <2>12, <2>13 DEF c
<1>2. ClockKept /\ [ClockNext]_clockVars => ClockKept'
  BY ClockStep
<1> QED
  BY <1>1, <1>2, ClockStart, PTL DEF ClockSpec, DetoxHeld
================================================================================
