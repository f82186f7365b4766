---------------------------- MODULE DatabaseProofs ----------------------------
(***************************************************************************)
(* Theorems about what the daemon's database keeps (focus-core/src/db.rs).  *)
(* EventLog: for every set of diagnostics and rejected ones, every number   *)
(* of events, batches, failures, crashes and restarts.  Migration: for      *)
(* every mixture of older tables, every number of starts, crashes and       *)
(* edits.  NotificationOutbox: for all cooldowns, lifetimes and thresholds, *)
(* every interleaving of daemon and application, every crash between two    *)
(* statements and every lost call.                                          *)
(***************************************************************************)
EXTENDS EventLog, Migration, NotificationOutbox,
        Induction, SequenceTheorems, FiniteSetTheorems

-------------------------------------------------------------------------------
(* Events: the elements that are wanted, in their order.                     *)

\* What Filtered keeps of the first n elements.
Chosen(n, f, seq, wanted) ==
    IF n = 0 THEN <<>>
    ELSE IF seq[n] \in wanted THEN Append(f[n - 1], seq[n]) ELSE f[n - 1]

\* The recursion is defined.
LEMMA FilteredIsDefined ==
    ASSUME NEW T, NEW seq \in Seq(T), NEW wanted
    PROVE  \E f : /\ f = [n \in 0..Len(seq) |-> Chosen(n, f, seq, wanted)]
                  /\ Filtered(seq, wanted) = f[Len(seq)]
<1> DEFINE Defined(m) == \E f : f = [n \in 0..m |-> Chosen(n, f, seq, wanted)]
           S == {m \in Nat : Defined(m)}
<1>1. 0 \in S
  <2> DEFINE f == [n \in 0..0 |-> <<>>]
  <2>1. f = [n \in 0..0 |-> Chosen(n, f, seq, wanted)]
    BY DEF Chosen
  <2> QED
    BY <2>1
<1>2. ASSUME NEW m \in Nat, m \in S PROVE m + 1 \in S
  <2>1. PICK f : f = [n \in 0..m |-> Chosen(n, f, seq, wanted)]
    BY <1>2
  <2> DEFINE g == [n \in 0..m + 1 |-> IF n = m + 1 THEN Chosen(n, f, seq, wanted) ELSE f[n]]
  <2>2. \A n \in 0..m : g[n] = f[n]
    OBVIOUS
  <2>3. \A n \in 0..m + 1 : g[n] = Chosen(n, f, seq, wanted)
    BY <2>1
  <2>4. \A n \in 0..m + 1 : Chosen(n, f, seq, wanted) = Chosen(n, g, seq, wanted)
    <3> SUFFICES ASSUME NEW n \in 0..m + 1
                 PROVE  Chosen(n, f, seq, wanted) = Chosen(n, g, seq, wanted)
      OBVIOUS
    <3>1. CASE n = 0
      BY <3>1 DEF Chosen
    <3>2. CASE n # 0
      <4>1. n - 1 \in 0..m
        BY <3>2
      <4>2. g[n - 1] = f[n - 1]
        BY <4>1, <2>2
      <4> HIDE DEF g
      <4> QED
        BY <4>2 DEF Chosen
    <3> QED
      BY <3>1, <3>2
  <2>5. g = [n \in 0..m + 1 |-> g[n]]
    OBVIOUS
  <2>6. g = [n \in 0..m + 1 |-> Chosen(n, g, seq, wanted)]
    <3> HIDE DEF g
    <3> QED
      BY <2>3, <2>4, <2>5
  <2>7. Defined(m + 1)
    BY <2>6
  <2> HIDE DEF Defined
  <2> QED
    BY <2>7
<1>3. Len(seq) \in S
  <2> HIDE DEF S
  <2>1. Nat \subseteq S
    BY <1>1, <1>2, InductiveSet
  <2> QED
    BY <2>1
<1>4. \E f : f = [n \in 0..Len(seq) |-> Chosen(n, f, seq, wanted)]
  BY <1>3
<1> DEFINE F == CHOOSE f : f = [n \in 0..Len(seq) |-> Chosen(n, f, seq, wanted)]
<1>5. F = [n \in 0..Len(seq) |-> Chosen(n, F, seq, wanted)]
  BY <1>4
<1>6. Filtered(seq, wanted) = F[Len(seq)]
  BY DEF Filtered, Chosen
<1> QED
  BY <1>5, <1>6

\* q is what is wanted of the first n elements, in their order.
Selects(q, n, seq, wanted) ==
    \E place \in [1..Len(q) -> 1..n] :
        /\ \A j \in 1..Len(q) : q[j] = seq[place[j]]
        /\ \A j, k \in 1..Len(q) : j < k => place[j] < place[k]
        /\ \A i \in 1..n : seq[i] \in wanted <=> \E j \in 1..Len(q) : place[j] = i

\* An element that is wanted is added.
LEMMA SelectsMore ==
    ASSUME NEW T, NEW seq \in Seq(T), NEW wanted, NEW n \in Nat, n + 1 <= Len(seq),
           NEW q \in Seq(T), Len(q) <= n, Selects(q, n, seq, wanted), seq[n + 1] \in wanted
    PROVE  Selects(Append(q, seq[n + 1]), n + 1, seq, wanted)
<1> DEFINE l == Len(q)
           r == Append(q, seq[n + 1])
<1>1. PICK place \in [1..l -> 1..n] :
        /\ \A j \in 1..l : q[j] = seq[place[j]]
        /\ \A j, k \in 1..l : j < k => place[j] < place[k]
        /\ \A i \in 1..n : seq[i] \in wanted <=> \E j \in 1..l : place[j] = i
  BY DEF Selects
<1>2. /\ l \in Nat /\ Len(r) = l + 1
      /\ \A j \in 1..l : r[j] = q[j]
      /\ r[l + 1] = seq[n + 1]
  OBVIOUS
<1> HIDE DEF l, r
<1> DEFINE more == [j \in 1..l + 1 |-> IF j = l + 1 THEN n + 1 ELSE place[j]]
<1>3. /\ more \in [1..l + 1 -> 1..n + 1] /\ more[l + 1] = n + 1
      /\ \A j \in 1..l : j \in 1..l + 1 /\ j # l + 1 /\ more[j] = place[j] /\ place[j] \in 1..n
      /\ \A j \in 1..l + 1 : j = l + 1 \/ j \in 1..l
      /\ l + 1 \in 1..l + 1
  BY <1>2
<1> HIDE DEF more
<1>4. \A j \in 1..l + 1 : r[j] = seq[more[j]]
  BY <1>1, <1>2, <1>3
<1>5. ASSUME NEW j \in 1..l + 1, NEW k \in 1..l + 1, j < k PROVE more[j] < more[k]
  <2>1. j \in 1..l
    BY <1>2, <1>5
  <2>2. CASE k = l + 1
    BY <2>1, <2>2, <1>3
  <2>3. CASE k \in 1..l
    BY <2>1, <2>3, <1>1, <1>3, <1>5
  <2> QED
    BY <2>2, <2>3, <1>3
<1>6. ASSUME NEW i \in 1..n + 1
      PROVE  seq[i] \in wanted <=> \E j \in 1..l + 1 : more[j] = i
  <2>1. CASE i = n + 1
    BY <2>1, <1>3
  <2>2. CASE i # n + 1
    <3>1. i \in 1..n
      BY <2>2
    <3> QED
      BY <3>1, <2>2, <1>1, <1>3
  <2> QED
    BY <2>1, <2>2
<1>7. \A j, k \in 1..l + 1 : j < k => more[j] < more[k]
  BY <1>5
<1>8. Selects(r, n + 1, seq, wanted)
  <2>1. Len(r) = l + 1
    BY <1>2
  <2>2. /\ more \in [1..Len(r) -> 1..n + 1]
        /\ \A j \in 1..Len(r) : r[j] = seq[more[j]]
        /\ \A j, k \in 1..Len(r) : j < k => more[j] < more[k]
        /\ \A i \in 1..n + 1 : seq[i] \in wanted <=> \E j \in 1..Len(r) : more[j] = i
    BY <2>1, <1>3, <1>4, <1>6, <1>7, Zenon
  <2> QED
    BY <2>2, Zenon DEF Selects
<1> QED
  BY <1>8 DEF r

\* One that is not changes nothing.
LEMMA SelectsNoMore ==
    ASSUME NEW T, NEW seq \in Seq(T), NEW wanted, NEW n \in Nat, n + 1 <= Len(seq),
           NEW q \in Seq(T), Selects(q, n, seq, wanted), seq[n + 1] \notin wanted
    PROVE  Selects(q, n + 1, seq, wanted)
<1> DEFINE l == Len(q)
<1>1. PICK place \in [1..l -> 1..n] :
        /\ \A j \in 1..l : q[j] = seq[place[j]]
        /\ \A j, k \in 1..l : j < k => place[j] < place[k]
        /\ \A i \in 1..n : seq[i] \in wanted <=> \E j \in 1..l : place[j] = i
  BY DEF Selects
<1>2. place \in [1..l -> 1..n + 1] /\ \A j \in 1..l : place[j] \in 1..n
  OBVIOUS
<1>3. ASSUME NEW i \in 1..n + 1
      PROVE  seq[i] \in wanted <=> \E j \in 1..l : place[j] = i
  <2>1. CASE i = n + 1
    BY <2>1, <1>2
  <2>2. CASE i # n + 1
    <3>1. i \in 1..n
      BY <2>2
    <3> QED
      BY <3>1, <1>1
  <2> QED
    BY <2>1, <2>2
<1> QED
  BY <1>1, <1>2, <1>3 DEF Selects

\* Filtered returns the elements that are wanted, in their order.
LEMMA FilteredSelects ==
    ASSUME NEW T, NEW seq \in Seq(T), NEW wanted
    PROVE  /\ Filtered(seq, wanted) \in Seq(T) /\ Len(Filtered(seq, wanted)) <= Len(seq)
           /\ Selects(Filtered(seq, wanted), Len(seq), seq, wanted)
<1>1. PICK f : /\ f = [n \in 0..Len(seq) |-> Chosen(n, f, seq, wanted)]
               /\ Filtered(seq, wanted) = f[Len(seq)]
  BY FilteredIsDefined
<1> DEFINE SelectsAt(n) == f[n] \in Seq(T) /\ Len(f[n]) <= n /\ Selects(f[n], n, seq, wanted)
           S == {n \in Nat : n <= Len(seq) => SelectsAt(n)}
<1>2. 0 \in S
  <2>1. f[0] = <<>>
    BY <1>1 DEF Chosen
  <2>2. <<>> \in Seq(T) /\ Len(<<>>) = 0
    OBVIOUS
  <2> DEFINE none == [j \in 1..0 |-> 0]
  <2>3. none \in [1..0 -> 1..0] /\ 1..0 = {}
    OBVIOUS
  <2> HIDE DEF none
  <2>4. Selects(<<>>, 0, seq, wanted)
    BY <2>2, <2>3 DEF Selects
  <2>5. SelectsAt(0)
    BY <2>1, <2>2, <2>4
  <2> HIDE DEF SelectsAt
  <2> QED
    BY <2>5
<1>3. ASSUME NEW n \in Nat, n \in S PROVE n + 1 \in S
  <2> SUFFICES ASSUME n + 1 <= Len(seq) PROVE SelectsAt(n + 1)
    OBVIOUS
  <2>1. SelectsAt(n)
    BY <1>3
  <2>2. f[n + 1] = IF seq[n + 1] \in wanted THEN Append(f[n], seq[n + 1]) ELSE f[n]
    <3>1. n + 1 \in 0..Len(seq) /\ n + 1 # 0 /\ (n + 1) - 1 = n
      OBVIOUS
    <3>2. f[n + 1] = Chosen(n + 1, f, seq, wanted)
      BY <1>1, <3>1
    <3> QED
      BY <3>1, <3>2 DEF Chosen
  <2>3. seq[n + 1] \in T
    OBVIOUS
  <2>4. CASE seq[n + 1] \in wanted
    BY <2>1, <2>2, <2>3, <2>4, SelectsMore
  <2>5. CASE seq[n + 1] \notin wanted
    BY <2>1, <2>2, <2>3, <2>5, SelectsNoMore
  <2> QED
    BY <2>4, <2>5
<1>4. Len(seq) \in S
  <2> HIDE DEF S
  <2>1. Nat \subseteq S
    BY <1>2, <1>3, InductiveSet
  <2> QED
    BY <2>1
<1> QED
  BY <1>1, <1>4

\* A queue holds what was told, each thing once, and not too much.
QueueFits(q, accepted) ==
    /\ q \in Seq(Diagnostics) /\ Len(q) <= QueueLength
    /\ IsInjective(q) /\ ToSet(q) \subseteq accepted

\* The operators of the community modules, by what they are.
LEMMA SequenceFacts ==
    ASSUME NEW S, NEW q \in Seq(S)
    PROVE  /\ Len(q) \in Nat /\ DOMAIN q = 1..Len(q)
           /\ ToSet(q) = {q[i] : i \in 1..Len(q)} /\ ToSet(q) \subseteq S
           /\ IsInjective(q) <=> \A i, j \in 1..Len(q) : q[i] = q[j] => i = j
  BY DEF ToSet, IsInjective

\* What an answer leaves in the queue.
LEMMA FilteredIsTheRest ==
    ASSUME NEW q \in Seq(Diagnostics), NEW wanted
    PROVE  /\ Filtered(q, wanted) \in Seq(Diagnostics) /\ Len(Filtered(q, wanted)) <= Len(q)
           /\ ToSet(Filtered(q, wanted)) = ToSet(q) \cap wanted
           /\ IsInjective(q) => IsInjective(Filtered(q, wanted))
<1> DEFINE f == Filtered(q, wanted)
<1>1. f \in Seq(Diagnostics) /\ Len(f) <= Len(q) /\ Selects(f, Len(q), q, wanted)
  BY FilteredSelects
<1> HIDE DEF f
<1>2. PICK place \in [1..Len(f) -> 1..Len(q)] :
        /\ \A j \in 1..Len(f) : f[j] = q[place[j]]
        /\ \A j, k \in 1..Len(f) : j < k => place[j] < place[k]
        /\ \A i \in 1..Len(q) : q[i] \in wanted <=> \E j \in 1..Len(f) : place[j] = i
  BY <1>1 DEF Selects
<1>3. /\ ToSet(f) = {f[j] : j \in 1..Len(f)} /\ ToSet(q) = {q[i] : i \in 1..Len(q)}
      /\ IsInjective(q) <=> \A i, j \in 1..Len(q) : q[i] = q[j] => i = j
      /\ IsInjective(f) <=> \A i, j \in 1..Len(f) : f[i] = f[j] => i = j
      /\ Len(f) \in Nat /\ Len(q) \in Nat
  BY <1>1, SequenceFacts
<1>4. ASSUME NEW d \in ToSet(f) PROVE d \in ToSet(q) \cap wanted
  <2>1. PICK j \in 1..Len(f) : d = f[j]
    BY <1>3
  <2>2. place[j] \in 1..Len(q) /\ d = q[place[j]]
    BY <2>1, <1>2
  <2> QED
    BY <2>2, <1>2, <1>3
<1>5. ASSUME NEW d \in ToSet(q) \cap wanted PROVE d \in ToSet(f)
  <2>1. PICK i \in 1..Len(q) : d = q[i]
    BY <1>3
  <2>2. PICK j \in 1..Len(f) : place[j] = i
    BY <2>1, <1>2
  <2>3. f[j] = d
    BY <2>1, <2>2, <1>2
  <2> QED
    BY <2>3, <1>3
<1>6. ASSUME IsInjective(q), NEW j \in 1..Len(f), NEW k \in 1..Len(f), f[j] = f[k] PROVE j = k
  <2>2. place[j] \in 1..Len(q) /\ place[k] \in 1..Len(q)
    BY <1>2
  <2>4. q[place[j]] = q[place[k]]
    BY <1>2, <1>6
  <2>1. place[j] = place[k]
    BY <1>3, <1>6, <2>2, <2>4
  <2>3. ~ (j < k) /\ ~ (k < j)
    BY <1>2, <2>1, <2>2, <1>3
  <2> QED
    BY <2>3, <1>3
<1> QED
  BY <1>1, <1>3, <1>4, <1>5, <1>6 DEF f

\* What the bound of the queue leaves in it.
LEMMA NewestAreOfTheQueue ==
    ASSUME NEW q \in Seq(Diagnostics), NEW n \in Nat \ {0}
    PROVE  /\ Newest(q, n) \in Seq(Diagnostics) /\ Len(Newest(q, n)) <= n
           /\ ToSet(Newest(q, n)) \subseteq ToSet(q)
           /\ IsInjective(q) => IsInjective(Newest(q, n))
           /\ Len(q) <= n => Newest(q, n) = q
<1> DEFINE m == IF Len(q) > n THEN Len(q) - n + 1 ELSE 1
           r == Newest(q, n)
<1>1. Len(q) \in Nat /\ m \in 1..Len(q) + 1 /\ Len(q) - m + 1 <= n /\ r = SubSeq(q, m, Len(q))
  BY DEF Newest
<1> HIDE DEF m, r
<1>2. \A i \in m..Len(q) : q[i] \in Diagnostics
  BY <1>1
<1>3. /\ r \in Seq(Diagnostics)
      /\ Len(r) = Len(q) - m + 1
      /\ \A i \in 1..Len(r) : r[i] = q[m + i - 1] /\ m + i - 1 \in 1..Len(q)
  BY <1>1, <1>2
<1>4. /\ ToSet(r) = {r[i] : i \in 1..Len(r)} /\ ToSet(q) = {q[i] : i \in 1..Len(q)}
      /\ IsInjective(q) <=> \A i, j \in 1..Len(q) : q[i] = q[j] => i = j
      /\ IsInjective(r) <=> \A i, j \in 1..Len(r) : r[i] = r[j] => i = j
  BY <1>3, SequenceFacts
<1>5. ToSet(r) \subseteq ToSet(q)
  BY <1>3, <1>4
<1>6. ASSUME IsInjective(q), NEW i \in 1..Len(r), NEW j \in 1..Len(r), r[i] = r[j] PROVE i = j
  <2>2. /\ m + i - 1 \in 1..Len(q) /\ m + j - 1 \in 1..Len(q)
        /\ q[m + i - 1] = q[m + j - 1]
    BY <1>3, <1>6
  <2>1. m + i - 1 = m + j - 1
    BY <1>4, <1>6, <2>2
  <2> QED
    BY <2>1, <1>1, <1>3
<1>7. ASSUME Len(q) <= n PROVE r = q
  <2>2. m = 1
    BY <1>1, <1>7 DEF m
  <2>1. r = SubSeq(q, 1, Len(q))
    BY <1>1, <2>2
  <2> QED
    BY <2>1, SubSeqFull
<1> QED
  BY <1>1, <1>3, <1>4, <1>5, <1>6, <1>7 DEF r

\* What an element at the end adds.
LEMMA AppendedIsNew ==
    ASSUME NEW q \in Seq(Diagnostics), NEW d \in Diagnostics
    PROVE  /\ Append(q, d) \in Seq(Diagnostics)
           /\ ToSet(Append(q, d)) = ToSet(q) \cup {d}
           /\ IsInjective(q) /\ d \notin ToSet(q) => IsInjective(Append(q, d))
<1> DEFINE r == Append(q, d)
<1>1. /\ r \in Seq(Diagnostics) /\ Len(q) \in Nat /\ Len(r) = Len(q) + 1
      /\ \A i \in 1..Len(q) : r[i] = q[i]
      /\ r[Len(q) + 1] = d
  OBVIOUS
<1> HIDE DEF r
<1>2. /\ ToSet(r) = {r[i] : i \in 1..Len(r)} /\ ToSet(q) = {q[i] : i \in 1..Len(q)}
      /\ IsInjective(q) <=> \A i, j \in 1..Len(q) : q[i] = q[j] => i = j
      /\ IsInjective(r) <=> \A i, j \in 1..Len(r) : r[i] = r[j] => i = j
  BY <1>1, SequenceFacts
<1>3. \A i \in 1..Len(r) : i \in 1..Len(q) \/ i = Len(q) + 1
  BY <1>1
<1>4. ToSet(r) = ToSet(q) \cup {d}
  <2>1. Len(q) + 1 \in 1..Len(r) /\ 1..Len(q) \subseteq 1..Len(r)
    BY <1>1
  <2> QED
    BY <1>1, <1>2, <1>3, <2>1
<1>5. ASSUME IsInjective(q), d \notin ToSet(q), NEW i \in 1..Len(r), NEW j \in 1..Len(r),
             r[i] = r[j]
      PROVE  i = j
  BY <1>1, <1>2, <1>3, <1>5
<1> QED
  BY <1>1, <1>2, <1>4, <1>5 DEF r

\* What was told last stays.
LEMMA NewestHasTheLast ==
    ASSUME NEW q \in Seq(Diagnostics), NEW d \in Diagnostics, NEW n \in Nat \ {0}
    PROVE  d \in ToSet(Newest(Append(q, d), n))
<1> DEFINE r == Append(q, d)
           m == IF Len(r) > n THEN Len(r) - n + 1 ELSE 1
           s == SubSeq(r, m, Len(r))
<1>1. /\ r \in Seq(Diagnostics) /\ Len(r) \in Nat \ {0} /\ r[Len(r)] = d /\ m \in 1..Len(r)
  OBVIOUS
<1>2. s = Newest(Append(q, d), n)
  BY DEF Newest
<1> HIDE DEF r, m
<1>3. /\ s \in Seq(Diagnostics) /\ Len(s) = Len(r) - m + 1
      /\ s[Len(r) - m + 1] = d
  BY <1>1
<1> HIDE DEF s
<1>4. ToSet(s) = {s[i] : i \in 1..Len(s)} /\ Len(r) - m + 1 \in 1..Len(s)
  BY <1>1, <1>3, SequenceFacts
<1> QED
  BY <1>2, <1>3, <1>4

\* What a sequence holds is its head and what its tail holds.
LEMMA HeadAndTail ==
    ASSUME NEW S, NEW q \in Seq(S), q # <<>>
    PROVE  /\ Head(q) \in S /\ Tail(q) \in Seq(S)
           /\ ToSet(q) = {Head(q)} \cup ToSet(Tail(q))
<1>1. /\ Len(q) \in Nat \ {0} /\ Head(q) = q[1] /\ q[1] \in S
      /\ Tail(q) \in Seq(S) /\ Len(Tail(q)) = Len(q) - 1
      /\ \A i \in 1..Len(q) - 1 : Tail(q)[i] = q[i + 1]
  OBVIOUS
<1>2. ToSet(Tail(q)) = {Tail(q)[i] : i \in 1..Len(q) - 1} /\ ToSet(q) = {q[i] : i \in 1..Len(q)}
  <2> DEFINE t == Tail(q)
  <2>1. t \in Seq(S) /\ Len(t) = Len(q) - 1
    BY <1>1
  <2> HIDE DEF t
  <2>2. ToSet(t) = {t[i] : i \in 1..Len(t)}
    BY <2>1, SequenceFacts
  <2>3. ToSet(q) = {q[i] : i \in 1..Len(q)}
    BY SequenceFacts
  <2> QED
    BY <2>1, <2>2, <2>3 DEF t
<1>3. ASSUME NEW d \in ToSet(q) PROVE d = Head(q) \/ d \in ToSet(Tail(q))
  <2>1. PICK i \in 1..Len(q) : d = q[i]
    BY <1>2
  <2>2. CASE i = 1
    BY <2>1, <2>2, <1>1
  <2>3. CASE i # 1
    <3>1. i - 1 \in 1..Len(q) - 1 /\ (i - 1) + 1 = i
      BY <2>3, <1>1
    <3>2. d = Tail(q)[i - 1]
      BY <3>1, <2>1, <1>1
    <3> QED
      BY <3>1, <3>2, <1>2
  <2> QED
    BY <2>2, <2>3
<1>4. Head(q) \in ToSet(q)
  BY <1>1, <1>2
<1>5. ASSUME NEW d \in ToSet(Tail(q)) PROVE d \in ToSet(q)
  <2>1. PICK i \in 1..Len(q) - 1 : d = Tail(q)[i]
    BY <1>2
  <2>2. d = q[i + 1] /\ i + 1 \in 1..Len(q)
    BY <2>1, <1>1
  <2> QED
    BY <2>2, <1>2
<1> QED
  BY <1>1, <1>3, <1>4, <1>5

-------------------------------------------------------------------------------
(* The inductive invariant.                                                  *)

Places == {"off", "free", "append", "call", "delete", "read", "replace", "done"}

WriterStates == [at : Places, starting : BOOLEAN, inCall : BOOLEAN, rest : Seq(Diagnostics),
                 line : 0..nextRow - 1, lines : SUBSET (1..nextRow - 1)]

\* Types: the line that is to be appended is the line of a row that was recorded.
EventTypes ==
    /\ nextRow \in Nat \ {0} /\ days \in Nat
    /\ events \subseteq [number : 1..nextRow - 1, source : Diagnostics \cup {None}, day : Nat]
    /\ total \in Nat \cup {None} /\ log \subseteq 1..nextRow - 1
    /\ writer \in [Writers -> WriterStates]
    /\ \A p \in Writers : writer[p].at = "append" => writer[p].line # 0
    /\ calls \in Seq(Seq(Diagnostics))
    /\ history \in [recorded : Nat, told : SUBSET Diagnostics, settled : SUBSET Diagnostics,
                    forgotten : SUBSET (Diagnostics \cup {None}), excused : SUBSET Diagnostics]

\* The extension's queue and what is stored of it hold what was told, and a batch
\* that awaits its answer is the last call that was sent.
QueuesKept ==
    /\ QueueFits(queue, history.told) /\ QueueFits(saved, history.told)
    /\ batch # None =>
          /\ batch \in Seq(Diagnostics) /\ Len(batch) \in 1..BatchSize
          /\ calls # <<>> => calls[Len(calls)] = batch

\* The total is made when the daemon first starts, of all rows that were recorded.
TotalsKept ==
    /\ TotalsNeverForget
    /\ total = None => /\ Cardinality(events) = history.recorded
                       /\ \A p \in Writers : writer[p].at = "off"

\* What the call at work has had so far is settled.
CallKept ==
    LET w == writer["daemon"]
    IN  /\ w.at = "call" => w.inCall
        /\ w.at \in {"call", "append"} /\ w.inCall =>
              /\ calls # <<>>
              /\ ToSet(Head(calls)) \subseteq history.settled \cup ToSet(w.rest)

\* What was settled was rejected, has a row, or had one.
SettledKept == \A d \in history.settled : d \in Invalid \cup history.forgotten \/ Known(d)

\* The inductive invariant.
EventsKept ==
    EventTypes /\ QueuesKept /\ TotalsKept /\ CallKept /\ SettledKept /\ NoneIsLost

-------------------------------------------------------------------------------
(* Each step keeps it.                                                       *)

\* A writer between two operations, and one that is not running.
LEMMA WaitingFits ==
    ASSUME nextRow \in Nat \ {0}
    PROVE  /\ Waiting \in WriterStates /\ Stopped \in WriterStates
           /\ Waiting.at = "free" /\ ~Waiting.inCall /\ Stopped.at = "off"
<1>1. <<>> \in Seq(Diagnostics) /\ 0 \in 0..nextRow - 1 /\ {} \in SUBSET (1..nextRow - 1)
  OBVIOUS
<1>2. Waiting \in WriterStates
  BY <1>1 DEF WriterStates, Waiting, Places
<1>3. Stopped \in WriterStates
  BY <1>2 DEF WriterStates, Places, Stopped
<1>4. Stopped.at = "off"
  BY <1>2 DEF WriterStates, Stopped
<1> QED
  BY <1>2, <1>3, <1>4 DEF Waiting

\* The first state.
LEMMA EventsBegin == EventsInit => EventsKept
<1> SUFFICES ASSUME EventsInit PROVE EventsKept
  OBVIOUS
<1> USE EventAssumption DEF EventsInit
<1>1. EventTypes
  <2>1. <<>> \in Seq(Diagnostics) /\ <<>> \in Seq(Seq(Diagnostics))
    OBVIOUS
  <2>2. Cardinality(events) \in Nat
    <3>1. IsFiniteSet({}) /\ IsFiniteSet({[number |-> 1, source |-> None, day |-> 0]})
      BY FS_EmptySet, FS_Singleton
    <3> QED
      BY <3>1, FS_CardinalityType
  <2>3. Stopped \in WriterStates
    BY WaitingFits
  <2>4. writer \in [Writers -> WriterStates] /\ \A p \in Writers : writer[p].at = "off"
    BY <2>3 DEF Stopped, Waiting
  <2>5. events \subseteq [number : 1..nextRow - 1, source : Diagnostics \cup {None}, day : Nat]
    OBVIOUS
  <2>6. log \subseteq 1..nextRow - 1
    BY <2>5
  <2>7. /\ history.recorded \in Nat
        /\ history \in [recorded : Nat, told : SUBSET Diagnostics, settled : SUBSET Diagnostics,
                    forgotten : SUBSET (Diagnostics \cup {None}), excused : SUBSET Diagnostics]
    BY <2>2
  <2> QED
    BY <2>1, <2>4, <2>5, <2>6, <2>7 DEF EventTypes
<1>2. QueuesKept
  <2>1. <<>> \in Seq(Diagnostics) /\ Len(<<>>) = 0 /\ ToSet(<<>>) = {} /\ IsInjective(<<>>)
    BY DEF ToSet, IsInjective
  <2> QED
    BY <2>1 DEF QueuesKept, QueueFits
<1>3. TotalsKept
  BY DEF TotalsKept, TotalsNeverForget, Stopped, Waiting, Writers
<1>4. CallKept /\ SettledKept /\ NoneIsLost
  BY DEF CallKept, SettledKept, NoneIsLost, Stopped, Waiting, Writers
<1> QED
  BY <1>1, <1>2, <1>3, <1>4 DEF EventsKept

\* The extension's own steps leave the daemon's state alone.
LEMMA DaemonUntouched ==
    ASSUME EventsKept, daemonSide' = daemonSide, days' = days,
           history'.recorded = history.recorded, history'.settled = history.settled,
           history'.forgotten = history.forgotten
    PROVE  TotalsKept' /\ SettledKept'
<1> USE DEF EventsKept, daemonSide
<1>1. TotalsKept'
  BY DEF TotalsKept, TotalsNeverForget
<1>2. SettledKept'
  BY DEF SettledKept, Known
<1> QED
  BY <1>1, <1>2

\* Each action.  The extension queues, stores, sends, gives up and starts again.
LEMMA QueueKeeps ==
    ASSUME EventsKept, NEW d \in Diagnostics, Queue(d)
    PROVE  EventsKept'
<1> USE EventAssumption
<1> DEFINE more == Append(queue, d)
<1>1. /\ d \notin history.told /\ queue' = Newest(more, QueueLength)
      /\ history' = [history EXCEPT !.told = @ \cup {d},
                       !.excused = @ \cup (ToSet(queue) \ ToSet(queue'))]
      /\ UNCHANGED <<events, nextRow, total, log, writer, calls, saved, batch, days>>
  BY DEF Queue, daemonSide
<1>2. EventTypes /\ QueuesKept /\ CallKept /\ NoneIsLost
  BY DEF EventsKept
<1>3. QueueFits(queue, history.told) /\ QueueFits(saved, history.told)
  BY <1>2 DEF QueuesKept
<1>4. /\ more \in Seq(Diagnostics) /\ ToSet(more) = ToSet(queue) \cup {d}
      /\ IsInjective(more)
  BY <1>1, <1>3, AppendedIsNew DEF QueueFits
<1> HIDE DEF more
<1>5. /\ queue' \in Seq(Diagnostics) /\ Len(queue') <= QueueLength
      /\ ToSet(queue') \subseteq ToSet(more) /\ IsInjective(queue')
  BY <1>1, <1>4, NewestAreOfTheQueue
<1>6. /\ history'.told = history.told \cup {d}
      /\ history'.excused = history.excused \cup (ToSet(queue) \ ToSet(queue'))
      /\ history'.recorded = history.recorded /\ history'.settled = history.settled
      /\ history'.forgotten = history.forgotten
  BY <1>1, <1>2 DEF EventTypes
<1>7. EventTypes'
  <2>1. ToSet(queue) \subseteq Diagnostics
    BY <1>3, SequenceFacts DEF QueueFits
  <2>2. history' \in [recorded : Nat, told : SUBSET Diagnostics, settled : SUBSET Diagnostics,
                    forgotten : SUBSET (Diagnostics \cup {None}), excused : SUBSET Diagnostics]
    BY <1>1, <1>2, <2>1 DEF EventTypes
  <2> QED
    BY <1>1, <1>2, <2>2 DEF EventTypes, WriterStates
<1>8. QueuesKept'
  BY <1>1, <1>2, <1>3, <1>4, <1>5, <1>6 DEF QueuesKept, QueueFits
<1>9. TotalsKept' /\ SettledKept'
  BY <1>1, <1>6, DaemonUntouched DEF daemonSide
<1>10. CallKept'
  BY <1>1, <1>2, <1>6 DEF CallKept
<1>11. NoneIsLost'
  <2>1. d \in ToSet(queue')
    BY <1>1, <1>3, <1>5, NewestHasTheLast DEF QueueFits, more
  <2> QED
    BY <1>1, <1>2, <1>6, <2>1 DEF NoneIsLost
<1> QED
  BY <1>7, <1>8, <1>9, <1>10, <1>11 DEF EventsKept

\* What is stored is what is queued.
LEMMA PersistKeeps == EventsKept /\ PersistQueue => EventsKept'
<1> SUFFICES ASSUME EventsKept, PersistQueue PROVE EventsKept'
  OBVIOUS
<1>1. saved' = queue /\ UNCHANGED <<events, nextRow, total, log, writer, calls, queue, batch,
                                    history, days>>
  BY DEF PersistQueue, daemonSide
<1>2. TotalsKept' /\ SettledKept'
  BY <1>1, DaemonUntouched DEF daemonSide
<1>3. EventTypes' /\ QueuesKept' /\ CallKept' /\ NoneIsLost'
  BY <1>1 DEF EventsKept, EventTypes, WriterStates, QueuesKept, QueueFits, CallKept, NoneIsLost
<1> QED
  BY <1>2, <1>3 DEF EventsKept

\* The batch that is sent becomes the last call.
LEMMA FlushKeeps == EventsKept /\ Flush => EventsKept'
<1> SUFFICES ASSUME EventsKept, Flush PROVE EventsKept'
  OBVIOUS
<1> USE EventAssumption
<1> DEFINE n == IF Len(queue) < BatchSize THEN Len(queue) ELSE BatchSize
<1>1. /\ queue # <<>> /\ batch' = SubSeq(queue, 1, n) /\ calls' = Append(calls, batch')
      /\ UNCHANGED <<events, nextRow, total, log, writer, queue, saved, history, days>>
  BY DEF Flush, daemonSide
<1>2. EventTypes /\ QueuesKept /\ CallKept
  BY DEF EventsKept
<1>3. queue \in Seq(Diagnostics) /\ calls \in Seq(Seq(Diagnostics))
  BY <1>2 DEF QueuesKept, QueueFits, EventTypes
<1>4. n \in 1..Len(queue) /\ n \in 1..BatchSize
  BY <1>1, <1>3
<1> HIDE DEF n
<1>5. batch' \in Seq(Diagnostics) /\ Len(batch') = n
  BY <1>1, <1>3, <1>4
<1>6. /\ calls' \in Seq(Seq(Diagnostics)) /\ calls' # <<>> /\ calls'[Len(calls')] = batch'
      /\ calls # <<>> => Head(calls') = Head(calls)
  <2>1. /\ calls' \in Seq(Seq(Diagnostics)) /\ calls' # <<>>
        /\ calls'[Len(calls')] = batch'
    <3>1. /\ calls' \in Seq(Seq(Diagnostics)) /\ calls' # <<>>
          /\ Len(calls') = Len(calls) + 1 /\ calls'[Len(calls) + 1] = batch'
      BY <1>1, <1>3, <1>5, AppendProperties
    <3> QED
      BY <3>1
  <2>2. Head(calls') = IF calls = <<>> THEN batch' ELSE Head(calls)
    BY <1>1, <1>3, HeadTailAppend
  <2> QED
    BY <2>1, <2>2
<1>7. EventTypes'
  BY <1>1, <1>2, <1>6 DEF EventTypes, WriterStates
<1>8. QueuesKept'
  BY <1>1, <1>2, <1>4, <1>5, <1>6 DEF QueuesKept, QueueFits
<1>9. TotalsKept' /\ SettledKept'
  BY <1>1, DaemonUntouched DEF daemonSide
<1>10. CallKept'
  BY <1>1, <1>2, <1>6 DEF CallKept
<1>11. NoneIsLost'
  BY <1>1 DEF EventsKept, NoneIsLost
<1> QED
  BY <1>7, <1>8, <1>9, <1>10, <1>11 DEF EventsKept

\* A batch that is given up stays in the queue.
LEMMA TimeOutKeeps == EventsKept /\ TimeOut => EventsKept'
<1> SUFFICES ASSUME EventsKept, TimeOut PROVE EventsKept'
  OBVIOUS
<1>1. batch' = None /\ UNCHANGED <<events, nextRow, total, log, writer, calls, queue, saved,
                                   history, days>>
  BY DEF TimeOut, daemonSide
<1>2. TotalsKept' /\ SettledKept'
  BY <1>1, DaemonUntouched DEF daemonSide
<1>3. EventTypes' /\ QueuesKept' /\ CallKept' /\ NoneIsLost'
  BY <1>1 DEF EventsKept, EventTypes, WriterStates, QueuesKept, QueueFits, CallKept, NoneIsLost
<1> QED
  BY <1>2, <1>3 DEF EventsKept

\* What was not stored is excused.
LEMMA RestartKeeps == EventsKept /\ RestartWorker => EventsKept'
<1> SUFFICES ASSUME EventsKept, RestartWorker PROVE EventsKept'
  OBVIOUS
<1> USE EventAssumption
<1>1. /\ queue' = Newest(saved, QueueLength) /\ batch' = None
      /\ history' = [history EXCEPT !.excused = @ \cup (ToSet(queue) \ ToSet(saved))]
      /\ UNCHANGED <<events, nextRow, total, log, writer, calls, saved, days>>
  BY DEF RestartWorker, daemonSide
<1>2. EventTypes /\ QueuesKept /\ CallKept /\ NoneIsLost
  BY DEF EventsKept
<1>3. QueueFits(queue, history.told) /\ QueueFits(saved, history.told)
  BY <1>2 DEF QueuesKept
<1>4. queue' = saved
  BY <1>1, <1>3, NewestAreOfTheQueue DEF QueueFits
<1>5. /\ history'.excused = history.excused \cup (ToSet(queue) \ ToSet(saved))
      /\ history'.recorded = history.recorded /\ history'.settled = history.settled
      /\ history'.forgotten = history.forgotten /\ history'.told = history.told
  BY <1>1, <1>2 DEF EventTypes
<1>6. EventTypes'
  <2>1. ToSet(queue) \subseteq Diagnostics
    BY <1>3, SequenceFacts DEF QueueFits
  <2>2. history' \in [recorded : Nat, told : SUBSET Diagnostics, settled : SUBSET Diagnostics,
                    forgotten : SUBSET (Diagnostics \cup {None}), excused : SUBSET Diagnostics]
    BY <1>1, <1>2, <2>1 DEF EventTypes
  <2> QED
    BY <1>1, <1>2, <2>2 DEF EventTypes, WriterStates
<1>7. QueuesKept'
  BY <1>1, <1>3, <1>4, <1>5 DEF QueuesKept, QueueFits
<1>8. TotalsKept' /\ SettledKept'
  BY <1>1, <1>5, DaemonUntouched DEF daemonSide
<1>9. CallKept' /\ NoneIsLost'
  BY <1>1, <1>2, <1>4, <1>5 DEF CallKept, NoneIsLost
<1> QED
  BY <1>6, <1>7, <1>8, <1>9 DEF EventsKept

\* A row is recorded: one more in the table and in the total.
LEMMA RecordedKeeps ==
    ASSUME EventsKept, NEW source \in Diagnostics \cup {None}, NEW then \in WriterStates,
           Recorded(source, then), UNCHANGED <<calls, queue, saved, batch, days>>,
           writer["daemon"].at # "off",
           then.inCall =>
              /\ calls # <<>>
              /\ ToSet(Head(calls)) \subseteq history.settled \cup {source} \cup ToSet(then.rest),
           then.inCall => source # None
    PROVE  EventsKept'
<1> USE EventAssumption
<1> DEFINE new == [then EXCEPT !.at = "append", !.line = nextRow]
           row == [number |-> nextRow, source |-> source, day |-> days]
<1>1. /\ events' = events \cup {row} /\ nextRow' = nextRow + 1 /\ total' = total + 1
      /\ history' = [history EXCEPT !.recorded = @ + 1, !.settled = @ \cup ({source} \ {None})]
      /\ writer' = [writer EXCEPT !["daemon"] = new] /\ log' = log
      /\ UNCHANGED <<calls, queue, saved, batch, days>>
  BY DEF Recorded
<1>2. EventTypes /\ QueuesKept /\ TotalsKept /\ SettledKept /\ NoneIsLost
  BY DEF EventsKept
<1>3. nextRow \in Nat \ {0} /\ total \in Nat /\ total = history.recorded
  BY <1>2 DEF EventTypes, TotalsKept, TotalsNeverForget, Writers
<1>4. /\ new \in [at : Places, starting : BOOLEAN, inCall : BOOLEAN, rest : Seq(Diagnostics),
                  line : 0..nextRow, lines : SUBSET (1..nextRow)]
      /\ new.at = "append" /\ new.line = nextRow /\ new.inCall = then.inCall
      /\ new.rest = then.rest
  <2>1. then \in [at : Places, starting : BOOLEAN, inCall : BOOLEAN, rest : Seq(Diagnostics),
                  line : 0..nextRow, lines : SUBSET (1..nextRow)]
    BY <1>3 DEF WriterStates
  <2>2. nextRow \in 0..nextRow /\ "append" \in Places
    BY <1>3 DEF Places
  <2> QED
    BY <2>1, <2>2
<1> HIDE DEF new
<1>5. /\ history'.settled = history.settled \cup ({source} \ {None})
      /\ history'.recorded = history.recorded + 1 /\ history'.told = history.told
      /\ history'.forgotten = history.forgotten /\ history'.excused = history.excused
      /\ history' \in [recorded : Nat, told : SUBSET Diagnostics, settled : SUBSET Diagnostics,
                    forgotten : SUBSET (Diagnostics \cup {None}), excused : SUBSET Diagnostics]
  <2>1. /\ {source} \ {None} \subseteq Diagnostics
        /\ history \in [recorded : Nat, told : SUBSET Diagnostics, settled : SUBSET Diagnostics,
                    forgotten : SUBSET (Diagnostics \cup {None}), excused : SUBSET Diagnostics]
    BY <1>2 DEF EventTypes
  <2>2. /\ history'.settled = history.settled \cup ({source} \ {None})
        /\ history'.recorded = history.recorded + 1 /\ history'.told = history.told
        /\ history'.forgotten = history.forgotten /\ history'.excused = history.excused
    BY <1>1, <2>1
  <2>3. history'.settled \in SUBSET Diagnostics /\ history'.recorded \in Nat
    BY <2>1, <2>2
  <2>4. history' \in [recorded : Nat, told : SUBSET Diagnostics, settled : SUBSET Diagnostics,
                    forgotten : SUBSET (Diagnostics \cup {None}), excused : SUBSET Diagnostics]
    BY <1>1, <2>1, <2>3
  <2> QED
    BY <2>2, <2>4
<1>6. EventTypes'
  <2>1. nextRow' - 1 = nextRow /\ 1..nextRow - 1 \subseteq 1..nextRow
        /\ 0..nextRow - 1 \subseteq 0..nextRow
    BY <1>1, <1>3
  <2>2. events' \subseteq [number : 1..nextRow' - 1, source : Diagnostics \cup {None}, day : Nat]
    <3>1. row \in [number : 1..nextRow, source : Diagnostics \cup {None}, day : Nat]
      BY <1>2, <1>3 DEF EventTypes
    <3>2. events \subseteq [number : 1..nextRow, source : Diagnostics \cup {None}, day : Nat]
      BY <1>2, <2>1 DEF EventTypes
    <3> QED
      BY <1>1, <2>1, <3>1, <3>2
  <2>3. ASSUME NEW p \in Writers
        PROVE  writer'[p] \in WriterStates' /\ (writer'[p].at = "append" => writer'[p].line # 0)
    <3>1. CASE p = "daemon"
      BY <3>1, <1>1, <1>2, <1>3, <1>4, <2>1 DEF EventTypes, WriterStates
    <3>2. CASE p # "daemon"
      <4>1. writer'[p] = writer[p] /\ writer[p] \in WriterStates
        BY <3>2, <1>1, <1>2 DEF EventTypes
      <4>2. writer[p] \in WriterStates'
        BY <4>1, <2>1 DEF WriterStates
      <4> QED
        BY <4>1, <4>2, <1>2 DEF EventTypes
    <3> QED
      BY <3>1, <3>2
  <2>4. writer' \in [Writers -> WriterStates']
    <3>1. writer' = [p \in Writers |-> writer'[p]]
      BY <1>1, <1>2 DEF EventTypes
    <3> QED
      BY <3>1, <2>3
  <2> QED
    BY <1>1, <1>2, <1>3, <1>5, <2>1, <2>2, <2>3, <2>4 DEF EventTypes
<1>7. QueuesKept' /\ NoneIsLost'
  BY <1>1, <1>2, <1>5 DEF QueuesKept, QueueFits, NoneIsLost
<1>8. TotalsKept'
  BY <1>1, <1>2, <1>3, <1>5 DEF TotalsKept, TotalsNeverForget
<1>9. CallKept'
  BY <1>1, <1>2, <1>4, <1>5 DEF CallKept, EventTypes, Writers
<1>10. SettledKept'
  <2>1. row \in events' /\ row.source = source /\ events \subseteq events'
    BY <1>1
  <2> HIDE DEF row
  <2>2. Known(source)' /\ \A d : Known(d) => Known(d)'
    BY <2>1 DEF Known
  <2> QED
    BY <1>2, <1>5, <2>2 DEF SettledKept
<1> QED
  BY <1>6, <1>7, <1>8, <1>9, <1>10 DEF EventsKept

\* An event of the daemon itself.
LEMMA RecordEventKeeps == EventsKept /\ RecordEvent => EventsKept'
<1> SUFFICES ASSUME EventsKept, RecordEvent PROVE EventsKept'
  OBVIOUS
<1>1. /\ writer["daemon"].at = "free" /\ Recorded(None, Waiting)
      /\ UNCHANGED <<calls, queue, saved, batch, days>>
  BY DEF RecordEvent, DaemonWriter, extensionSide
<1>2. Waiting \in WriterStates /\ ~Waiting.inCall
  BY WaitingFits DEF EventsKept, EventTypes
<1> QED
  BY <1>1, <1>2, RecordedKeeps

\* The daemon takes up a call: nothing of it is settled yet.
LEMMA ReceiveKeeps == EventsKept /\ Receive => EventsKept'
<1> SUFFICES ASSUME EventsKept, Receive PROVE EventsKept'
  OBVIOUS
<1> DEFINE new == [Waiting EXCEPT !.at = "call", !.inCall = TRUE, !.rest = Head(calls)]
<1>1. /\ writer["daemon"].at = "free" /\ calls # <<>>
      /\ writer' = [writer EXCEPT !["daemon"] = new]
      /\ UNCHANGED <<events, nextRow, total, log, calls, queue, saved, batch, history, days>>
  BY DEF Receive, DaemonWriter, extensionSide
<1>2. EventTypes /\ QueuesKept /\ TotalsKept /\ SettledKept /\ NoneIsLost
  BY DEF EventsKept
<1>3. Head(calls) \in Seq(Diagnostics) /\ nextRow \in Nat \ {0}
  BY <1>1, <1>2 DEF EventTypes
<1>4. new \in WriterStates /\ new.at = "call" /\ new.inCall /\ new.rest = Head(calls)
  BY <1>3, WaitingFits DEF WriterStates, Waiting, Places
<1> HIDE DEF new
<1>5. EventTypes'
  BY <1>1, <1>2, <1>4 DEF EventTypes, WriterStates, Writers
<1>6. QueuesKept' /\ SettledKept' /\ NoneIsLost'
  BY <1>1, <1>2 DEF QueuesKept, QueueFits, SettledKept, Known, NoneIsLost
<1>7. TotalsKept'
  BY <1>1, <1>2 DEF TotalsKept, TotalsNeverForget, Writers
<1>8. CallKept'
  BY <1>1, <1>2, <1>4 DEF CallKept, EventTypes, Writers
<1> QED
  BY <1>5, <1>6, <1>7, <1>8 DEF EventsKept

\* What is recorded has not been settled, or is forgotten: the rows are looked through.
LEMMA RecordDiagnosticKeeps ==
    ASSUME EventsKept, RecordDiagnostic
    PROVE  EventsKept'
<1> DEFINE w == writer["daemon"]
           d == Head(w.rest)
           after == [w EXCEPT !.rest = Tail(@)]
<1>1. /\ w.at = "call" /\ w.rest # <<>>
      /\ IF Refused(d)
           THEN /\ writer' = [writer EXCEPT !["daemon"] = after]
                /\ history' = [history EXCEPT !.settled = @ \cup {d}]
                /\ UNCHANGED <<events, nextRow, total, log>>
           ELSE Recorded(d, after)
      /\ UNCHANGED <<calls, queue, saved, batch, days>>
  BY DEF RecordDiagnostic, DaemonWriter, extensionSide
<1>2. EventTypes /\ QueuesKept /\ TotalsKept /\ CallKept /\ SettledKept /\ NoneIsLost
  BY DEF EventsKept
<1>3. w \in WriterStates
  BY <1>2 DEF EventTypes, Writers
<1>4. /\ d \in Diagnostics /\ Tail(w.rest) \in Seq(Diagnostics)
      /\ ToSet(w.rest) = {d} \cup ToSet(Tail(w.rest))
  <2>1. w.rest \in Seq(Diagnostics)
    BY <1>3 DEF WriterStates
  <2> QED
    BY <2>1, <1>1, HeadAndTail
<1>5. /\ after \in WriterStates /\ after.rest = Tail(w.rest) /\ after.inCall /\ after.at = "call"
      /\ calls # <<>> /\ ToSet(Head(calls)) \subseteq history.settled \cup {d} \cup ToSet(after.rest)
  BY <1>1, <1>2, <1>3, <1>4 DEF WriterStates, CallKept
<1>6. CASE ~Refused(d)
  <2>1. Recorded(d, after) /\ UNCHANGED <<calls, queue, saved, batch, days>>
    BY <1>1, <1>6
  <2>2. d \in Diagnostics \cup {None} /\ d # None /\ writer["daemon"].at # "off"
    BY <1>1, <1>4, EventAssumption
  <2> HIDE DEF after, d
  <2> QED
    BY <2>1, <2>2, <1>5, RecordedKeeps
<1>7. CASE Refused(d)
  <2>1. /\ writer' = [writer EXCEPT !["daemon"] = after]
        /\ history' = [history EXCEPT !.settled = @ \cup {d}]
        /\ UNCHANGED <<events, nextRow, total, log, calls, queue, saved, batch, days>>
    BY <1>1, <1>7
  <2>2. d \in Invalid \/ Known(d)
    BY <1>7 DEF Refused
  <2> HIDE DEF after, d
  <2>3. /\ history'.settled = history.settled \cup {d} /\ history'.told = history.told
        /\ history'.recorded = history.recorded /\ history'.forgotten = history.forgotten
        /\ history'.excused = history.excused
        /\ history' \in [recorded : Nat, told : SUBSET Diagnostics, settled : SUBSET Diagnostics,
                    forgotten : SUBSET (Diagnostics \cup {None}), excused : SUBSET Diagnostics]
    BY <2>1, <1>2, <1>4 DEF EventTypes
  <2>4. EventTypes'
    BY <2>1, <2>3, <1>2, <1>5 DEF EventTypes, WriterStates, Writers
  <2>5. QueuesKept' /\ NoneIsLost'
    BY <2>1, <2>3, <1>2 DEF QueuesKept, QueueFits, NoneIsLost
  <2>6. TotalsKept'
    BY <2>1, <2>3, <1>1, <1>2 DEF TotalsKept, TotalsNeverForget, Writers
  <2>7. CallKept'
    BY <2>1, <2>3, <1>2, <1>5 DEF CallKept, EventTypes, Writers
  <2>8. SettledKept'
    BY <2>1, <2>2, <2>3, <1>2 DEF SettledKept, Known
  <2> QED
    BY <2>4, <2>5, <2>6, <2>7, <2>8 DEF EventsKept
<1> QED
  BY <1>6, <1>7

\* Steps of a writer that leave its rows and calls as they are.
LEMMA WriterMoves ==
    ASSUME EventsKept, NEW p \in Writers, NEW new \in WriterStates,
           writer' = [writer EXCEPT ![p] = new],
           total' = total, total # None \/ new.at = "off",
           UNCHANGED <<events, nextRow, calls, queue, saved, batch, history, days>>,
           log' \subseteq 1..nextRow - 1, new.at # "append",
           new.at = "call" => p = "daemon" /\ new.inCall /\ writer["daemon"].inCall
                              /\ writer["daemon"].at \in {"call", "append"}
                              /\ new.rest = writer["daemon"].rest
    PROVE  EventsKept'
<1>1. EventTypes /\ QueuesKept /\ TotalsKept /\ CallKept /\ SettledKept /\ NoneIsLost
  BY DEF EventsKept
<1>2. EventTypes'
  BY <1>1 DEF EventTypes, WriterStates, Writers
<1>3. QueuesKept' /\ SettledKept' /\ NoneIsLost'
  BY <1>1 DEF QueuesKept, QueueFits, SettledKept, Known, NoneIsLost
<1>4. TotalsKept'
  BY <1>1 DEF TotalsKept, TotalsNeverForget, EventTypes, Writers
<1>5. CallKept'
  <2>1. writer' = [q \in Writers |-> IF q = p THEN new ELSE writer[q]]
    BY <1>1 DEF EventTypes
  <2>2. CASE p = "daemon"
    BY <1>1, <2>1, <2>2 DEF CallKept, Writers
  <2>3. CASE p # "daemon"
    BY <1>1, <2>1, <2>3 DEF CallKept, Writers
  <2> QED
    BY <2>2, <2>3
<1> QED
  BY <1>2, <1>3, <1>4, <1>5 DEF EventsKept

\* A call is answered: the queue loses the batch, all of it settled, or nothing.
LEMMA ReplyKeeps ==
    ASSUME EventsKept, NEW accepted \in BOOLEAN, Reply(accepted),
           writer["daemon"].at = "call", accepted => writer["daemon"].rest = <<>>
    PROVE  EventsKept'
<1> DEFINE w == writer["daemon"]
<1>1. /\ calls' = Tail(calls) /\ writer' = [writer EXCEPT !["daemon"] = Waiting]
      /\ IF batch # None /\ Len(calls) = 1 THEN Answer(accepted) ELSE UNCHANGED <<queue, batch>>
      /\ UNCHANGED <<events, nextRow, total, log, saved, history, days>>
  BY DEF Reply
<1>2. EventTypes /\ QueuesKept /\ TotalsKept /\ CallKept /\ SettledKept /\ NoneIsLost
  BY DEF EventsKept
<1>3. calls # <<>> /\ ToSet(Head(calls)) \subseteq history.settled \cup ToSet(w.rest)
  BY <1>2 DEF CallKept
<1>4. /\ calls \in Seq(Seq(Diagnostics)) /\ Tail(calls) \in Seq(Seq(Diagnostics))
      /\ Head(calls) = calls[1] /\ Len(calls) \in Nat \ {0}
      /\ Tail(calls) # <<>> => /\ Len(calls) # 1
                               /\ Tail(calls)[Len(Tail(calls))] = calls[Len(calls)]
      /\ Len(calls) # 1 => Tail(calls) # <<>>
  <2>1. calls \in Seq(Seq(Diagnostics))
    BY <1>2 DEF EventTypes
  <2>2. /\ Tail(calls) \in Seq(Seq(Diagnostics)) /\ Head(calls) = calls[1]
        /\ Len(calls) \in Nat \ {0} /\ Len(Tail(calls)) = Len(calls) - 1
        /\ \A i \in 1..Len(calls) - 1 : Tail(calls)[i] = calls[i + 1]
    BY <1>3, <2>1
  <2> DEFINE t == Tail(calls)
  <2>6. /\ t \in Seq(Seq(Diagnostics)) /\ Len(t) = Len(calls) - 1
        /\ \A i \in 1..Len(calls) - 1 : t[i] = calls[i + 1]
    BY <2>2
  <2> HIDE DEF t
  <2>3. t # <<>> <=> Len(t) # 0
    BY <2>6, EmptySeq
  <2>4. t # <<>> => Len(calls) - 1 \in 1..Len(calls) - 1 /\ (Len(calls) - 1) + 1 = Len(calls)
    BY <2>2, <2>3, <2>6
  <2>5. t # <<>> => t[Len(t)] = calls[Len(calls)] /\ Len(calls) # 1
    BY <2>4, <2>6
  <2>7. Len(calls) # 1 => t # <<>>
    BY <2>2, <2>3, <2>6
  <2> QED
    BY <2>1, <2>2, <2>5, <2>7 DEF t
<1>5. EventTypes'
  BY <1>1, <1>2, <1>4, WaitingFits DEF EventTypes, WriterStates, Writers
<1>6. SettledKept'
  BY <1>1, <1>2 DEF SettledKept, Known
<1>7. TotalsKept'
  BY <1>1, <1>2 DEF TotalsKept, TotalsNeverForget, Writers
<1>8. CallKept'
  BY <1>1, <1>2, WaitingFits DEF CallKept, EventTypes, Writers
<1>9. queue \in Seq(Diagnostics) /\ QueueFits(queue, history.told)
  BY <1>2 DEF QueuesKept, QueueFits
<1>10. /\ Filtered(queue, Diagnostics \ ToSet(batch)) \in Seq(Diagnostics)
       /\ Len(Filtered(queue, Diagnostics \ ToSet(batch))) <= Len(queue)
       /\ ToSet(Filtered(queue, Diagnostics \ ToSet(batch))) = ToSet(queue) \ ToSet(batch)
       /\ IsInjective(Filtered(queue, Diagnostics \ ToSet(batch)))
  <2>1. ToSet(queue) \subseteq Diagnostics
    BY <1>9, SequenceFacts
  <2> QED
    BY <1>9, <2>1, FilteredIsTheRest DEF QueueFits
<1>11. CASE batch # None /\ Len(calls) = 1 /\ accepted
  <2>1. batch' = None /\ queue' = Filtered(queue, Diagnostics \ ToSet(batch))
    BY <1>1, <1>11 DEF Answer
  <2>2. Head(calls) = batch
    BY <1>2, <1>3, <1>4, <1>11 DEF QueuesKept
  <2>3. ToSet(batch) \subseteq history.settled
    BY <1>3, <1>11, <2>2 DEF ToSet
  <2>4. QueuesKept'
    <3>1. QueueFits(queue', history'.told)
      <4>1. Len(queue') <= Len(queue) /\ Len(queue) <= QueueLength
            /\ Len(queue') \in Nat /\ Len(queue) \in Nat
        BY <1>9, <1>10, <2>1, SequenceFacts DEF QueueFits
      <4>2. Len(queue') <= QueueLength
        BY <4>1, EventAssumption
      <4>3. ToSet(queue') \subseteq history'.told
        BY <1>1, <1>9, <1>10, <2>1 DEF QueueFits
      <4> QED
        BY <1>10, <2>1, <4>2, <4>3 DEF QueueFits
    <3> QED
      BY <1>1, <1>2, <2>1, <3>1 DEF QueuesKept, QueueFits
  <2>5. NoneIsLost'
    BY <1>1, <1>2, <1>10, <2>1, <2>3 DEF NoneIsLost
  <2> QED
    BY <2>4, <2>5, <1>5, <1>6, <1>7, <1>8 DEF EventsKept
<1>12. CASE ~ (batch # None /\ Len(calls) = 1 /\ accepted)
  <2>1. /\ queue' = queue
        /\ batch' = None \/ (batch' = batch /\ (batch # None => Len(calls) # 1))
    BY <1>1, <1>12 DEF Answer
  <2>2. QueuesKept'
    BY <1>1, <1>2, <1>4, <2>1 DEF QueuesKept, QueueFits
  <2>3. NoneIsLost'
    BY <1>1, <1>2, <2>1 DEF NoneIsLost
  <2> QED
    BY <2>2, <2>3, <1>5, <1>6, <1>7, <1>8 DEF EventsKept
<1> QED
  BY <1>11, <1>12

\* The end of a call.
LEMMA EndCallKeeps == EventsKept /\ EndCall => EventsKept'
  BY ReplyKeeps DEF EndCall, DaemonWriter

\* A line is appended, of a row that was recorded.
LEMMA AppendLineKeeps == EventsKept /\ AppendLine => EventsKept'
<1> SUFFICES ASSUME EventsKept, AppendLine PROVE EventsKept'
  OBVIOUS
<1> DEFINE w == writer["daemon"]
           new == [w EXCEPT !.at = IF w.inCall THEN "call" ELSE "free"]
<1>1. /\ w.at = "append" /\ log' \subseteq log \cup {w.line}
      /\ writer' = [writer EXCEPT !["daemon"].at = IF w.inCall THEN "call" ELSE "free"]
      /\ UNCHANGED <<events, nextRow, total, calls, queue, saved, batch, history, days>>
  BY DEF AppendLine, DaemonWriter, extensionSide
<1>2. /\ w \in WriterStates /\ w.line # 0 /\ log \subseteq 1..nextRow - 1 /\ nextRow \in Nat
      /\ writer \in [Writers -> WriterStates] /\ "daemon" \in Writers
  BY <1>1 DEF EventsKept, EventTypes, Writers
<1>3. w.line \in 1..nextRow - 1
  BY <1>2 DEF WriterStates
<1>4. writer' = [writer EXCEPT !["daemon"] = new]
  BY <1>1, <1>2
<1>5. /\ new \in WriterStates /\ new.at = (IF w.inCall THEN "call" ELSE "free")
      /\ new.inCall = w.inCall /\ new.rest = w.rest
  BY <1>2 DEF WriterStates, Places
<1>6. total # None
  BY <1>1, <1>2 DEF EventsKept, TotalsKept
<1> HIDE DEF new
<1>7. /\ log' \subseteq 1..nextRow - 1 /\ new.at # "append"
      /\ new.at = "call" => w.inCall /\ new.inCall
  BY <1>1, <1>2, <1>3, <1>5
<1> QED
  BY <1>1, <1>2, <1>4, <1>5, <1>6, <1>7, WriterMoves

\* The daily loop begins.
LEMMA MaintainKeeps == EventsKept /\ Maintain => EventsKept'
<1> SUFFICES ASSUME EventsKept, Maintain PROVE EventsKept'
  OBVIOUS
<1> DEFINE w == writer["daemon"]
           new == [w EXCEPT !.at = "delete"]
<1>1. /\ w.at = "free"
      /\ writer' = [writer EXCEPT !["daemon"].at = "delete"]
      /\ UNCHANGED <<events, nextRow, total, log, calls, queue, saved, batch, history, days>>
  BY DEF Maintain, DaemonWriter, extensionSide
<1>2. /\ w \in WriterStates /\ log \subseteq 1..nextRow - 1
      /\ writer \in [Writers -> WriterStates] /\ "daemon" \in Writers
  BY DEF EventsKept, EventTypes, Writers
<1>3. new \in WriterStates /\ new.at = "delete"
  BY <1>2 DEF WriterStates, Places
<1>4. writer' = [writer EXCEPT !["daemon"] = new] /\ total # None
  BY <1>1, <1>2 DEF EventsKept, TotalsKept
<1> HIDE DEF new
<1> QED
  BY <1>1, <1>2, <1>3, <1>4, WriterMoves

\* A start makes the total of an older database, of all the rows there are.
LEMMA StartWriterKeeps ==
    ASSUME EventsKept, NEW p \in Writers, StartWriter(p)
    PROVE  EventsKept'
<1> DEFINE new == [Waiting EXCEPT !.starting = TRUE,
                      !.at = IF ~tampered THEN "delete" ELSE "done"]
<1>1. /\ writer[p].at = "off" /\ total' = InitialTotal
      /\ writer' = [writer EXCEPT ![p] = new]
      /\ UNCHANGED <<events, nextRow, log, calls, queue, saved, batch, history, days>>
  BY DEF StartWriter, extensionSide
<1>2. EventTypes /\ QueuesKept /\ TotalsKept /\ CallKept /\ SettledKept /\ NoneIsLost
  BY DEF EventsKept
<1>3. new \in WriterStates /\ new.at \in {"delete", "done"}
  BY <1>2, WaitingFits DEF EventTypes, WriterStates, Places
<1> HIDE DEF new
<1>4. total' \in Nat /\ total' = history.recorded
  BY <1>1, <1>2 DEF InitialTotal, TotalsKept, TotalsNeverForget, EventTypes
<1>5. EventTypes'
  BY <1>1, <1>2, <1>3, <1>4 DEF EventTypes, WriterStates, Writers
<1>6. QueuesKept' /\ SettledKept' /\ NoneIsLost'
  BY <1>1, <1>2 DEF QueuesKept, QueueFits, SettledKept, Known, NoneIsLost
<1>7. TotalsKept'
  <2>1. None \notin Nat
    BY EventAssumption
  <2> QED
    BY <1>1, <1>4, <2>1 DEF TotalsKept, TotalsNeverForget
<1>8. CallKept'
  <2>1. writer' = [q \in Writers |-> IF q = p THEN new ELSE writer[q]]
    BY <1>1, <1>2 DEF EventTypes
  <2>2. CASE p = "daemon"
    BY <1>1, <1>3, <2>1, <2>2 DEF CallKept, Writers
  <2>3. CASE p # "daemon"
    BY <1>1, <1>2, <2>1, <2>3 DEF CallKept, Writers
  <2> QED
    BY <2>2, <2>3
<1> QED
  BY <1>5, <1>6, <1>7, <1>8 DEF EventsKept

\* A row that goes is remembered as forgotten.
LEMMA DeleteKeeps ==
    ASSUME EventsKept, NEW p \in Writers, Delete(p)
    PROVE  EventsKept'
<1> DEFINE new == [writer[p] EXCEPT !.at = "read"]
<1>1. /\ writer[p].at = "delete" /\ events' = events \ Old
      /\ history' = [history EXCEPT !.forgotten = @ \cup {row.source : row \in Old}]
      /\ writer' = [writer EXCEPT ![p].at = "read"]
      /\ UNCHANGED <<nextRow, total, log, calls, queue, saved, batch, days>>
  BY DEF Delete, extensionSide
<1>2. EventTypes /\ QueuesKept /\ TotalsKept /\ CallKept /\ SettledKept /\ NoneIsLost
  BY DEF EventsKept
<1>3. writer[p] \in WriterStates /\ writer \in [Writers -> WriterStates]
  BY <1>2 DEF EventTypes
<1>4. /\ new \in WriterStates /\ new.at = "read"
      /\ writer' = [writer EXCEPT ![p] = new] /\ total # None
  BY <1>1, <1>2, <1>3 DEF WriterStates, Places, TotalsKept
<1> HIDE DEF new
<1>5. Old \subseteq events /\ {row.source : row \in Old} \subseteq Diagnostics \cup {None}
  BY <1>2 DEF Old, EventTypes
<1>6. /\ history'.forgotten = history.forgotten \cup {row.source : row \in Old}
      /\ history'.recorded = history.recorded /\ history'.told = history.told
      /\ history'.settled = history.settled /\ history'.excused = history.excused
      /\ history' \in [recorded : Nat, told : SUBSET Diagnostics, settled : SUBSET Diagnostics,
                    forgotten : SUBSET (Diagnostics \cup {None}), excused : SUBSET Diagnostics]
  BY <1>1, <1>2, <1>5 DEF EventTypes
<1>7. EventTypes'
  <2>1. events' \subseteq [number : 1..nextRow - 1, source : Diagnostics \cup {None}, day : Nat]
    BY <1>1, <1>2 DEF EventTypes
  <2>2. WriterStates' = WriterStates
    BY <1>1 DEF WriterStates
  <2>3. writer' \in [Writers -> WriterStates']
        /\ \A q \in Writers : writer'[q].at = "append" => writer'[q].line # 0
    BY <1>2, <1>3, <1>4, <2>2 DEF EventTypes
  <2> QED
    BY <1>1, <1>2, <1>6, <2>1, <2>3 DEF EventTypes
<1>8. QueuesKept' /\ NoneIsLost'
  BY <1>1, <1>2, <1>6 DEF QueuesKept, QueueFits, NoneIsLost
<1>9. TotalsKept'
  BY <1>1, <1>2, <1>4, <1>6 DEF TotalsKept, TotalsNeverForget
<1>10. CallKept'
  <2>1. writer' = [q \in Writers |-> IF q = p THEN new ELSE writer[q]]
    BY <1>3, <1>4
  <2>2. CASE p = "daemon"
    BY <1>4, <2>1, <2>2 DEF CallKept, Writers
  <2>3. CASE p # "daemon"
    BY <1>1, <1>2, <1>6, <2>1, <2>3 DEF CallKept, Writers
  <2> QED
    BY <2>2, <2>3
<1>11. SettledKept'
  <2> SUFFICES ASSUME NEW d \in history.settled,
                      d \notin Invalid \cup history'.forgotten
               PROVE  Known(d)'
    BY <1>6 DEF SettledKept
  <2>1. PICK row \in events : row.source = d
    BY <1>2, <1>6 DEF SettledKept, Known
  <2>2. row \notin Old
    BY <2>1, <1>6
  <2> QED
    BY <1>1, <2>1, <2>2 DEF Known
<1> QED
  BY <1>7, <1>8, <1>9, <1>10, <1>11 DEF EventsKept

\* Retention reads the rows that remain.
LEMMA ReadRowsKeeps ==
    ASSUME EventsKept, NEW p \in Writers, ReadRows(p)
    PROVE  EventsKept'
<1> DEFINE rows == {row.number : row \in events}
           new == [writer[p] EXCEPT !.at = "replace", !.lines = rows]
<1>1. /\ writer[p].at = "read"
      /\ writer' = [writer EXCEPT ![p].at = "replace", ![p].lines = rows]
      /\ UNCHANGED <<events, nextRow, total, log, calls, queue, saved, batch, history, days>>
  BY DEF ReadRows, extensionSide
<1>2. /\ writer[p] \in WriterStates /\ log \subseteq 1..nextRow - 1
      /\ writer \in [Writers -> WriterStates] /\ rows \subseteq 1..nextRow - 1
  BY DEF EventsKept, EventTypes
<1> HIDE DEF rows
<1>3. new \in WriterStates /\ new.at = "replace"
  BY <1>2 DEF WriterStates, Places
<1>4. writer' = [writer EXCEPT ![p] = new] /\ total # None
  BY <1>1, <1>2 DEF EventsKept, TotalsKept
<1> HIDE DEF new
<1> QED
  BY <1>1, <1>2, <1>3, <1>4, WriterMoves

\* A new file has lines of rows that were recorded.
LEMMA ReplaceLogKeeps ==
    ASSUME EventsKept, NEW p \in Writers, ReplaceLog(p)
    PROVE  EventsKept'
<1>1. PICK new \in {[writer[p] EXCEPT !.at = "done", !.lines = {}], Stopped, Waiting} :
        /\ writer[p].at = "replace" /\ log' \in {log, writer[p].lines}
        /\ writer' = [writer EXCEPT ![p] = new]
        /\ UNCHANGED <<events, nextRow, total, calls, queue, saved, batch, history, days>>
  BY DEF ReplaceLog, NewFile, extensionSide
<1>2. /\ writer[p] \in WriterStates /\ log \subseteq 1..nextRow - 1 /\ total # None
      /\ nextRow \in Nat \ {0}
  BY <1>1 DEF EventsKept, EventTypes, TotalsKept
<1>3. new \in WriterStates /\ new.at \in {"done", "off", "free"}
  BY <1>1, <1>2, WaitingFits DEF WriterStates, Places
<1>4. log' \subseteq 1..nextRow - 1
  BY <1>1, <1>2 DEF WriterStates
<1> QED
  BY <1>1, <1>2, <1>3, <1>4, WriterMoves

\* Retention is done.
LEMMA DoneKeeps ==
    ASSUME EventsKept, NEW p \in Writers, Done(p)
    PROVE  EventsKept'
<1>1. PICK new \in {Stopped, Waiting} :
        /\ writer[p].at = "done" /\ writer' = [writer EXCEPT ![p] = new]
        /\ UNCHANGED <<events, nextRow, total, log, calls, queue, saved, batch, history, days>>
  BY DEF Done, extensionSide
<1>2. log \subseteq 1..nextRow - 1 /\ total # None /\ nextRow \in Nat \ {0}
  BY <1>1 DEF EventsKept, EventTypes, TotalsKept
<1>3. new \in WriterStates /\ new.at \in {"off", "free"}
  BY <1>1, <1>2, WaitingFits
<1> QED
  BY <1>1, <1>2, <1>3, WriterMoves

\* A crash or a stop of a writer loses the calls with the daemon.
LEMMA StopWriterKeeps ==
    ASSUME EventsKept, NEW p \in Writers, StopWriter(p)
    PROVE  EventsKept'
<1>1. /\ writer' = [writer EXCEPT ![p] = Stopped]
      /\ calls' = IF p = "daemon" THEN <<>> ELSE calls
      /\ UNCHANGED <<events, nextRow, total, log, queue, saved, batch, history, days>>
  BY DEF StopWriter, extensionSide
<1>2. EventTypes /\ QueuesKept /\ TotalsKept /\ CallKept /\ SettledKept /\ NoneIsLost
  BY DEF EventsKept
<1>3. Stopped \in WriterStates /\ Stopped.at = "off"
  BY <1>2, WaitingFits DEF EventTypes
<1>4. EventTypes'
  <2>1. calls' \in Seq(Seq(Diagnostics))
    BY <1>1, <1>2 DEF EventTypes
  <2> QED
    BY <1>1, <1>2, <1>3, <2>1 DEF EventTypes, WriterStates
<1>5. QueuesKept' /\ SettledKept' /\ NoneIsLost'
  BY <1>1, <1>2 DEF QueuesKept, QueueFits, SettledKept, Known, NoneIsLost
<1>6. TotalsKept'
  BY <1>1, <1>2, <1>3 DEF TotalsKept, TotalsNeverForget, EventTypes
<1>7. CallKept'
  <2>1. writer' = [q \in Writers |-> IF q = p THEN Stopped ELSE writer[q]]
    BY <1>1, <1>2 DEF EventTypes
  <2>2. CASE p = "daemon"
    BY <1>3, <2>1, <2>2 DEF CallKept, Writers
  <2>3. CASE p # "daemon"
    BY <1>1, <1>2, <2>1, <2>3 DEF CallKept, Writers
  <2> QED
    BY <2>2, <2>3
<1> QED
  BY <1>4, <1>5, <1>6, <1>7 DEF EventsKept

\* Time goes by, or the clock is found to be set.
LEMMA TimeKeeps == EventsKept /\ (Elapse \/ Tamper \/ UNCHANGED eventVars) => EventsKept'
<1> SUFFICES ASSUME EventsKept, Elapse \/ Tamper \/ UNCHANGED eventVars PROVE EventsKept'
  OBVIOUS
<1>1. /\ UNCHANGED <<events, nextRow, total, log, writer, calls, queue, saved, batch, history>>
      /\ days \in Nat => days' \in Nat
  BY DEF Elapse, Tamper, eventVars, daemonSide, extensionSide
<1> QED
  BY <1>1 DEF EventsKept, EventTypes, WriterStates, QueuesKept, QueueFits, TotalsKept,
              TotalsNeverForget, CallKept, SettledKept, Known, NoneIsLost

\* Through every run.
LEMMA EventsKeptAlways == EventsSpec => []EventsKept
<1>1. EventsKept /\ [EventsNext]_eventVars => EventsKept'
  <2> SUFFICES ASSUME EventsKept, EventsNext \/ UNCHANGED eventVars PROVE EventsKept'
    OBVIOUS
  <2>1. ASSUME NEW d \in Diagnostics, Queue(d) PROVE EventsKept'
    BY <2>1, QueueKeeps
  <2>2. CASE PersistQueue \/ Flush \/ TimeOut \/ RestartWorker
    BY <2>2, PersistKeeps, FlushKeeps, TimeOutKeeps, RestartKeeps
  <2>3. CASE RecordEvent \/ Receive \/ Work \/ Maintain
    BY <2>3, RecordEventKeeps, ReceiveKeeps, RecordDiagnosticKeeps, EndCallKeeps,
       AppendLineKeeps, MaintainKeeps DEF Work
  <2>4. ASSUME NEW p \in Writers, StartWriter(p) \/ Retain(p) \/ StopWriter(p)
        PROVE  EventsKept'
    BY <2>4, StartWriterKeeps, DeleteKeeps, ReadRowsKeeps, ReplaceLogKeeps, DoneKeeps,
       StopWriterKeeps DEF Retain
  <2>5. CASE Elapse \/ Tamper \/ UNCHANGED eventVars
    BY <2>5, TimeKeeps
  <2> QED
    BY <2>1, <2>2, <2>3, <2>4, <2>5 DEF EventsNext
<1> QED
  BY EventsBegin, <1>1, PTL DEF EventsSpec

-------------------------------------------------------------------------------
(* What follows.                                                             *)

\* EventInvariant: for any number of diagnostics, batches, failures and restarts, the total
\* counts what retention took away (db.rs, initialize_event_totals), and a diagnostic that was
\* told is queued, recorded or rejected unless the queue was full or the worker stopped.
THEOREM EventsAreKept == EventsSpec => []EventInvariant
<1>1. EventsKept => EventInvariant
  <2> SUFFICES ASSUME EventsKept PROVE EventTypeOK
    BY DEF EventInvariant, EventsKept, TotalsKept
  <2>1. EventTypes /\ QueuesKept
    BY DEF EventsKept
  <2>2. \A row \in events : row.number < nextRow /\ row.source \in Diagnostics \cup {None}
    BY <2>1 DEF EventTypes
  <2>3. \A p \in Writers : writer[p].at \in Places
    BY <2>1 DEF EventTypes, WriterStates
  <2> QED
    BY <2>1, <2>2, <2>3 DEF EventTypeOK, EventTypes, QueuesKept, QueueFits, Places
<1> QED
  BY EventsKeptAlways, <1>1, PTL

\* CountedOnce: record_diagnostic_event (db.rs) looks the event up among the rows, so that
\* none is recorded twice while its row is there.
THEOREM DiagnosticsAreCountedOnce == EventsSpec => CountedOnce
<1> DEFINE New == \A row \in events' \ events :
                    row.source = None \/ row.source \notin history.settled \ history.forgotten
<1>1. EventsKept /\ [EventsNext]_eventVars => [New]_eventVars
  <2> SUFFICES ASSUME EventsKept, EventsNext, NEW row \in events', row \notin events,
                      row.source # None
               PROVE  row.source \notin history.settled \ history.forgotten
    BY DEF eventVars, daemonSide
  <2>1. SettledKept
    BY DEF EventsKept
  <2>2. RecordEvent \/ RecordDiagnostic
    BY DEF EventsNext, Queue, PersistQueue, Flush, TimeOut, RestartWorker, Receive, Work, EndCall,
           Reply, AppendLine, Maintain, StartWriter, Retain, Delete, ReadRows, ReplaceLog, Done,
           StopWriter, Elapse, Tamper, daemonSide
  <2>3. CASE RecordEvent
    BY <2>3 DEF RecordEvent, Recorded
  <2>4. CASE RecordDiagnostic
    BY <2>1, <2>4 DEF RecordDiagnostic, Recorded, Refused, SettledKept
  <2> QED
    BY <2>2, <2>3, <2>4
<1> QED
  BY EventsKeptAlways, <1>1, PTL DEF EventsSpec, CountedOnce

-----------------------------------------------------------------------------
(* Upgrades: the inductive invariant.                                        *)

Has(t) == tables[t] # None
Narrow(t) == Has(t) /\ ~tables[t].wide
Wide(t) == Has(t) /\ tables[t].wide

Normal(site) == Unlinked(Lifted(Enabled(site)))

\* What a table is to hold, up to the updates of a start.
Right(t, rows) ==
    IF t = "sites"
    THEN /\ rows \subseteq Site
         /\ {Normal(site) : site \in rows} = {Normal(site) : site \in expected["sites"]}
    ELSE rows = expected[t]

Whole(t) == Has(t) /\ Right(t, tables[t].rows)

MigrationTypes ==
    /\ tables = [t \in PolicyTables \cup Temporary |-> tables[t]]
    /\ \A t \in PolicyTables \cup Temporary :
          Has(t) => tables[t] \in [wide : BOOLEAN, rows : SUBSET Entries(t)]
    /\ expected = [t \in PolicyTables |-> expected[t]]
    /\ \A t \in PolicyTables : expected[t] \subseteq Entries(t)
    /\ \A t \in Contents : expected[t] # {}
    /\ \A site \in expected["sites"] :
          site.linked => site.tier = "controlled_access" \/ site.mode = "allowlist"
    /\ tally \in [crashes : Nat, edits : Nat]

\* A table that is rebuilt by copying from statement s on.
CopyKept(t, new, s) ==
    /\ Has(t) => Whole(t) \/ tables[t].rows = {}
    /\ Narrow(t) => Whole(t)
    /\ statement \notin {0, 1, s + 3} => Has(t)
    /\ statement = s + 1 => tables[new] = NewTable
    /\ statement \in {s + 2, s + 3} => Wide(new) /\ Right(t, tables[new].rows)
    /\ statement = s + 3 => ~Has(t)
    /\ statement > s + 3 => Wide(t)
    /\ tally.crashes = 0 =>
          /\ statement # s + 3 => Whole(t)
          /\ statement \notin s + 1 .. s + 3 => ~Has(new)

\* A table that is renamed away at statement s.
RenameKept(t, old, s) ==
    /\ Has(t) => Whole(t) \/ tables[t].rows = {}
    /\ Narrow(t) => Whole(t)
    /\ statement \notin {0, 1, s + 1} => Has(t)
    /\ statement = s => Narrow(t)
    /\ statement \in {s + 1, s + 2} => Has(old) /\ Right(t, tables[old].rows)
    /\ statement = s + 1 => ~Has(t)
    /\ statement = s + 2 => tables[t] = NewTable
    /\ statement > s + 1 => Wide(t)
    /\ tally.crashes = 0 =>
          /\ statement \notin {s + 1, s + 2} => Whole(t)
          /\ statement \notin s + 1 .. s + 3 => ~Has(old)

AllowancesKept ==
    /\ CopyKept("allowances", "allowances_new", 3)
    /\ statement \in 3..5 => Narrow("allowances")

\* A crash that left a table without its rows was noted.
WindowsKept ==
    /\ RenameKept("windows", "windows_old", 8)
    /\ statement \notin {9, 10} /\ ~Whole("windows") => "windows" \in struck

\* Without its patterns a policy with websites is refused.
PatternsKept ==
    /\ RenameKept("patterns", "patterns_old", 13)
    /\ expected["sites"] = {} => Wide("patterns") /\ Whole("patterns") /\ statement \notin 13..16

\* Half rebuilt lists of websites are not begun with again.
Stuck == Has("sites_new") /\ Narrow("apps") /\ statement \in 0..18

SitesKept ==
    /\ CopyKept("sites", "sites_new", 18)
    /\ statement # 21 => Whole("sites") \/ Stuck
    /\ Narrow("sites") => Narrow("apps")
    /\ statement \in 31..33 => \A site \in tables["sites"].rows : Enabled(site) = site
    /\ statement \in 32..33 => \A site \in tables["sites"].rows : Lifted(site) = site
    /\ statement = 33 => \A site \in tables["sites"].rows : Unlinked(site) = site

AppsKept ==
    /\ CopyKept("apps", "apps_new", 22)
    /\ statement \in 18..24 => Narrow("apps")
    /\ statement # 25 /\ ~Whole("apps") => "apps" \in struck

ColumnsKept ==
    /\ statement > 26 => columns["targets"]
    /\ statement > 28 => columns["sites"]
    /\ statement > 29 => columns["apps"]

UpgradeKept ==
    /\ MigrationTypes /\ MigrationTypeOK
    /\ AllowancesKept /\ WindowsKept /\ PatternsKept /\ SitesKept /\ AppsKept /\ ColumnsKept
    /\ WholeOrRefused

-----------------------------------------------------------------------------
(* The statements.                                                          *)

LEMMA ProgramIs ==
    /\ Len(Program) = 33 /\ Started = 34
    /\ Is("ensure") <=> statement = 1
    /\ Is("check") <=> statement \in {2, 7, 12, 17}
    /\ Is("create") <=> statement \in {3, 9, 14, 18, 22}
    /\ Is("copy") <=> statement \in {4, 10, 15, 19, 23}
    /\ Is("drop") <=> statement \in {5, 11, 16, 20, 24}
    /\ Is("rename") <=> statement \in {6, 8, 13, 21, 25}
    /\ Is("revoked") <=> statement = 26
    /\ Is("backfill") <=> statement = 27
    /\ Is("mode") <=> statement \in {28, 29}
    /\ Is("enable") <=> statement = 30
    /\ Is("lift") <=> statement = 31
    /\ Is("unlink") <=> statement = 32
    /\ Is("load") <=> statement = 33
<1>1. Len(Program) = 33 /\ Started = 34
  BY DEF Program, Started
<1>2. Is("ensure") <=> statement = 1
  BY <1>1, SMTT(60) DEF Is, Program, Single, OnlyIf, Statement, Create, Copy, Drop, Rename
<1>3. Is("check") <=> statement \in {2, 7, 12, 17}
  BY <1>1, SMTT(60) DEF Is, Program, Single, OnlyIf, Statement, Create, Copy, Drop, Rename
<1>4. Is("create") <=> statement \in {3, 9, 14, 18, 22}
  BY <1>1, SMTT(60) DEF Is, Program, Single, OnlyIf, Statement, Create, Copy, Drop, Rename
<1>5. Is("copy") <=> statement \in {4, 10, 15, 19, 23}
  BY <1>1, SMTT(60) DEF Is, Program, Single, OnlyIf, Statement, Create, Copy, Drop, Rename
<1>6. Is("drop") <=> statement \in {5, 11, 16, 20, 24}
  BY <1>1, SMTT(60) DEF Is, Program, Single, OnlyIf, Statement, Create, Copy, Drop, Rename
<1>7. Is("rename") <=> statement \in {6, 8, 13, 21, 25}
  BY <1>1, SMTT(60) DEF Is, Program, Single, OnlyIf, Statement, Create, Copy, Drop, Rename
<1>8. Is("revoked") <=> statement = 26
  BY <1>1, SMTT(60) DEF Is, Program, Single, OnlyIf, Statement, Create, Copy, Drop, Rename
<1>9. Is("backfill") <=> statement = 27
  BY <1>1, SMTT(60) DEF Is, Program, Single, OnlyIf, Statement, Create, Copy, Drop, Rename
<1>10. Is("mode") <=> statement \in {28, 29}
  BY <1>1, SMTT(60) DEF Is, Program, Single, OnlyIf, Statement, Create, Copy, Drop, Rename
<1>11. (Is("enable") <=> statement = 30) /\ (Is("lift") <=> statement = 31)
  BY <1>1, SMTT(60) DEF Is, Program, Single, OnlyIf, Statement, Create, Copy, Drop, Rename
<1>12. (Is("unlink") <=> statement = 32) /\ (Is("load") <=> statement = 33)
  BY <1>1, SMTT(60) DEF Is, Program, Single, OnlyIf, Statement, Create, Copy, Drop, Rename
<1> QED
  BY <1>1, <1>2, <1>3, <1>4, <1>5, <1>6, <1>7, <1>8, <1>9, <1>10, <1>11, <1>12

TableNames == PolicyTables \cup Temporary

\* What the statements of a rebuilding do.
Creates(new) ==
    IF tables[new] # None THEN GiveUpStart
    ELSE tables' = [tables EXCEPT ![new] = NewTable] /\ NextStatement /\ Rest

Copies(t, new) ==
    /\ tables' = [tables EXCEPT ![new].rows =
          @ \cup IF tables[t] = None THEN {} ELSE tables[t].rows]
    /\ NextStatement /\ Rest

Drops(t) == tables' = [tables EXCEPT ![t] = None] /\ NextStatement /\ Rest

Renames(t, to) ==
    IF tables[to] # None THEN GiveUpStart
    ELSE /\ tables' = [tables EXCEPT ![to] = tables[t], ![t] = None]
         /\ columns' = IF to \in DOMAIN columns THEN [columns EXCEPT ![to] = FALSE] ELSE columns
         /\ NextStatement
         /\ UNCHANGED <<targets, policy, expected, struck, tally>>

Rebuilding == CreateTable \/ CopyRows \/ DropTable \/ RenameTable

LEMMA RebuildingIs ==
    ASSUME Rebuilding
    PROVE  /\ statement \in {3, 4, 5, 6, 8, 9, 10, 11, 13, 14, 15, 16}
                \cup {18, 19, 20, 21, 22, 23, 24, 25}
           /\ statement \in {3, 9, 14, 18, 22} => Creates(Now.of)
           /\ statement \in {4, 10, 15, 19, 23} => Copies(Now.of, Now.to)
           /\ statement \in {5, 11, 16, 20, 24} => Drops(Now.of)
           /\ statement \in {6, 8, 13, 21, 25} => Renames(Now.of, Now.to)
<1>1. CASE CreateTable
  <2>1. Is("create") /\ Creates(Now.of)
    BY <1>1, Zenon DEF CreateTable, Creates
  <2> QED
    BY <2>1, ProgramIs
<1>2. CASE CopyRows
  <2>1. Is("copy") /\ Copies(Now.of, Now.to)
    BY <1>2, Zenon DEF CopyRows, Copies
  <2> QED
    BY <2>1, ProgramIs
<1>3. CASE DropTable
  <2>1. Is("drop") /\ Drops(Now.of)
    BY <1>3, Zenon DEF DropTable, Drops
  <2> QED
    BY <2>1, ProgramIs
<1>4. CASE RenameTable
  <2>1. Is("rename") /\ Renames(Now.of, Now.to)
    BY <1>4, Zenon DEF RenameTable, Renames
  <2> QED
    BY <2>1, ProgramIs
<1> QED
  BY <1>1, <1>2, <1>3, <1>4 DEF Rebuilding

\* The tables that the statements are about.
LEMMA OperandsAre ==
    /\ statement = 2 => Now.of = {"allowances"} /\ Now.to = 4
    /\ statement = 3 => Now.of = "allowances_new"
    /\ statement = 4 => Now.of = "allowances" /\ Now.to = "allowances_new"
    /\ statement = 5 => Now.of = "allowances"
    /\ statement = 6 => Now.of = "allowances_new" /\ Now.to = "allowances"
    /\ statement = 7 => Now.of = {"windows"} /\ Now.to = 4
    /\ statement = 8 => Now.of = "windows" /\ Now.to = "windows_old"
    /\ statement = 9 => Now.of = "windows"
    /\ statement = 10 => Now.of = "windows_old" /\ Now.to = "windows"
    /\ statement = 11 => Now.of = "windows_old"
    /\ statement = 12 => Now.of = {"patterns"} /\ Now.to = 4
    /\ statement = 13 => Now.of = "patterns" /\ Now.to = "patterns_old"
    /\ statement = 14 => Now.of = "patterns"
    /\ statement = 15 => Now.of = "patterns_old" /\ Now.to = "patterns"
    /\ statement = 16 => Now.of = "patterns_old"
    /\ statement = 17 => Now.of = {"sites", "apps"} /\ Now.to = 8
    /\ statement = 18 => Now.of = "sites_new"
    /\ statement = 19 => Now.of = "sites" /\ Now.to = "sites_new"
    /\ statement = 20 => Now.of = "sites"
    /\ statement = 21 => Now.of = "sites_new" /\ Now.to = "sites"
    /\ statement = 22 => Now.of = "apps_new"
    /\ statement = 23 => Now.of = "apps" /\ Now.to = "apps_new"
    /\ statement = 24 => Now.of = "apps"
    /\ statement = 25 => Now.of = "apps_new" /\ Now.to = "apps"
    /\ statement = 28 => Now.of = "sites"
    /\ statement = 29 => Now.of = "apps"
  BY DEF Now, Program, Single, OnlyIf, Statement, Create, Copy, Drop, Rename

LEMMA CopyingIs ==
    ASSUME Rebuilding, NEW t, NEW new, NEW s,
           <<t, new, s>> \in {<<"allowances", "allowances_new", 3>>, <<"sites", "sites_new", 18>>,
                              <<"apps", "apps_new", 22>>}
    PROVE  /\ statement = s => Creates(new)
           /\ statement = s + 1 => Copies(t, new)
           /\ statement = s + 2 => Drops(t)
           /\ statement = s + 3 => Renames(new, t)
<1>1. CASE t = "allowances" /\ new = "allowances_new" /\ s = 3
  BY <1>1, RebuildingIs, OperandsAre
<1>2. CASE t = "sites" /\ new = "sites_new" /\ s = 18
  BY <1>2, RebuildingIs, OperandsAre
<1>3. CASE t = "apps" /\ new = "apps_new" /\ s = 22
  BY <1>3, RebuildingIs, OperandsAre
<1> QED
  BY <1>1, <1>2, <1>3

LEMMA RenamingIs ==
    ASSUME Rebuilding, NEW t, NEW old, NEW s,
           <<t, old, s>> \in {<<"windows", "windows_old", 8>>, <<"patterns", "patterns_old", 13>>}
    PROVE  /\ statement = s => Renames(t, old)
           /\ statement = s + 1 => Creates(t)
           /\ statement = s + 2 => Copies(old, t)
           /\ statement = s + 3 => Drops(old)
<1>1. CASE t = "windows" /\ old = "windows_old" /\ s = 8
  BY <1>1, RebuildingIs, OperandsAre
<1>2. CASE t = "patterns" /\ old = "patterns_old" /\ s = 13
  BY <1>2, RebuildingIs, OperandsAre
<1> QED
  BY <1>1, <1>2

-----------------------------------------------------------------------------
(* Steps that leave a table alone.                                          *)

LEMMA CopyAside ==
    ASSUME NEW t, NEW new, NEW s \in Nat, CopyKept(t, new, s),
           tables'[t] = tables[t], tables'[new] = tables[new], expected' = expected,
           statement \in Nat, statement' \in Nat, statement' \notin s + 1 .. s + 3,
           tally'.crashes = 0 => tally.crashes = 0 /\ statement \notin s + 1 .. s + 3,
           statement' \in {0, 1} \/ Has(t),
           statement' > s + 3 => Wide(t)
    PROVE  CopyKept(t, new, s)' /\ (Whole(t)' <=> Whole(t)) /\ (Narrow(t)' <=> Narrow(t))
<1>1. /\ Has(t)' <=> Has(t)
      /\ Has(new)' <=> Has(new)
      /\ Narrow(t)' <=> Narrow(t)
      /\ Wide(t)' <=> Wide(t)
      /\ Wide(new)' <=> Wide(new)
  BY DEF Has, Narrow, Wide
<1>2. ASSUME NEW u, tables'[u] = tables[u]
      PROVE  Right(t, tables[u].rows)' <=> Right(t, tables[u].rows)
  BY <1>2 DEF Right
<1>3. Whole(t)' <=> Whole(t)
  BY <1>1, <1>2 DEF Whole
<1>4. Right(t, tables[new].rows)' <=> Right(t, tables[new].rows)
  BY <1>2
<1> QED
  BY <1>1, <1>3, <1>4 DEF CopyKept

LEMMA RenameAside ==
    ASSUME NEW t, NEW old, NEW s \in Nat, RenameKept(t, old, s),
           tables'[t] = tables[t], tables'[old] = tables[old], expected' = expected,
           statement \in Nat, statement' \in Nat, statement' \notin s + 1 .. s + 3,
           tally'.crashes = 0 => tally.crashes = 0 /\ statement \notin s + 1 .. s + 3,
           statement' \in {0, 1} \/ Has(t),
           statement' = s => Narrow(t),
           statement' > s + 3 => Wide(t)
    PROVE  RenameKept(t, old, s)' /\ (Whole(t)' <=> Whole(t)) /\ (Narrow(t)' <=> Narrow(t))
<1>1. /\ Has(t)' <=> Has(t)
      /\ Has(old)' <=> Has(old)
      /\ Narrow(t)' <=> Narrow(t)
      /\ Wide(t)' <=> Wide(t)
      /\ Wide(old)' <=> Wide(old)
  BY DEF Has, Narrow, Wide
<1>2. ASSUME NEW u, tables'[u] = tables[u]
      PROVE  Right(t, tables[u].rows)' <=> Right(t, tables[u].rows)
  BY <1>2 DEF Right
<1>3. Whole(t)' <=> Whole(t)
  BY <1>1, <1>2 DEF Whole
<1>4. Right(t, tables[old].rows)' <=> Right(t, tables[old].rows)
  BY <1>2
<1> QED
  BY <1>1, <1>3, <1>4 DEF RenameKept

-----------------------------------------------------------------------------
(* A table is rebuilt.                                                      *)

\* A value of a table that passes its CHECKs.
IsTable(t, v) ==
    /\ v \in [wide : BOOLEAN, rows : SUBSET Entries(t)]
    /\ v.wide \/ Fits(t, v.rows)

TablesFit ==
    /\ tables = [t \in TableNames |-> tables[t]]
    /\ \A t \in TableNames : Has(t) => IsTable(t, tables[t])

LEMMA NewTableIs ==
    ASSUME NEW t \in TableNames
    PROVE  /\ NewTable # None /\ IsTable(t, NewTable) /\ NewTable.wide /\ NewTable.rows = {}
           /\ \A v : IsTable(t, v) => v # None
<1>1. None \notin [wide : BOOLEAN, rows : SUBSET Entries(t)]
  BY MigrationAssumption DEF TableNames
<1>2. NewTable \in [wide : BOOLEAN, rows : SUBSET Entries(t)] /\ NewTable.wide /\ NewTable.rows = {}
  BY DEF NewTable
<1> QED
  BY <1>1, <1>2, Zenon DEF IsTable

\* What a step of a rebuilding leaves alone.
Only(t, other) ==
    /\ \A u \in TableNames \ {t, other} : tables'[u] = tables[u]
    /\ UNCHANGED <<targets, policy, expected, struck, tally>>
    /\ columns' = [c \in DOMAIN columns |-> columns'[c]]
    /\ \A c \in DOMAIN columns : columns'[c] = columns[c] \/ columns'[c] = FALSE

LEMMA CopyWorks ==
    ASSUME TablesFit, Rebuilding, NEW t, NEW new, NEW s,
           <<t, new, s>> \in {<<"allowances", "allowances_new", 3>>, <<"sites", "sites_new", 18>>,
                              <<"apps", "apps_new", 22>>},
           CopyKept(t, new, s), statement \in s .. s + 3, statement = s + 1 => Whole(t),
           columns = [c \in DOMAIN columns |-> columns[c]]
    PROVE  /\ CopyKept(t, new, s)' /\ TablesFit' /\ Only(t, new)
           /\ statement # s + 2 => (Has(t) => tables'[t] = tables[t])
           /\ statement = s + 3 => Whole(t)'
           /\ \/ statement' = statement + 1
              \/ statement = s /\ statement' = 0 /\ UNCHANGED <<tables, columns>>
<1>1. /\ t \in TableNames /\ new \in TableNames /\ t # new /\ s \in Nat /\ s >= 3
      /\ Entries(t) = Entries(new)
  BY DEF TableNames, PolicyTables, Contents, Temporary, Entries
<1>2. /\ statement = s => Creates(new)
      /\ statement = s + 1 => Copies(t, new)
      /\ statement = s + 2 => Drops(t)
      /\ statement = s + 3 => Renames(new, t)
  BY CopyingIs
<1>3. /\ tables = [u \in TableNames |-> tables[u]]
      /\ \A u \in TableNames : tables[u] # None => IsTable(u, tables[u])
  BY DEF TablesFit, Has
<1>4. CASE statement = s
  <2>1. CASE tables[new] # None
    <3>1. GiveUpStart
      BY <1>2, <1>4, <2>1 DEF Creates
    <3>2. statement' = 0 /\ UNCHANGED <<tables, targets, columns, policy, expected, struck, tally>>
      BY <3>1 DEF GiveUpStart, Rest
    <3>3. CopyKept(t, new, s)'
      BY <1>1, <1>4, <3>2, CopyAside
    <3>4. TablesFit'
      BY <3>2 DEF TablesFit, Has
    <3> QED
      BY <3>2, <3>3, <3>4, <1>4 DEF Only
  <2>2. CASE tables[new] = None
    <3>1. /\ tables' = [tables EXCEPT ![new] = NewTable] /\ statement' = s + 1
          /\ UNCHANGED <<targets, columns, policy, expected, struck, tally>>
      BY <1>2, <1>4, <2>2 DEF Creates, NextStatement, Rest
    <3>2. /\ tables' = [u \in TableNames |-> tables'[u]] /\ tables'[new] = NewTable
          /\ \A u \in TableNames \ {new} : tables'[u] = tables[u]
      BY <3>1, <1>1, <1>3
    <3>3. TablesFit'
      BY <3>2, <1>3, NewTableIs, <1>1 DEF TablesFit, Has
    <3>4. /\ Has(t) /\ Has(t)' /\ tables'[t] = tables[t]
          /\ Whole(t)' <=> Whole(t)
          /\ Narrow(t)' <=> Narrow(t)
      BY <3>1, <3>2, <1>1, <1>4 DEF Has, Whole, Narrow, Right, CopyKept
    <3>5. CopyKept(t, new, s)'
      BY <3>1, <3>2, <3>4, <1>1, <1>4 DEF CopyKept
    <3> QED
      BY <3>1, <3>2, <3>3, <3>5, <1>1, <1>4 DEF Only
  <2> QED
    BY <2>1, <2>2
<1>5. CASE statement = s + 1
  <2>1. tables[new] = NewTable /\ Whole(t) /\ Has(t)
    BY <1>5 DEF CopyKept, Whole
  <2> DEFINE v == [NewTable EXCEPT !.rows = @ \cup tables[t].rows]
  <2>2. IsTable(t, tables[t]) /\ tables[t] # None
    BY <2>1, <1>1, <1>3 DEF Has
  <2>3. IsTable(new, v) /\ v.wide /\ v.rows = tables[t].rows
    <3>1. NewTable.rows \cup tables[t].rows = tables[t].rows
      BY DEF NewTable
    <3>2. v \in [wide : BOOLEAN, rows : SUBSET Entries(new)] /\ v.wide /\ v.rows = tables[t].rows
      BY <2>2, <1>1, <3>1 DEF IsTable, NewTable
    <3> QED
      BY <3>2 DEF IsTable
  <2>5. /\ tables' = [tables EXCEPT ![new].rows = @ \cup tables[t].rows] /\ statement' = s + 2
        /\ UNCHANGED <<targets, columns, policy, expected, struck, tally>>
    BY <1>2, <1>5, <1>1, <2>2 DEF Copies, NextStatement, Rest
  <2>6. /\ tables' = [u \in TableNames |-> tables'[u]] /\ tables'[new] = v
        /\ \A u \in TableNames \ {new} : tables'[u] = tables[u]
    BY <2>1, <2>5, <1>1, <1>3
  <2> HIDE DEF v
  <2>7. TablesFit'
    BY <2>6, <1>3, <2>3 DEF TablesFit, Has
  <2>8. /\ Has(t)' /\ tables'[t] = tables[t] /\ Whole(t)'
        /\ Wide(new)' /\ Right(t, tables[new].rows)'
    <3>1. v # None
      BY <2>3, <1>1, NewTableIs
    <3> QED
      BY <2>1, <2>3, <2>5, <2>6, <1>1, <3>1 DEF Has, Whole, Wide, Right
  <2>9. CopyKept(t, new, s)'
    BY <2>5, <2>8, <1>1, <1>5 DEF CopyKept
  <2> QED
    BY <2>5, <2>6, <2>7, <2>9, <1>1, <1>5 DEF Only
<1>6. CASE statement = s + 2
  <2>1. /\ tables' = [tables EXCEPT ![t] = None] /\ statement' = s + 3
        /\ UNCHANGED <<targets, columns, policy, expected, struck, tally>>
    BY <1>2, <1>6, <1>1 DEF Drops, NextStatement, Rest
  <2>2. /\ tables' = [u \in TableNames |-> tables'[u]] /\ tables'[t] = None
        /\ \A u \in TableNames \ {t} : tables'[u] = tables[u]
    BY <2>1, <1>1, <1>3
  <2>3. TablesFit'
    BY <2>2, <1>3 DEF TablesFit, Has
  <2>4. Wide(new) /\ Right(t, tables[new].rows)
    BY <1>6 DEF CopyKept
  <2>5. ~Has(t)' /\ Wide(new)' /\ Right(t, tables[new].rows)'
    BY <2>1, <2>2, <2>4, <1>1 DEF Has, Wide, Right
  <2>6. CopyKept(t, new, s)'
    BY <2>1, <2>5, <1>1, <1>6 DEF CopyKept, Narrow, Whole
  <2> QED
    BY <2>1, <2>2, <2>3, <2>6, <1>1, <1>6 DEF Only
<1>7. CASE statement = s + 3
  <2>1. ~Has(t) /\ Wide(new) /\ Right(t, tables[new].rows)
    BY <1>7 DEF CopyKept
  <2>2. /\ tables' = [tables EXCEPT ![t] = tables[new], ![new] = None] /\ statement' = s + 4
        /\ columns' = IF t \in DOMAIN columns THEN [columns EXCEPT ![t] = FALSE] ELSE columns
        /\ UNCHANGED <<targets, policy, expected, struck, tally>>
    BY <1>2, <1>7, <1>1, <2>1 DEF Renames, NextStatement, Has
  <2>3. /\ tables' = [u \in TableNames |-> tables'[u]] /\ tables'[t] = tables[new]
        /\ tables'[new] = None
        /\ \A u \in TableNames \ {t, new} : tables'[u] = tables[u]
    BY <2>2, <1>1, <1>3
  <2>4. IsTable(t, tables[new])
    BY <2>1, <1>1, <1>3 DEF Wide, Has, IsTable
  <2>5. TablesFit'
    BY <2>3, <2>4, <1>3 DEF TablesFit, Has
  <2>6. Has(t)' /\ Wide(t)' /\ Whole(t)' /\ ~Has(new)'
    BY <2>1, <2>2, <2>3 DEF Has, Wide, Whole, Right
  <2>7. CopyKept(t, new, s)'
    BY <2>2, <2>6, <1>1, <1>7 DEF CopyKept
  <2>8. /\ columns' = [c \in DOMAIN columns |-> columns'[c]]
        /\ \A c \in DOMAIN columns : columns'[c] = columns[c] \/ columns'[c] = FALSE
    BY <2>2
  <2>9. Only(t, new)
    BY <2>2, <2>3, <2>8 DEF Only
  <2> QED
    BY <2>1, <2>2, <2>5, <2>6, <2>7, <2>9, <1>7
<1> QED
  BY <1>1, <1>4, <1>5, <1>6, <1>7

LEMMA RenameWorks ==
    ASSUME TablesFit, Rebuilding, NEW t, NEW old, NEW s,
           <<t, old, s>> \in {<<"windows", "windows_old", 8>>, <<"patterns", "patterns_old", 13>>},
           RenameKept(t, old, s), statement \in s .. s + 3,
           columns = [c \in {"sites", "apps", "targets"} |-> columns[c]]
    PROVE  /\ RenameKept(t, old, s)' /\ TablesFit' /\ Only(t, old)
           /\ statement = s + 2 => Whole(t)'
           /\ statement = s + 3 => tables'[t] = tables[t]
           /\ \/ statement' = statement + 1
              \/ statement = s /\ statement' = 0 /\ UNCHANGED <<tables, columns>>
<1>1. /\ t \in TableNames /\ old \in TableNames /\ t # old /\ s \in Nat /\ s >= 3
      /\ Entries(t) = Entries(old) /\ t # "sites" /\ old # "sites"
      /\ old \notin {"sites", "apps", "targets"}
  BY DEF TableNames, PolicyTables, Contents, Temporary, Entries
<1>2. /\ statement = s => Renames(t, old)
      /\ statement = s + 1 => Creates(t)
      /\ statement = s + 2 => Copies(old, t)
      /\ statement = s + 3 => Drops(old)
  BY RenamingIs
<1>3. /\ tables = [u \in TableNames |-> tables[u]]
      /\ \A u \in TableNames : tables[u] # None => IsTable(u, tables[u])
  BY DEF TablesFit, Has
<1>4. CASE statement = s
  <2>1. CASE tables[old] # None
    <3>1. GiveUpStart
      BY <1>2, <1>4, <2>1 DEF Renames
    <3>2. statement' = 0 /\ UNCHANGED <<tables, targets, columns, policy, expected, struck, tally>>
      BY <3>1 DEF GiveUpStart, Rest
    <3>3. RenameKept(t, old, s)'
      BY <1>1, <1>4, <3>2, RenameAside
    <3>4. TablesFit'
      BY <3>2 DEF TablesFit, Has
    <3> QED
      BY <3>2, <3>3, <3>4, <1>1, <1>4 DEF Only
  <2>2. CASE tables[old] = None
    <3>1. /\ tables' = [tables EXCEPT ![old] = tables[t], ![t] = None] /\ statement' = s + 1
          /\ columns' = columns /\ UNCHANGED <<targets, policy, expected, struck, tally>>
      BY <1>1, <1>2, <1>4, <2>2 DEF Renames, NextStatement
    <3>2. /\ tables' = [u \in TableNames |-> tables'[u]] /\ tables'[old] = tables[t]
          /\ tables'[t] = None
          /\ \A u \in TableNames \ {t, old} : tables'[u] = tables[u]
      BY <3>1, <1>1, <1>3
    <3>3. Narrow(t) /\ Has(t) /\ Right(t, tables[t].rows)
      BY <1>4 DEF RenameKept, Narrow, Whole
    <3>4. IsTable(old, tables[t])
      BY <3>3, <1>1, <1>3 DEF Has, IsTable, Fits
    <3>5. TablesFit'
      BY <3>2, <3>4, <1>3 DEF TablesFit, Has
    <3>6. ~Has(t)' /\ Has(old)' /\ Right(t, tables[old].rows)'
      BY <3>1, <3>2, <3>3 DEF Has, Right
    <3>7. RenameKept(t, old, s)'
      BY <3>1, <3>6, <1>1, <1>4 DEF RenameKept, Narrow
    <3>8. Only(t, old)
      BY <3>1, <3>2 DEF Only
    <3> QED
      BY <3>1, <3>5, <3>7, <3>8, <1>1, <1>4
  <2> QED
    BY <2>1, <2>2
<1>5. CASE statement = s + 1
  <2>1. ~Has(t) /\ Has(old) /\ Right(t, tables[old].rows)
    BY <1>1, <1>5 DEF RenameKept
  <2>2. /\ tables' = [tables EXCEPT ![t] = NewTable] /\ statement' = s + 2
        /\ UNCHANGED <<targets, columns, policy, expected, struck, tally>>
    BY <1>1, <1>2, <1>5, <2>1 DEF Creates, NextStatement, Rest, Has
  <2>3. /\ tables' = [u \in TableNames |-> tables'[u]] /\ tables'[t] = NewTable
        /\ \A u \in TableNames \ {t} : tables'[u] = tables[u]
    BY <2>2, <1>1, <1>3
  <2>4. TablesFit'
    BY <2>3, <1>3, NewTableIs, <1>1 DEF TablesFit, Has
  <2>5. /\ Has(t)' /\ ~Narrow(t)' /\ Wide(t)' /\ tables'[t].rows = {}
        /\ Has(old)' /\ Right(t, tables[old].rows)'
    BY <2>1, <2>2, <2>3, NewTableIs, <1>1 DEF Has, Narrow, Wide, Right
  <2>6. RenameKept(t, old, s)'
    BY <2>2, <2>3, <2>5, <1>1, <1>5 DEF RenameKept
  <2> QED
    BY <2>2, <2>3, <2>4, <2>6, <1>1, <1>5 DEF Only
<1>6. CASE statement = s + 2
  <2>1. tables[t] = NewTable /\ Has(old) /\ Right(t, tables[old].rows)
    BY <1>1, <1>6 DEF RenameKept
  <2> DEFINE v == [NewTable EXCEPT !.rows = @ \cup tables[old].rows]
  <2>2. IsTable(old, tables[old]) /\ tables[old] # None
    BY <2>1, <1>1, <1>3 DEF Has
  <2>3. IsTable(t, v) /\ v.wide /\ v.rows = tables[old].rows
    <3>1. NewTable.rows \cup tables[old].rows = tables[old].rows
      BY DEF NewTable
    <3>2. v \in [wide : BOOLEAN, rows : SUBSET Entries(t)] /\ v.wide /\ v.rows = tables[old].rows
      BY <2>2, <1>1, <3>1 DEF IsTable, NewTable
    <3> QED
      BY <3>2 DEF IsTable
  <2>4. /\ tables' = [tables EXCEPT ![t].rows = @ \cup tables[old].rows] /\ statement' = s + 3
        /\ UNCHANGED <<targets, columns, policy, expected, struck, tally>>
    BY <1>2, <1>6, <1>1, <2>2 DEF Copies, NextStatement, Rest
  <2>5. /\ tables' = [u \in TableNames |-> tables'[u]] /\ tables'[t] = v
        /\ \A u \in TableNames \ {t} : tables'[u] = tables[u]
    BY <2>1, <2>4, <1>1, <1>3
  <2> HIDE DEF v
  <2>6. TablesFit'
    BY <2>5, <1>3, <2>3 DEF TablesFit, Has
  <2>7. Has(t)' /\ Wide(t)' /\ ~Narrow(t)' /\ Whole(t)'
    <3>1. v # None
      BY <2>3, <1>1, NewTableIs
    <3> QED
      BY <2>1, <2>3, <2>4, <2>5, <3>1 DEF Has, Whole, Wide, Narrow, Right
  <2>8. RenameKept(t, old, s)'
    BY <2>4, <2>7, <1>1, <1>6 DEF RenameKept
  <2> QED
    BY <2>4, <2>5, <2>6, <2>7, <2>8, <1>1, <1>6 DEF Only
<1>7. CASE statement = s + 3
  <2>1. /\ tables' = [tables EXCEPT ![old] = None] /\ statement' = s + 4
        /\ UNCHANGED <<targets, columns, policy, expected, struck, tally>>
    BY <1>2, <1>7, <1>1 DEF Drops, NextStatement, Rest
  <2>2. /\ tables' = [u \in TableNames |-> tables'[u]] /\ tables'[old] = None
        /\ \A u \in TableNames \ {old} : tables'[u] = tables[u]
    BY <2>1, <1>1, <1>3
  <2>3. TablesFit'
    BY <2>2, <1>3 DEF TablesFit, Has
  <2>4. Has(t) /\ Wide(t)
    BY <1>1, <1>7 DEF RenameKept, Wide
  <2>5. /\ Has(t)' /\ Wide(t)' /\ ~Has(old)'
        /\ Whole(t)' <=> Whole(t)
        /\ Narrow(t)' <=> Narrow(t)
        /\ tables'[t] = tables[t]
    BY <2>1, <2>2, <2>4, <1>1 DEF Has, Wide, Whole, Narrow, Right
  <2>6. RenameKept(t, old, s)'
    BY <2>1, <2>5, <1>1, <1>7 DEF RenameKept
  <2> QED
    BY <2>1, <2>2, <2>3, <2>5, <2>6, <1>1, <1>7 DEF Only
<1> QED
  BY <1>1, <1>4, <1>5, <1>6, <1>7

-----------------------------------------------------------------------------
(* The parts of the invariant while a step is at work elsewhere.            *)

Apart(t, other) ==
    /\ tables'[t] = tables[t] /\ tables'[other] = tables[other]
    /\ UNCHANGED <<expected, tally, struck>>
    /\ statement \in Nat /\ statement' \in Nat

LEMMA AllowancesAside ==
    ASSUME AllowancesKept, Apart("allowances", "allowances_new"),
           (statement = 0 /\ statement' = 1) \/ (statement >= 7 /\ statement' >= 7)
    PROVE  AllowancesKept'
<1>1. CopyKept("allowances", "allowances_new", 3)
  BY DEF AllowancesKept
<1>2. /\ statement > 6 => Has("allowances") /\ Wide("allowances")
  BY <1>1 DEF CopyKept, Wide
<1>3. CopyKept("allowances", "allowances_new", 3)'
  BY <1>1, <1>2, CopyAside DEF Apart
<1> QED
  BY <1>3 DEF AllowancesKept, Apart

LEMMA WindowsAside ==
    ASSUME WindowsKept, Apart("windows", "windows_old"),
           \/ statement = 0 /\ statement' = 1
           \/ statement \in 2..7 /\ statement' \in 2..7
           \/ statement >= 12 /\ statement' >= 12
    PROVE  WindowsKept'
<1>1. RenameKept("windows", "windows_old", 8)
  BY DEF WindowsKept
<1>2. /\ statement \notin {0, 1, 9} => Has("windows")
      /\ statement > 9 => Wide("windows")
  BY <1>1 DEF RenameKept
<1>3. /\ RenameKept("windows", "windows_old", 8)'
      /\ Whole("windows")' <=> Whole("windows")
  BY <1>1, <1>2, RenameAside DEF Apart
<1> QED
  BY <1>3 DEF WindowsKept, Apart

LEMMA PatternsAside ==
    ASSUME PatternsKept, Apart("patterns", "patterns_old"),
           \/ statement = 0 /\ statement' = 1
           \/ statement \in 2..12 /\ statement' \in 2..12
           \/ statement >= 17 /\ statement' >= 17
    PROVE  PatternsKept'
<1>1. RenameKept("patterns", "patterns_old", 13)
  BY DEF PatternsKept
<1>2. /\ statement \notin {0, 1, 14} => Has("patterns")
      /\ statement > 14 => Wide("patterns")
  BY <1>1 DEF RenameKept
<1>3. /\ RenameKept("patterns", "patterns_old", 13)'
      /\ Whole("patterns")' <=> Whole("patterns")
  BY <1>1, <1>2, RenameAside DEF Apart
<1>4. Wide("patterns")' <=> Wide("patterns")
  BY DEF Apart, Wide, Has
<1> QED
  BY <1>3, <1>4 DEF PatternsKept, Apart

LEMMA SitesAside ==
    ASSUME SitesKept, Apart("sites", "sites_new"),
           \/ /\ tables'["apps"] = tables["apps"]
              /\ \/ statement = 0 /\ statement' = 1
                 \/ statement \in 2..17 /\ statement' \in 2..17
           \/ statement >= 22 /\ statement' \in 22..30 \cup {34}
    PROVE  SitesKept'
<1>1. CopyKept("sites", "sites_new", 18)
  BY DEF SitesKept
<1>2. /\ statement \notin {0, 1, 21} => Has("sites")
      /\ statement > 21 => Wide("sites")
  BY <1>1 DEF CopyKept
<1>3. /\ CopyKept("sites", "sites_new", 18)'
      /\ Whole("sites")' <=> Whole("sites")
      /\ Narrow("sites")' <=> Narrow("sites")
  BY <1>1, <1>2, CopyAside DEF Apart
<1>4. tables'["apps"] = tables["apps"] => (Narrow("apps")' <=> Narrow("apps"))
  BY DEF Narrow, Has
<1>5. Has("sites_new")' <=> Has("sites_new")
  BY DEF Apart, Has
<1>6. statement # 21 => Whole("sites") \/ Stuck
  BY DEF SitesKept
<1>7. Narrow("sites") => Narrow("apps")
  BY DEF SitesKept
<1>8. statement' # 21 => Whole("sites")' \/ Stuck'
  BY <1>3, <1>4, <1>5, <1>6 DEF Stuck, Apart
<1>9. Narrow("sites")' => Narrow("apps")'
  <2>1. CASE statement >= 22
    BY <2>1, <1>2, <1>3 DEF Narrow, Wide, Apart
  <2>2. CASE tables'["apps"] = tables["apps"]
    BY <2>2, <1>3, <1>4, <1>7
  <2> QED
    BY <2>1, <2>2
<1> QED
  BY <1>3, <1>8, <1>9 DEF SitesKept, Apart

LEMMA AppsAside ==
    ASSUME AppsKept, Apart("apps", "apps_new"),
           \/ statement = 0 /\ statement' = 1
           \/ statement \in 2..17 /\ statement' \in 2..17
           \/ statement \in 18..21 /\ statement' \in 18..22
           \/ statement >= 26 /\ statement' >= 26
    PROVE  AppsKept'
<1>1. CopyKept("apps", "apps_new", 22)
  BY DEF AppsKept
<1>2. /\ statement \notin {0, 1, 25} => Has("apps")
      /\ statement > 25 => Wide("apps")
  BY <1>1 DEF CopyKept
<1>3. /\ CopyKept("apps", "apps_new", 22)'
      /\ Whole("apps")' <=> Whole("apps")
      /\ Narrow("apps")' <=> Narrow("apps")
  BY <1>1, <1>2, CopyAside DEF Apart
<1> QED
  BY <1>3 DEF AppsKept, Apart

\* Types after a step that changes what is in the tables at most.
LEMMA TypesAfter ==
    ASSUME MigrationTypes, MigrationTypeOK, TablesFit', UNCHANGED <<expected, struck, tally>>,
           targets' \in [Grants -> {"none", "granted", "revoked"}],
           columns' \in [{"sites", "apps", "targets"} -> BOOLEAN],
           statement' \in 0..33, policy' = None
    PROVE  MigrationTypes' /\ MigrationTypeOK' /\ WholeOrRefused'
<1>1. MigrationTypes'
  BY DEF MigrationTypes, TablesFit, IsTable, TableNames, Has
<1>2. /\ DOMAIN tables' = PolicyTables \cup Temporary
      /\ \A t \in PolicyTables \cup Temporary :
            tables'[t] # None => /\ tables'[t].wide \in BOOLEAN
                                 /\ tables'[t].wide \/ Fits(t, tables'[t].rows)
  BY DEF TablesFit, IsTable, TableNames, Has
<1>3. MigrationTypeOK'
  BY <1>2, ProgramIs DEF MigrationTypeOK, Started
<1> QED
  BY <1>1, <1>3 DEF WholeOrRefused

LEMMA TypesFit ==
    ASSUME MigrationTypes, MigrationTypeOK
    PROVE  /\ TablesFit /\ statement \in 0..34 /\ (statement # 34 => policy = None)
           /\ columns = [c \in {"sites", "apps", "targets"} |-> columns[c]]
           /\ DOMAIN columns = {"sites", "apps", "targets"}
<1>1. TablesFit
  BY DEF MigrationTypes, MigrationTypeOK, TablesFit, TableNames, IsTable, Has
<1> QED
  BY <1>1, ProgramIs DEF MigrationTypeOK
-----------------------------------------------------------------------------
(* Each action.                                                             *)

\* A start that ends, by itself or not, and what it leaves half rebuilt.
LEMMA StartEnds ==
    ASSUME UpgradeKept, UNCHANGED <<tables, targets, columns, expected>>, statement' = 0,
           policy' = None, struck \subseteq struck', struck' \subseteq PolicyTables,
           tally' \in [crashes : Nat, edits : Nat],
           tally'.crashes = 0 =>
              /\ tally.crashes = 0
              /\ statement \notin (4..6) \cup (9..11) \cup (14..16) \cup (19..21) \cup (23..25),
           statement \in {9, 10} => "windows" \in struck',
           statement = 25 => "apps" \in struck'
    PROVE  UpgradeKept'
<1>1. /\ MigrationTypes /\ MigrationTypeOK /\ AllowancesKept /\ WindowsKept /\ PatternsKept
      /\ SitesKept /\ AppsKept
  BY DEF UpgradeKept
<1>2. statement \in 0..34
  BY <1>1, TypesFit
<1>3. MigrationTypes'
  BY <1>1 DEF MigrationTypes, Has
<1>4. MigrationTypeOK' /\ WholeOrRefused'
  BY <1>1, ProgramIs DEF MigrationTypeOK, Fits, WholeOrRefused
<1>5. AllowancesKept'
  <2>1. CopyKept("allowances", "allowances_new", 3)'
    BY <1>1, <1>2, CopyAside DEF AllowancesKept
  <2> QED
    BY <2>1 DEF AllowancesKept
<1>6. WindowsKept'
  <2>1. /\ RenameKept("windows", "windows_old", 8)'
        /\ Whole("windows")' <=> Whole("windows")
    BY <1>1, <1>2, RenameAside DEF WindowsKept
  <2> QED
    BY <1>1, <2>1 DEF WindowsKept
<1>7. PatternsKept'
  <2>1. /\ RenameKept("patterns", "patterns_old", 13)'
        /\ Whole("patterns")' <=> Whole("patterns")
    BY <1>1, <1>2, RenameAside DEF PatternsKept
  <2> QED
    BY <1>1, <2>1 DEF PatternsKept, Wide, Has
<1>8. SitesKept'
  <2>1. /\ CopyKept("sites", "sites_new", 18)'
        /\ Whole("sites")' <=> Whole("sites")
        /\ Narrow("sites")' <=> Narrow("sites")
    BY <1>1, <1>2, CopyAside DEF SitesKept
  <2>2. /\ Narrow("apps")' <=> Narrow("apps")
        /\ Has("sites_new")' <=> Has("sites_new")
    BY DEF Narrow, Has
  <2>3. statement = 21 => Has("sites_new") /\ Narrow("apps")
    BY <1>1 DEF SitesKept, AppsKept, CopyKept, Wide
  <2>4. statement' # 21 => Whole("sites")' \/ Stuck'
    BY <1>1, <2>1, <2>2, <2>3 DEF SitesKept, Stuck
  <2> QED
    BY <1>1, <2>1, <2>2, <2>4 DEF SitesKept
<1>9. AppsKept'
  <2>1. /\ CopyKept("apps", "apps_new", 22)'
        /\ Whole("apps")' <=> Whole("apps")
    BY <1>1, <1>2, CopyAside DEF AppsKept
  <2> QED
    BY <1>1, <2>1 DEF AppsKept
<1> QED
  BY <1>3, <1>4, <1>5, <1>6, <1>7, <1>8, <1>9 DEF UpgradeKept, ColumnsKept

LEMMA StopKeeps == UpgradeKept /\ Stop => UpgradeKept'
<1> SUFFICES ASSUME UpgradeKept, Stop PROVE UpgradeKept'
  OBVIOUS
<1>1. /\ MigrationTypes /\ MigrationTypeOK /\ WindowsKept /\ AppsKept
  BY DEF UpgradeKept
<1>2. /\ statement # 0 /\ statement' = 0 /\ policy' = None
      /\ UNCHANGED <<tables, targets, columns, expected>>
  BY DEF Stop
<1>3. CASE statement = Started /\ UNCHANGED <<struck, tally>>
  BY <1>1, <1>2, <1>3, StartEnds, ProgramIs DEF MigrationTypes, MigrationTypeOK
<1>4. CASE /\ statement \in 1 .. Len(Program)
           /\ tally' = [tally EXCEPT !.crashes = @ + 1]
           /\ struck' = struck \cup HalfRebuilt
  <2>1. tally' \in [crashes : Nat, edits : Nat] /\ tally'.crashes # 0
    BY <1>1, <1>4 DEF MigrationTypes
  <2>2. statement \in {9, 10} => "windows" \in HalfRebuilt
    <3>1. statement \in {9, 10} => tables["windows_old"] # None
      BY <1>1 DEF WindowsKept, RenameKept, Has
    <3>2. statement = 9 => tables["windows"] = None
      BY <1>1 DEF WindowsKept, RenameKept, Has
    <3>3. statement = 10 => tables["windows"].rows = {}
      BY <1>1 DEF WindowsKept, RenameKept, NewTable
    <3> QED
      BY <3>1, <3>2, <3>3 DEF HalfRebuilt
  <2>3. statement = 25 => "apps" \in HalfRebuilt
    BY <1>1 DEF AppsKept, CopyKept, Has, HalfRebuilt
  <2>4. struck' \subseteq PolicyTables
    BY <1>1, <1>4 DEF MigrationTypeOK, HalfRebuilt, PolicyTables, Contents
  <2> QED
    BY <1>2, <1>4, <2>1, <2>2, <2>3, <2>4, StartEnds
<1> QED
  BY <1>3, <1>4 DEF Stop

LEMMA GiveUpKeeps ==
    ASSUME UpgradeKept, GiveUpStart,
           statement \notin (4..6) \cup (9..11) \cup (14..16) \cup (19..21) \cup (23..25) \cup {34}
    PROVE  UpgradeKept'
<1>1. MigrationTypes /\ MigrationTypeOK
  BY DEF UpgradeKept
<1>2. policy = None /\ statement \in 0..34
  BY <1>1, TypesFit
<1>3. statement' = 0 /\ UNCHANGED <<tables, targets, columns, policy, expected, struck, tally>>
  BY DEF GiveUpStart, Rest
<1> QED
  BY <1>1, <1>2, <1>3, StartEnds DEF MigrationTypes, MigrationTypeOK

LEMMA BeginKeeps == UpgradeKept /\ Begin => UpgradeKept'
<1> SUFFICES ASSUME UpgradeKept, Begin PROVE UpgradeKept'
  OBVIOUS
<1>1. /\ MigrationTypes /\ MigrationTypeOK /\ AllowancesKept /\ WindowsKept /\ PatternsKept
      /\ SitesKept /\ AppsKept
  BY DEF UpgradeKept
<1>2. /\ statement = 0 /\ statement' = 1
      /\ UNCHANGED <<tables, targets, columns, policy, expected, struck, tally>>
  BY DEF Begin, Rest
<1>3. policy = None /\ TablesFit
  BY <1>1, <1>2, TypesFit
<1>4. TablesFit'
  BY <1>2, <1>3 DEF TablesFit, Has
<1>5. MigrationTypes' /\ MigrationTypeOK' /\ WholeOrRefused'
  BY <1>1, <1>2, <1>3, <1>4, TypesAfter DEF MigrationTypeOK
<1>6. \A t, other : Apart(t, other)
  BY <1>2 DEF Apart
<1>7. AllowancesKept' /\ WindowsKept' /\ PatternsKept' /\ SitesKept' /\ AppsKept'
  BY <1>1, <1>2, <1>6, AllowancesAside, WindowsAside, PatternsAside, SitesAside, AppsAside
<1> QED
  BY <1>2, <1>5, <1>7 DEF UpgradeKept, ColumnsKept

\* What a list of websites is when the updates of a start are done.
LEMMA NormalIs ==
    ASSUME NEW site \in Site
    PROVE  /\ Enabled(site) \in Site /\ Lifted(site) \in Site /\ Unlinked(site) \in Site
           /\ Normal(site) \in Site
           /\ Normal(Enabled(site)) = Normal(site)
           /\ Normal(Lifted(site)) = Normal(site)
           /\ Normal(Unlinked(site)) = Normal(site)
           /\ Enabled(Enabled(site)) = Enabled(site)
           /\ Lifted(Lifted(site)) = Lifted(site)
           /\ Unlinked(Unlinked(site)) = Unlinked(site)
           /\ Enabled(site) = site => Enabled(Lifted(site)) = Lifted(site)
           /\ Enabled(site) = site => Enabled(Unlinked(site)) = Unlinked(site)
           /\ Lifted(site) = site => Lifted(Unlinked(site)) = Unlinked(site)
           /\ (Enabled(site) = site /\ Lifted(site) = site /\ Unlinked(site) = site)
              => Normal(site) = site
<1>1. \A s \in Site : Enabled(s) \in Site /\ Lifted(s) \in Site /\ Unlinked(s) \in Site
  BY DEF Site, Enabled, Lifted, Unlinked
<1>2. Normal(site) \in Site
  BY <1>1, Zenon DEF Normal
<1>3. Enabled(Enabled(site)) = Enabled(site) /\ Lifted(Lifted(site)) = Lifted(site)
      /\ Unlinked(Unlinked(site)) = Unlinked(site)
  BY DEF Site, Enabled, Lifted, Unlinked
<1>4. Normal(Enabled(site)) = Normal(site)
  BY <1>3, Zenon DEF Normal
<1>5. Normal(Lifted(site)) = Normal(site)
  BY DEF Site, Enabled, Lifted, Unlinked, Normal
<1>6. Normal(Unlinked(site)) = Normal(site)
  BY DEF Site, Enabled, Lifted, Unlinked, Normal
<1>7. /\ Enabled(site) = site => Enabled(Lifted(site)) = Lifted(site)
      /\ Enabled(site) = site => Enabled(Unlinked(site)) = Unlinked(site)
      /\ Lifted(site) = site => Lifted(Unlinked(site)) = Unlinked(site)
  BY DEF Site, Enabled, Lifted, Unlinked
<1>8. (Enabled(site) = site /\ Lifted(site) = site /\ Unlinked(site) = site)
      => Normal(site) = site
  BY Zenon DEF Normal
<1> QED
  BY <1>1, <1>2, <1>3, <1>4, <1>5, <1>6, <1>7, <1>8

\* A step of the rebuilding of each table: the rest of the policy stays where it is.
LEMMA AllowancesRebuilt ==
    ASSUME UpgradeKept, Rebuilding, statement \in 3..6
    PROVE  UpgradeKept'
<1>1. /\ MigrationTypes /\ MigrationTypeOK /\ AllowancesKept /\ WindowsKept /\ PatternsKept
      /\ SitesKept /\ AppsKept
  BY DEF UpgradeKept
<1>2. /\ TablesFit /\ policy = None
      /\ columns = [c \in {"sites", "apps", "targets"} |-> columns[c]]
      /\ DOMAIN columns = {"sites", "apps", "targets"}
  BY <1>1, TypesFit
<1>3. CopyKept("allowances", "allowances_new", 3)
  BY <1>1 DEF AllowancesKept
<1>4. /\ CopyKept("allowances", "allowances_new", 3)' /\ TablesFit'
      /\ Only("allowances", "allowances_new")
      /\ statement # 5 => (Has("allowances") => tables'["allowances"] = tables["allowances"])
      /\ statement = 6 => Whole("allowances")'
      /\ \/ statement' = statement + 1
         \/ statement = 3 /\ statement' = 0 /\ UNCHANGED <<tables, columns>>
  <2>1. statement = 4 => Whole("allowances")
    BY <1>1, <1>3 DEF AllowancesKept, CopyKept
  <2> QED
    BY <1>2, <1>3, <2>1, CopyWorks
<1>5. CASE statement = 3 /\ statement' = 0
  <2>1. GiveUpStart
    BY <1>5, RebuildingIs DEF Creates, NextStatement
  <2> QED
    BY <1>5, <2>1, GiveUpKeeps
<1>6. CASE statement' = statement + 1
  <2>1. UNCHANGED <<targets, policy, expected, struck, tally>>
    BY <1>4 DEF Only
  <2>2. \A t \in TableNames \ {"allowances", "allowances_new"} : tables'[t] = tables[t]
    BY <1>4 DEF Only
  <2>3. /\ Apart("windows", "windows_old") /\ Apart("patterns", "patterns_old")
        /\ Apart("sites", "sites_new") /\ Apart("apps", "apps_new")
    BY <1>6, <2>1, <2>2 DEF Apart, TableNames, PolicyTables, Contents, Temporary
  <2>4. WindowsKept' /\ PatternsKept' /\ SitesKept' /\ AppsKept'
    BY <1>1, <1>6, <2>3, WindowsAside, PatternsAside, SitesAside, AppsAside DEF Apart
  <2>5. AllowancesKept'
    BY <1>1, <1>3, <1>4, <1>6 DEF AllowancesKept, Narrow, Has, CopyKept
  <2>6. columns' \in [{"sites", "apps", "targets"} -> BOOLEAN]
    BY <1>1, <1>2, <1>4 DEF MigrationTypeOK, Only
  <2>7. MigrationTypes' /\ MigrationTypeOK' /\ WholeOrRefused'
    BY <1>1, <1>2, <1>4, <1>6, <2>1, <2>6, TypesAfter DEF MigrationTypeOK
  <2> QED
    BY <1>6, <2>4, <2>5, <2>7 DEF UpgradeKept, ColumnsKept
<1> QED
  BY <1>4, <1>5, <1>6

LEMMA WindowsRebuilt ==
    ASSUME UpgradeKept, Rebuilding, statement \in 8..11
    PROVE  UpgradeKept'
<1>1. /\ MigrationTypes /\ MigrationTypeOK /\ AllowancesKept /\ WindowsKept /\ PatternsKept
      /\ SitesKept /\ AppsKept
  BY DEF UpgradeKept
<1>2. /\ TablesFit /\ policy = None
      /\ columns = [c \in {"sites", "apps", "targets"} |-> columns[c]]
      /\ DOMAIN columns = {"sites", "apps", "targets"}
  BY <1>1, TypesFit
<1>3. RenameKept("windows", "windows_old", 8)
  BY <1>1 DEF WindowsKept
<1>4. /\ RenameKept("windows", "windows_old", 8)' /\ TablesFit' /\ Only("windows", "windows_old")
      /\ statement = 10 => Whole("windows")'
      /\ statement = 11 => tables'["windows"] = tables["windows"]
      /\ \/ statement' = statement + 1
         \/ statement = 8 /\ statement' = 0 /\ UNCHANGED <<tables, columns>>
  BY <1>2, <1>3, RenameWorks
<1>5. CASE statement = 8 /\ statement' = 0
  <2>1. GiveUpStart
    BY <1>5, RebuildingIs DEF Renames, NextStatement
  <2> QED
    BY <1>5, <2>1, GiveUpKeeps
<1>6. CASE statement' = statement + 1
  <2>1. UNCHANGED <<targets, policy, expected, struck, tally>>
    BY <1>4 DEF Only
  <2>2. \A t \in TableNames \ {"windows", "windows_old"} : tables'[t] = tables[t]
    BY <1>4 DEF Only
  <2>3. /\ Apart("allowances", "allowances_new") /\ Apart("patterns", "patterns_old")
        /\ Apart("sites", "sites_new") /\ Apart("apps", "apps_new")
    BY <1>6, <2>1, <2>2 DEF Apart, TableNames, PolicyTables, Contents, Temporary
  <2>4. AllowancesKept' /\ PatternsKept' /\ SitesKept' /\ AppsKept'
    BY <1>1, <1>6, <2>3, AllowancesAside, PatternsAside, SitesAside, AppsAside DEF Apart
  <2>5. WindowsKept'
    <3>1. statement = 11 => (Whole("windows")' <=> Whole("windows"))
      BY <1>4, <2>1 DEF Whole, Has, Right
    <3> QED
      BY <1>1, <1>4, <1>6, <2>1, <3>1 DEF WindowsKept
  <2>6. columns' \in [{"sites", "apps", "targets"} -> BOOLEAN]
    BY <1>1, <1>2, <1>4 DEF MigrationTypeOK, Only
  <2>7. MigrationTypes' /\ MigrationTypeOK' /\ WholeOrRefused'
    BY <1>1, <1>2, <1>4, <1>6, <2>1, <2>6, TypesAfter DEF MigrationTypeOK
  <2> QED
    BY <1>6, <2>4, <2>5, <2>7 DEF UpgradeKept, ColumnsKept
<1> QED
  BY <1>4, <1>5, <1>6

LEMMA PatternsRebuilt ==
    ASSUME UpgradeKept, Rebuilding, statement \in 13..16
    PROVE  UpgradeKept'
<1>1. /\ MigrationTypes /\ MigrationTypeOK /\ AllowancesKept /\ WindowsKept /\ PatternsKept
      /\ SitesKept /\ AppsKept
  BY DEF UpgradeKept
<1>2. /\ TablesFit /\ policy = None
      /\ columns = [c \in {"sites", "apps", "targets"} |-> columns[c]]
      /\ DOMAIN columns = {"sites", "apps", "targets"}
  BY <1>1, TypesFit
<1>3. RenameKept("patterns", "patterns_old", 13)
  BY <1>1 DEF PatternsKept
<1>4. /\ RenameKept("patterns", "patterns_old", 13)' /\ TablesFit' /\ Only("patterns", "patterns_old")
      /\ statement = 15 => Whole("patterns")'
      /\ statement = 16 => tables'["patterns"] = tables["patterns"]
      /\ \/ statement' = statement + 1
         \/ statement = 13 /\ statement' = 0 /\ UNCHANGED <<tables, columns>>
  BY <1>2, <1>3, RenameWorks
<1>5. CASE statement = 13 /\ statement' = 0
  <2>1. GiveUpStart
    BY <1>5, RebuildingIs DEF Renames, NextStatement
  <2> QED
    BY <1>5, <2>1, GiveUpKeeps
<1>6. CASE statement' = statement + 1
  <2>1. UNCHANGED <<targets, policy, expected, struck, tally>>
    BY <1>4 DEF Only
  <2>2. \A t \in TableNames \ {"patterns", "patterns_old"} : tables'[t] = tables[t]
    BY <1>4 DEF Only
  <2>3. /\ Apart("allowances", "allowances_new") /\ Apart("windows", "windows_old")
        /\ Apart("sites", "sites_new") /\ Apart("apps", "apps_new")
    BY <1>6, <2>1, <2>2 DEF Apart, TableNames, PolicyTables, Contents, Temporary
  <2>4. AllowancesKept' /\ WindowsKept' /\ SitesKept' /\ AppsKept'
    BY <1>1, <1>6, <2>3, AllowancesAside, WindowsAside, SitesAside, AppsAside DEF Apart
  <2>5. PatternsKept'
    BY <1>1, <1>4, <2>1 DEF PatternsKept
  <2>6. columns' \in [{"sites", "apps", "targets"} -> BOOLEAN]
    BY <1>1, <1>2, <1>4 DEF MigrationTypeOK, Only
  <2>7. MigrationTypes' /\ MigrationTypeOK' /\ WholeOrRefused'
    BY <1>1, <1>2, <1>4, <1>6, <2>1, <2>6, TypesAfter DEF MigrationTypeOK
  <2> QED
    BY <1>6, <2>4, <2>5, <2>7 DEF UpgradeKept, ColumnsKept
<1> QED
  BY <1>4, <1>5, <1>6

LEMMA SitesRebuilt ==
    ASSUME UpgradeKept, Rebuilding, statement \in 18..21
    PROVE  UpgradeKept'
<1>1. /\ MigrationTypes /\ MigrationTypeOK /\ AllowancesKept /\ WindowsKept /\ PatternsKept
      /\ SitesKept /\ AppsKept
  BY DEF UpgradeKept
<1>2. /\ TablesFit /\ policy = None
      /\ columns = [c \in {"sites", "apps", "targets"} |-> columns[c]]
      /\ DOMAIN columns = {"sites", "apps", "targets"}
  BY <1>1, TypesFit
<1>3. CopyKept("sites", "sites_new", 18)
  BY <1>1 DEF SitesKept
<1>4. /\ CopyKept("sites", "sites_new", 18)' /\ TablesFit' /\ Only("sites", "sites_new")
      /\ statement # 20 => (Has("sites") => tables'["sites"] = tables["sites"])
      /\ statement = 21 => Whole("sites")'
      /\ \/ statement' = statement + 1
         \/ statement = 18 /\ statement' = 0 /\ UNCHANGED <<tables, columns>>
  <2>1. statement = 19 => Whole("sites")
    BY <1>1 DEF SitesKept, Stuck
  <2> QED
    BY <1>2, <1>3, <2>1, CopyWorks
<1>5. CASE statement = 18 /\ statement' = 0
  <2>1. GiveUpStart
    BY <1>5, RebuildingIs DEF Creates, NextStatement
  <2> QED
    BY <1>5, <2>1, GiveUpKeeps
<1>6. CASE statement' = statement + 1
  <2>1. UNCHANGED <<targets, policy, expected, struck, tally>>
    BY <1>4 DEF Only
  <2>2. \A t \in TableNames \ {"sites", "sites_new"} : tables'[t] = tables[t]
    BY <1>4 DEF Only
  <2>3. /\ Apart("allowances", "allowances_new") /\ Apart("windows", "windows_old")
        /\ Apart("patterns", "patterns_old") /\ Apart("apps", "apps_new")
    BY <1>6, <2>1, <2>2 DEF Apart, TableNames, PolicyTables, Contents, Temporary
  <2>4. AllowancesKept' /\ WindowsKept' /\ PatternsKept' /\ AppsKept'
    BY <1>1, <1>6, <2>3, AllowancesAside, WindowsAside, PatternsAside, AppsAside DEF Apart
  <2>5. SitesKept'
    <3>1. Narrow("apps") /\ Narrow("apps")'
      BY <1>1, <2>3 DEF AppsKept, Apart, Narrow, Has
    <3>2. statement = 18 => ~Has("sites_new")
      BY <1>6, RebuildingIs, OperandsAre DEF Creates, Has, GiveUpStart
    <3>3. statement \in {18, 19} => Whole("sites")
      BY <1>1, <3>2 DEF SitesKept, Stuck
    <3>4. statement \in {18, 19} => Whole("sites")'
      BY <1>4, <2>1, <3>3 DEF Whole, Has, Right
    <3> QED
      BY <1>4, <1>6, <3>1, <3>4 DEF SitesKept
  <2>6. columns' \in [{"sites", "apps", "targets"} -> BOOLEAN]
    BY <1>1, <1>2, <1>4 DEF MigrationTypeOK, Only
  <2>7. MigrationTypes' /\ MigrationTypeOK' /\ WholeOrRefused'
    BY <1>1, <1>2, <1>4, <1>6, <2>1, <2>6, TypesAfter DEF MigrationTypeOK
  <2> QED
    BY <1>6, <2>4, <2>5, <2>7 DEF UpgradeKept, ColumnsKept
<1> QED
  BY <1>4, <1>5, <1>6

LEMMA AppsRebuilt ==
    ASSUME UpgradeKept, Rebuilding, statement \in 22..25
    PROVE  UpgradeKept'
<1>1. /\ MigrationTypes /\ MigrationTypeOK /\ AllowancesKept /\ WindowsKept /\ PatternsKept
      /\ SitesKept /\ AppsKept
  BY DEF UpgradeKept
<1>2. /\ TablesFit /\ policy = None
      /\ columns = [c \in {"sites", "apps", "targets"} |-> columns[c]]
      /\ DOMAIN columns = {"sites", "apps", "targets"}
  BY <1>1, TypesFit
<1>3. CopyKept("apps", "apps_new", 22)
  BY <1>1 DEF AppsKept
<1>4. /\ CopyKept("apps", "apps_new", 22)' /\ TablesFit' /\ Only("apps", "apps_new")
      /\ statement # 24 => (Has("apps") => tables'["apps"] = tables["apps"])
      /\ statement = 25 => Whole("apps")'
      /\ \/ statement' = statement + 1
         \/ statement = 22 /\ statement' = 0 /\ UNCHANGED <<tables, columns>>
  <2>1. statement = 23 => Whole("apps")
    BY <1>1, <1>3 DEF AppsKept, CopyKept
  <2> QED
    BY <1>2, <1>3, <2>1, CopyWorks
<1>5. CASE statement = 22 /\ statement' = 0
  <2>1. GiveUpStart
    BY <1>5, RebuildingIs DEF Creates, NextStatement
  <2> QED
    BY <1>5, <2>1, GiveUpKeeps
<1>6. CASE statement' = statement + 1
  <2>1. UNCHANGED <<targets, policy, expected, struck, tally>>
    BY <1>4 DEF Only
  <2>2. \A t \in TableNames \ {"apps", "apps_new"} : tables'[t] = tables[t]
    BY <1>4 DEF Only
  <2>3. /\ Apart("allowances", "allowances_new") /\ Apart("windows", "windows_old")
        /\ Apart("patterns", "patterns_old") /\ Apart("sites", "sites_new")
    BY <1>6, <2>1, <2>2 DEF Apart, TableNames, PolicyTables, Contents, Temporary
  <2>4. AllowancesKept' /\ WindowsKept' /\ PatternsKept' /\ SitesKept'
    BY <1>1, <1>6, <2>3, AllowancesAside, WindowsAside, PatternsAside, SitesAside DEF Apart
  <2>5. AppsKept'
    <3>1. statement \in {22, 23} => Narrow("apps")'
      BY <1>1, <1>4 DEF AppsKept, Narrow, Has
    <3>2. statement \in {22, 23} => Whole("apps")'
      BY <1>4, <3>1 DEF CopyKept
    <3> QED
      BY <1>4, <1>6, <3>1, <3>2 DEF AppsKept
  <2>6. columns' \in [{"sites", "apps", "targets"} -> BOOLEAN]
    BY <1>1, <1>2, <1>4 DEF MigrationTypeOK, Only
  <2>7. MigrationTypes' /\ MigrationTypeOK' /\ WholeOrRefused'
    BY <1>1, <1>2, <1>4, <1>6, <2>1, <2>6, TypesAfter DEF MigrationTypeOK
  <2> QED
    BY <1>6, <2>4, <2>5, <2>7 DEF UpgradeKept, ColumnsKept
<1> QED
  BY <1>4, <1>5, <1>6

LEMMA RebuildingKeeps == UpgradeKept /\ Rebuilding => UpgradeKept'
<1> SUFFICES ASSUME UpgradeKept, Rebuilding PROVE UpgradeKept'
  OBVIOUS
<1>1. statement \in (3..6) \cup (8..11) \cup (13..16) \cup (18..21) \cup (22..25)
  BY RebuildingIs
<1> QED
  BY <1>1, AllowancesRebuilt, WindowsRebuilt, PatternsRebuilt, SitesRebuilt, AppsRebuilt

\* The tables that are missing are made, empty.
LEMMA EnsuredIs ==
    ASSUME TablesFit, Ensure
    PROVE  /\ TablesFit'
           /\ \A t \in PolicyTables :
                 /\ Has(t)' /\ (Has(t) => tables'[t] = tables[t])
                 /\ ~Has(t) => tables'[t] = NewTable
                 /\ Narrow(t)' <=> Narrow(t)
                 /\ Wide(t) => Wide(t)'
                 /\ Whole(t) => Whole(t)'
           /\ \A t \in Temporary : tables'[t] = tables[t]
<1>1. /\ tables' = [t \in DOMAIN tables |->
              IF t \in PolicyTables /\ tables[t] = None THEN NewTable ELSE tables[t]]
      /\ expected' = expected
  BY DEF Ensure
<1>2. DOMAIN tables = TableNames
  BY DEF TablesFit
<1>3. /\ tables' = [t \in TableNames |-> tables'[t]]
      /\ \A t \in PolicyTables : tables'[t] = IF tables[t] = None THEN NewTable ELSE tables[t]
      /\ \A t \in Temporary : tables'[t] = tables[t]
  BY <1>1, <1>2 DEF TableNames, PolicyTables, Contents, Temporary
<1>4. TablesFit'
  BY <1>3, NewTableIs DEF TablesFit, TableNames, Has
<1>5. ASSUME NEW t \in PolicyTables
      PROVE  /\ Has(t)' /\ (Has(t) => tables'[t] = tables[t])
             /\ ~Has(t) => tables'[t] = NewTable
             /\ Narrow(t)' <=> Narrow(t)
             /\ Wide(t) => Wide(t)'
             /\ Whole(t) => Whole(t)'
  <2>1. NewTable # None /\ NewTable.wide
    BY NewTableIs DEF TableNames
  <2>2. CASE Has(t)
    BY <1>1, <1>3, <2>2 DEF Has, Narrow, Wide, Whole, Right
  <2>3. CASE ~Has(t)
    BY <1>3, <2>1, <2>3 DEF Has, Narrow, Wide, Whole
  <2> QED
    BY <2>2, <2>3
<1> QED
  BY <1>3, <1>4, <1>5

LEMMA EnsureKeeps == UpgradeKept /\ Ensure => UpgradeKept'
<1> SUFFICES ASSUME UpgradeKept, Ensure PROVE UpgradeKept'
  OBVIOUS
<1>1. /\ MigrationTypes /\ MigrationTypeOK /\ AllowancesKept /\ WindowsKept /\ PatternsKept
      /\ SitesKept /\ AppsKept
  BY DEF UpgradeKept
<1>2. /\ statement = 1 /\ statement' = 2 /\ UNCHANGED <<targets, policy, expected, struck, tally>>
  BY ProgramIs DEF Ensure, NextStatement
<1>3. /\ TablesFit /\ policy = None
      /\ DOMAIN columns = {"sites", "apps", "targets"}
  BY <1>1, <1>2, TypesFit
<1>4. /\ TablesFit'
      /\ \A t \in PolicyTables :
            /\ Has(t)' /\ (Has(t) => tables'[t] = tables[t])
            /\ ~Has(t) => tables'[t] = NewTable
            /\ Narrow(t)' <=> Narrow(t)
            /\ Wide(t) => Wide(t)'
            /\ Whole(t) => Whole(t)'
      /\ \A t \in Temporary : tables'[t] = tables[t]
  BY <1>3, EnsuredIs
<1>5. columns' \in [{"sites", "apps", "targets"} -> BOOLEAN]
  <2>1. columns' = [t \in DOMAIN columns |->
                      columns[t] \/ (t \in PolicyTables /\ tables[t] = None)]
    BY DEF Ensure
  <2> QED
    BY <1>3, <2>1
<1>6. MigrationTypes' /\ MigrationTypeOK' /\ WholeOrRefused'
  BY <1>1, <1>2, <1>3, <1>4, <1>5, TypesAfter DEF MigrationTypeOK
<1>7. ASSUME NEW t \in PolicyTables, NEW other \in Temporary
      PROVE  /\ Has(t)' => Whole(t)' \/ tables'[t].rows = {}
             /\ Has(other)' <=> Has(other)
  <2>1. Has(t) /\ tables[t].rows = {} => tables'[t].rows = {}
    BY <1>4
  <2>2. ~Has(t) => tables'[t].rows = {}
    BY <1>4 DEF NewTable
  <2>3. (Has(t) => Whole(t) \/ tables[t].rows = {}) => (Whole(t)' \/ tables'[t].rows = {})
    BY <1>4, <2>1, <2>2
  <2>4. Has(t) => Whole(t) \/ tables[t].rows = {}
    BY <1>1 DEF AllowancesKept, WindowsKept, PatternsKept, SitesKept, AppsKept, CopyKept,
                RenameKept, PolicyTables, Contents
  <2> QED
    BY <1>4, <2>3, <2>4 DEF Has
<1>8. ASSUME NEW t \in PolicyTables, NEW new \in Temporary, NEW s \in {3, 18, 22},
             CopyKept(t, new, s)
      PROVE  CopyKept(t, new, s)'
  BY <1>2, <1>4, <1>7, <1>8 DEF CopyKept
<1>9. ASSUME NEW t \in PolicyTables, NEW old \in Temporary, NEW s \in {8, 13},
             RenameKept(t, old, s)
      PROVE  RenameKept(t, old, s)'
  BY <1>2, <1>4, <1>7, <1>9 DEF RenameKept
<1>10. /\ {"allowances", "windows", "patterns", "sites", "apps"} \subseteq PolicyTables
       /\ {"allowances_new", "windows_old", "patterns_old", "sites_new", "apps_new"}
             \subseteq Temporary
  BY DEF PolicyTables, Contents, Temporary
<1>11. AllowancesKept'
  BY <1>1, <1>2, <1>8, <1>10 DEF AllowancesKept
<1>12. WindowsKept'
  <2>1. RenameKept("windows", "windows_old", 8)'
    BY <1>1, <1>9, <1>10 DEF WindowsKept
  <2>2. Whole("windows") => Whole("windows")'
    BY <1>4, <1>10
  <2> QED
    BY <1>1, <1>2, <2>1, <2>2 DEF WindowsKept
<1>13. PatternsKept'
  <2>1. RenameKept("patterns", "patterns_old", 13)'
    BY <1>1, <1>9, <1>10 DEF PatternsKept
  <2>2. (Whole("patterns") => Whole("patterns")') /\ (Wide("patterns") => Wide("patterns")')
    BY <1>4, <1>10
  <2> QED
    BY <1>1, <1>2, <2>1, <2>2 DEF PatternsKept
<1>14. SitesKept'
  <2>1. CopyKept("sites", "sites_new", 18)'
    BY <1>1, <1>8, <1>10 DEF SitesKept
  <2>2. /\ Whole("sites") => Whole("sites")'
        /\ Narrow("sites")' <=> Narrow("sites")
        /\ Narrow("apps")' <=> Narrow("apps")
    BY <1>4, <1>10
  <2>3. Has("sites_new")' <=> Has("sites_new")
    BY <1>7, <1>10
  <2>4. Whole("sites")' \/ Stuck'
    BY <1>1, <1>2, <2>2, <2>3 DEF SitesKept, Stuck
  <2> QED
    BY <1>1, <1>2, <2>1, <2>2, <2>4 DEF SitesKept
<1>15. AppsKept'
  <2>1. CopyKept("apps", "apps_new", 22)'
    BY <1>1, <1>8, <1>10 DEF AppsKept
  <2>2. Whole("apps") => Whole("apps")'
    BY <1>4, <1>10
  <2> QED
    BY <1>1, <1>2, <2>1, <2>2 DEF AppsKept
<1> QED
  BY <1>2, <1>6, <1>11, <1>12, <1>13, <1>14, <1>15 DEF UpgradeKept, ColumnsKept

\* The look at a table: what is widened already is passed over.
LEMMA ShapeIs ==
    ASSUME CheckShape
    PROVE  /\ UNCHANGED <<tables, targets, columns, policy, expected, struck, tally>>
           /\ \/ statement = 2 /\ statement' = IF tables["allowances"].wide THEN 7 ELSE 3
              \/ statement = 7 /\ statement' = IF tables["windows"].wide THEN 12 ELSE 8
              \/ statement = 12 /\ statement' = IF tables["patterns"].wide THEN 17 ELSE 13
              \/ statement = 17 /\ statement' = IF tables["sites"].wide /\ tables["apps"].wide
                                                THEN 26 ELSE 18
<1>1. statement \in {2, 7, 12, 17}
  BY ProgramIs DEF CheckShape
<1>2. UNCHANGED <<tables, targets, columns, policy, expected, struck, tally>>
  BY DEF CheckShape, Rest
<1>3. statement' = IF \A t \in Now.of : tables[t].wide THEN statement + 1 + Now.to
                   ELSE statement + 1
  BY DEF CheckShape
<1>4. CASE statement = 2
  BY <1>2, <1>3, <1>4, OperandsAre
<1>5. CASE statement = 7
  BY <1>2, <1>3, <1>5, OperandsAre
<1>6. CASE statement = 12
  BY <1>2, <1>3, <1>6, OperandsAre
<1>7. CASE statement = 17
  BY <1>2, <1>3, <1>7, OperandsAre
<1> QED
  BY <1>1, <1>4, <1>5, <1>6, <1>7

LEMMA CheckShapeKeeps == UpgradeKept /\ CheckShape => UpgradeKept'
<1> SUFFICES ASSUME UpgradeKept, CheckShape PROVE UpgradeKept'
  OBVIOUS
<1>1. /\ MigrationTypes /\ MigrationTypeOK /\ AllowancesKept /\ WindowsKept /\ PatternsKept
      /\ SitesKept /\ AppsKept
  BY DEF UpgradeKept
<1>2. /\ UNCHANGED <<tables, targets, columns, policy, expected, struck, tally>>
      /\ \/ statement = 2 /\ statement' = IF tables["allowances"].wide THEN 7 ELSE 3
         \/ statement = 7 /\ statement' = IF tables["windows"].wide THEN 12 ELSE 8
         \/ statement = 12 /\ statement' = IF tables["patterns"].wide THEN 17 ELSE 13
         \/ statement = 17 /\ statement' = IF tables["sites"].wide /\ tables["apps"].wide
                                           THEN 26 ELSE 18
  BY ShapeIs
<1>3. policy = None /\ TablesFit
  BY <1>1, <1>2, TypesFit
<1>4. TablesFit'
  BY <1>2, <1>3 DEF TablesFit, Has
<1>5. MigrationTypes' /\ MigrationTypeOK' /\ WholeOrRefused'
  BY <1>1, <1>2, <1>3, <1>4, TypesAfter DEF MigrationTypeOK
<1>6. \A t, other : Apart(t, other)
  BY <1>2 DEF Apart
<1>7. /\ CopyKept("allowances", "allowances_new", 3) /\ RenameKept("windows", "windows_old", 8)
      /\ RenameKept("patterns", "patterns_old", 13) /\ CopyKept("sites", "sites_new", 18)
      /\ CopyKept("apps", "apps_new", 22)
      /\ Narrow("sites") => Narrow("apps")
  BY <1>1 DEF AllowancesKept, WindowsKept, PatternsKept, SitesKept, AppsKept
<1>8. Has("allowances") /\ Has("windows") /\ Has("patterns") /\ Has("sites") /\ Has("apps")
  BY <1>2, <1>7 DEF CopyKept, RenameKept
<1>9. \A t : (Narrow(t)' <=> Narrow(t)) /\ (Has(t)' <=> Has(t)) /\ (Wide(t)' <=> Wide(t))
  BY <1>2 DEF Narrow, Has, Wide
<1>10. AllowancesKept'
  <2>1. CASE statement = 2
    <3>1. CopyKept("allowances", "allowances_new", 3)'
      BY <1>2, <1>7, <1>8, <2>1, CopyAside DEF Wide
    <3> QED
      BY <1>2, <1>8, <1>9, <2>1, <3>1 DEF AllowancesKept, Narrow
  <2> QED
    BY <1>1, <1>2, <1>6, <2>1, AllowancesAside
<1>11. WindowsKept'
  <2>1. CASE statement = 7
    <3>1. /\ RenameKept("windows", "windows_old", 8)'
          /\ Whole("windows")' <=> Whole("windows")
      BY <1>2, <1>7, <1>8, <2>1, RenameAside DEF Wide, Narrow
    <3> QED
      BY <1>1, <1>2, <2>1, <3>1 DEF WindowsKept
  <2> QED
    BY <1>1, <1>2, <1>6, <2>1, WindowsAside
<1>12. PatternsKept'
  <2>1. CASE statement = 12
    <3>1. /\ RenameKept("patterns", "patterns_old", 13)'
          /\ Whole("patterns")' <=> Whole("patterns")
      BY <1>2, <1>7, <1>8, <2>1, RenameAside DEF Wide, Narrow
    <3> QED
      BY <1>1, <1>2, <1>9, <2>1, <3>1 DEF PatternsKept, Wide
  <2> QED
    BY <1>1, <1>2, <1>6, <2>1, PatternsAside
<1>13. SitesKept'
  <2>1. CASE statement = 17
    <3>1. /\ CopyKept("sites", "sites_new", 18)'
          /\ Whole("sites")' <=> Whole("sites")
      BY <1>2, <1>7, <1>8, <2>1, CopyAside DEF Wide
    <3>2. Whole("sites") \/ Stuck
      BY <1>1, <2>1 DEF SitesKept
    <3>3. Whole("sites")' \/ Stuck'
      BY <1>2, <1>9, <2>1, <3>1, <3>2 DEF Stuck, Narrow
    <3> QED
      BY <1>2, <1>7, <1>9, <2>1, <3>1, <3>3 DEF SitesKept
  <2> QED
    BY <1>1, <1>2, <1>6, <2>1, SitesAside
<1>14. AppsKept'
  <2>1. CASE statement = 17
    <3>1. /\ CopyKept("apps", "apps_new", 22)'
          /\ Whole("apps")' <=> Whole("apps")
      BY <1>2, <1>7, <1>8, <2>1, CopyAside DEF Wide
    <3>2. statement' = 18 => Narrow("apps")
      BY <1>2, <1>7, <1>8, <2>1 DEF Narrow
    <3> QED
      BY <1>1, <1>2, <1>9, <2>1, <3>1, <3>2 DEF AppsKept
  <2> QED
    BY <1>1, <1>2, <1>6, <2>1, AppsAside
<1> QED
  BY <1>2, <1>5, <1>10, <1>11, <1>12, <1>13, <1>14 DEF UpgradeKept, ColumnsKept

\* The columns, and the targets of the grants.
LEMMA ColumnsOnly ==
    ASSUME UpgradeKept, statement \in 26..29, statement' = statement + 1,
           UNCHANGED <<tables, policy, expected, struck, tally>>,
           targets' \in [Grants -> {"none", "granted", "revoked"}],
           columns' \in [{"sites", "apps", "targets"} -> BOOLEAN],
           \A c \in {"sites", "apps", "targets"} : columns[c] => columns'[c],
           statement = 26 => columns'["targets"],
           statement = 28 => columns'["sites"],
           statement = 29 => columns'["apps"]
    PROVE  UpgradeKept'
<1>1. /\ MigrationTypes /\ MigrationTypeOK /\ AllowancesKept /\ WindowsKept /\ PatternsKept
      /\ SitesKept /\ AppsKept
  BY DEF UpgradeKept
<1>2. policy = None /\ TablesFit
  BY <1>1, TypesFit
<1>3. TablesFit'
  BY <1>2 DEF TablesFit, Has
<1>4. MigrationTypes' /\ MigrationTypeOK' /\ WholeOrRefused'
  BY <1>1, <1>2, <1>3, TypesAfter
<1>5. \A t, other : Apart(t, other)
  BY DEF Apart
<1>6. AllowancesKept' /\ WindowsKept' /\ PatternsKept' /\ SitesKept' /\ AppsKept'
  BY <1>1, <1>5, AllowancesAside, WindowsAside, PatternsAside, SitesAside, AppsAside
<1> QED
  BY <1>4, <1>6 DEF UpgradeKept, ColumnsKept

LEMMA AddRevokedKeeps == UpgradeKept /\ AddRevoked => UpgradeKept'
<1> SUFFICES ASSUME UpgradeKept, AddRevoked PROVE UpgradeKept'
  OBVIOUS
<1>1. /\ targets \in [Grants -> {"none", "granted", "revoked"}]
      /\ columns \in [{"sites", "apps", "targets"} -> BOOLEAN]
  BY DEF UpgradeKept, MigrationTypeOK
<1>2. /\ statement = 26 /\ statement' = 27 /\ columns' = [columns EXCEPT !["targets"] = TRUE]
      /\ UNCHANGED <<tables, targets, policy, expected, struck, tally>>
  BY ProgramIs DEF AddRevoked, NextStatement
<1>3. /\ columns' \in [{"sites", "apps", "targets"} -> BOOLEAN] /\ columns'["targets"]
      /\ \A c \in {"sites", "apps", "targets"} : columns[c] => columns'[c]
  BY <1>1, <1>2
<1> QED
  BY <1>1, <1>2, <1>3, ColumnsOnly

LEMMA BackfillKeeps == UpgradeKept /\ Backfill => UpgradeKept'
<1> SUFFICES ASSUME UpgradeKept, Backfill PROVE UpgradeKept'
  OBVIOUS
<1>1. /\ targets \in [Grants -> {"none", "granted", "revoked"}]
      /\ columns \in [{"sites", "apps", "targets"} -> BOOLEAN]
  BY DEF UpgradeKept, MigrationTypeOK
<1>2. /\ statement = 27 /\ statement' = 28
      /\ targets' = [g \in Grants |-> IF targets[g] = "none" THEN "granted" ELSE targets[g]]
      /\ UNCHANGED <<tables, columns, policy, expected, struck, tally>>
  BY ProgramIs DEF Backfill, NextStatement
<1>3. targets' \in [Grants -> {"none", "granted", "revoked"}]
  BY <1>1, <1>2
<1> QED
  BY <1>1, <1>2, <1>3, ColumnsOnly

LEMMA AddModeKeeps == UpgradeKept /\ AddMode => UpgradeKept'
<1> SUFFICES ASSUME UpgradeKept, AddMode PROVE UpgradeKept'
  OBVIOUS
<1>1. /\ targets \in [Grants -> {"none", "granted", "revoked"}]
      /\ columns \in [{"sites", "apps", "targets"} -> BOOLEAN]
  BY DEF UpgradeKept, MigrationTypeOK
<1>2. /\ statement \in {28, 29} /\ statement' = statement + 1
      /\ columns' = [columns EXCEPT ![Now.of] = TRUE]
      /\ UNCHANGED <<tables, targets, policy, expected, struck, tally>>
  BY ProgramIs DEF AddMode, NextStatement
<1>3. Now.of = IF statement = 28 THEN "sites" ELSE "apps"
  BY <1>2, OperandsAre
<1>4. /\ columns' \in [{"sites", "apps", "targets"} -> BOOLEAN]
      /\ \A c \in {"sites", "apps", "targets"} : columns[c] => columns'[c]
      /\ statement = 28 => columns'["sites"]
      /\ statement = 29 => columns'["apps"]
  BY <1>1, <1>2, <1>3
<1> QED
  BY <1>1, <1>2, <1>4, ColumnsOnly

-----------------------------------------------------------------------------
(* The updates of the lists.                                                *)

LEMMA UpdatedIs ==
    ASSUME NEW op \in {"enable", "lift", "unlink"}, NEW site \in Site
    PROVE  /\ Updated(op, site) \in Site /\ Normal(Updated(op, site)) = Normal(site)
           /\ op = "enable" => Updated(op, site) = Enabled(site)
           /\ op = "lift" => Updated(op, site) = Lifted(site)
           /\ op = "unlink" => Updated(op, site) = Unlinked(site)
<1>1. CASE op = "enable"
  <2>1. Updated(op, site) = Enabled(site)
    BY <1>1 DEF Updated
  <2> QED
    BY <1>1, <2>1, NormalIs
<1>2. CASE op = "lift"
  <2>1. Updated(op, site) = Lifted(site)
    BY <1>2 DEF Updated
  <2> QED
    BY <1>2, <2>1, NormalIs
<1>3. CASE op = "unlink"
  <2>1. Updated(op, site) = Unlinked(site)
    BY <1>3 DEF Updated
  <2> QED
    BY <1>3, <2>1, NormalIs
<1> QED
  BY <1>1, <1>2, <1>3

\* A step that updates the lists, by the statement it is.
LEMMA NormalizeIs ==
    ASSUME Normalize
    PROVE  \E op \in {"enable", "lift", "unlink"} :
              /\ statement = IF op = "enable" THEN 30 ELSE IF op = "lift" THEN 31 ELSE 32
              /\ statement' = statement + 1
              /\ tables' = [tables EXCEPT !["sites"].rows = {Updated(op, site) : site \in @}]
              /\ UNCHANGED <<targets, columns, policy, expected, struck, tally>>
<1>1. PICK op \in {"enable", "lift", "unlink"} : Updates(op)
  BY Zenon DEF Normalize
<1>2. Is(op) => statement = IF op = "enable" THEN 30 ELSE IF op = "lift" THEN 31 ELSE 32
  <2>1. op = "enable" \/ op = "lift" \/ op = "unlink"
    OBVIOUS
  <2> QED
    BY <2>1, ProgramIs
<1> QED
  BY <1>1, <1>2 DEF Updates, NextStatement, Rest

LEMMA NormalizeKeeps == UpgradeKept /\ Normalize => UpgradeKept'
<1> SUFFICES ASSUME UpgradeKept, Normalize PROVE UpgradeKept'
  OBVIOUS
<1>1. /\ MigrationTypes /\ MigrationTypeOK /\ AllowancesKept /\ WindowsKept /\ PatternsKept
      /\ SitesKept /\ AppsKept
  BY DEF UpgradeKept
<1>2. PICK op \in {"enable", "lift", "unlink"} :
         /\ statement = IF op = "enable" THEN 30 ELSE IF op = "lift" THEN 31 ELSE 32
         /\ statement' = statement + 1
         /\ tables' = [tables EXCEPT !["sites"].rows = {Updated(op, site) : site \in @}]
         /\ UNCHANGED <<targets, columns, policy, expected, struck, tally>>
  BY NormalizeIs
<1>3. /\ statement \in {30, 31, 32} /\ statement' \in {31, 32, 33}
      /\ statement = 30 => op = "enable"
      /\ statement = 31 => op = "lift"
      /\ statement = 32 => op = "unlink"
  BY <1>2
<1>4. TablesFit /\ policy = None
  BY <1>1, <1>3, TypesFit
<1>5. CopyKept("sites", "sites_new", 18) /\ CopyKept("apps", "apps_new", 22)
  BY <1>1 DEF SitesKept, AppsKept
<1>6. Wide("sites") /\ Has("sites") /\ Wide("apps")
  BY <1>3, <1>5 DEF CopyKept, Wide
<1>7. Whole("sites")
  BY <1>1, <1>3, <1>6 DEF SitesKept, Stuck, Wide, Narrow
<1> DEFINE old == tables["sites"].rows
           new == {Updated(op, site) : site \in old}
<1>8. "sites" \in TableNames /\ "sites_new" \in TableNames /\ "sites" # "sites_new"
  BY DEF TableNames, PolicyTables, Temporary
<1>9. old \subseteq Site /\ {Normal(site) : site \in old} = {Normal(site) : site \in expected["sites"]}
  BY <1>7 DEF Whole, Right
<1>10. \A site \in old : Updated(op, site) \in Site /\ Normal(Updated(op, site)) = Normal(site)
  BY <1>9, UpdatedIs
<1>11. new \subseteq Site /\ {Normal(site) : site \in new} = {Normal(site) : site \in old}
  BY <1>10
<1>12. /\ tables' = [t \in TableNames |-> tables'[t]]
       /\ tables'["sites"] = [tables["sites"] EXCEPT !.rows = new]
       /\ \A t \in TableNames \ {"sites"} : tables'[t] = tables[t]
  BY <1>2, <1>4, <1>8 DEF TablesFit
<1>13. IsTable("sites", tables'["sites"]) /\ tables'["sites"].wide /\ tables'["sites"].rows = new
  <2>1. IsTable("sites", tables["sites"])
    BY <1>4, <1>6, <1>8 DEF TablesFit
  <2>2. new \in SUBSET Entries("sites")
    BY <1>11 DEF Entries
  <2> HIDE DEF new
  <2> QED
    BY <1>6, <1>12, <2>1, <2>2 DEF IsTable, Wide
<1> HIDE DEF new, old
<1>14. TablesFit'
  BY <1>4, <1>12, <1>13 DEF TablesFit, Has
<1>15. Has("sites")' /\ Wide("sites")' /\ Whole("sites")'
  <2>1. tables'["sites"] # None
    BY <1>8, <1>13, NewTableIs
  <2>2. Right("sites", tables["sites"].rows)'
    BY <1>2, <1>9, <1>11, <1>13 DEF Right
  <2> QED
    BY <1>13, <2>1, <2>2 DEF Has, Wide, Whole
<1>16. MigrationTypes' /\ MigrationTypeOK' /\ WholeOrRefused'
  <2>1. /\ targets' \in [Grants -> {"none", "granted", "revoked"}]
        /\ columns' \in [{"sites", "apps", "targets"} -> BOOLEAN]
    BY <1>1, <1>2 DEF MigrationTypeOK
  <2>2. statement' \in 0..33 /\ policy' = None /\ UNCHANGED <<expected, struck, tally>>
    BY <1>2, <1>3, <1>4
  <2> QED
    BY <1>1, <1>14, <2>1, <2>2, TypesAfter
<1>17. /\ Apart("allowances", "allowances_new") /\ Apart("windows", "windows_old")
       /\ Apart("patterns", "patterns_old") /\ Apart("apps", "apps_new")
  BY <1>2, <1>3, <1>12 DEF Apart, TableNames, PolicyTables, Contents, Temporary
<1>18. AllowancesKept' /\ WindowsKept' /\ PatternsKept' /\ AppsKept'
  BY <1>1, <1>3, <1>17, AllowancesAside, WindowsAside, PatternsAside, AppsAside
<1>19. CopyKept("sites", "sites_new", 18)'
  <2>1. Has("sites_new")' <=> Has("sites_new")
    BY <1>8, <1>12 DEF Has
  <2> QED
    BY <1>2, <1>3, <1>5, <1>15, <2>1 DEF CopyKept, Narrow, Wide
<1>20. /\ statement \in 31..33 => \A site \in old : Enabled(site) = site
       /\ statement \in 32..33 => \A site \in old : Lifted(site) = site
  BY <1>1 DEF SitesKept, old
<1>21. \A site \in old :
          /\ Enabled(Updated(op, site)) = Updated(op, site)
          /\ statement' \in 32..33 => Lifted(Updated(op, site)) = Updated(op, site)
          /\ statement' = 33 => Unlinked(Updated(op, site)) = Updated(op, site)
  <2> SUFFICES ASSUME NEW site \in old
               PROVE  /\ Enabled(Updated(op, site)) = Updated(op, site)
                      /\ statement' \in 32..33 => Lifted(Updated(op, site)) = Updated(op, site)
                      /\ statement' = 33 => Unlinked(Updated(op, site)) = Updated(op, site)
    OBVIOUS
  <2>1. site \in Site
    BY <1>9
  <2>2. CASE statement = 30
    <3>1. Updated(op, site) = Enabled(site)
      BY <1>3, <2>1, <2>2, UpdatedIs
    <3> QED
      BY <1>2, <2>1, <2>2, <3>1, NormalIs
  <2>3. CASE statement = 31
    <3>1. Updated(op, site) = Lifted(site) /\ Enabled(site) = site
      BY <1>3, <1>20, <2>1, <2>3, UpdatedIs
    <3> QED
      BY <1>2, <2>1, <2>3, <3>1, NormalIs
  <2>4. CASE statement = 32
    <3>1. Updated(op, site) = Unlinked(site) /\ Enabled(site) = site /\ Lifted(site) = site
      BY <1>3, <1>20, <2>1, <2>4, UpdatedIs
    <3> QED
      BY <1>2, <2>1, <2>4, <3>1, NormalIs
  <2> QED
    BY <1>3, <2>2, <2>3, <2>4
<1>22. \A site \in tables'["sites"].rows :
          /\ Enabled(site) = site
          /\ statement' \in 32..33 => Lifted(site) = site
          /\ statement' = 33 => Unlinked(site) = site
  BY <1>13, <1>21 DEF new
<1>23. SitesKept'
  BY <1>3, <1>15, <1>19, <1>22 DEF SitesKept, Narrow, Wide
<1> QED
  BY <1>2, <1>3, <1>16, <1>18, <1>23 DEF UpgradeKept, ColumnsKept

-----------------------------------------------------------------------------
(* What a start reads.                                                      *)

\* Two policies decide the same if they differ in allowances that no list uses.
LEMMA DecidesTheSame ==
    ASSUME NEW p, p = [t \in PolicyTables |-> p[t]], NEW q, q = [t \in PolicyTables |-> q[t]],
           \A t \in PolicyTables \ {"allowances"} : p[t] = q[t],
           (\E site \in p["sites"] : site.linked) => p["allowances"] = q["allowances"]
    PROVE  Decisive(p) = Decisive(q)
<1>1. p["sites"] = q["sites"]
  BY DEF PolicyTables, Contents
<1>2. CASE \E site \in p["sites"] : site.linked
  BY <1>1, <1>2 DEF Decisive, PolicyTables, Contents
<1>3. CASE ~\E site \in p["sites"] : site.linked
  BY <1>1, <1>3 DEF Decisive, PolicyTables, Contents
<1> QED
  BY <1>2, <1>3

\* No list is left that a start refuses.
LEMMA NormalIsValid ==
    ASSUME NEW site \in Site,
           site.linked => site.tier = "controlled_access" \/ site.mode = "allowlist"
    PROVE  /\ Normal(site).linked => Normal(site).tier = "controlled_access"
           /\ Normal(site).mode = "allowlist" => Normal(site).tier # "hard" /\ Normal(site).enabled
  BY DEF Normal, Site, Enabled, Lifted, Unlinked

\* The tables at the end of a start.
LEMMA Rebuilt ==
    ASSUME UpgradeKept, statement = 33
    PROVE  /\ \A t \in PolicyTables : Wide(t) /\ IsTable(t, tables[t])
           /\ \A t \in {"allowances", "patterns"} : Whole(t) \/ tables[t].rows = {}
           /\ \A t \in {"windows", "apps"} : Whole(t) \/ t \in struck
           /\ expected["sites"] = {} => Whole("patterns")
           /\ tally.crashes = 0 => \A t \in PolicyTables : Whole(t)
           /\ tables["sites"].rows = {Normal(site) : site \in expected["sites"]}
<1>1. /\ MigrationTypes /\ MigrationTypeOK /\ AllowancesKept /\ WindowsKept /\ PatternsKept
      /\ SitesKept /\ AppsKept
  BY DEF UpgradeKept
<1>2. TablesFit
  BY <1>1, TypesFit
<1>3. /\ CopyKept("allowances", "allowances_new", 3) /\ RenameKept("windows", "windows_old", 8)
      /\ RenameKept("patterns", "patterns_old", 13) /\ CopyKept("sites", "sites_new", 18)
      /\ CopyKept("apps", "apps_new", 22)
  BY <1>1 DEF AllowancesKept, WindowsKept, PatternsKept, SitesKept, AppsKept
<1>4. /\ Wide("allowances") /\ Wide("windows") /\ Wide("patterns") /\ Wide("sites") /\ Wide("apps")
  BY <1>3 DEF CopyKept, RenameKept
<1>5. \A t \in PolicyTables : Wide(t) /\ IsTable(t, tables[t])
  BY <1>2, <1>4 DEF TablesFit, TableNames, PolicyTables, Contents, Wide
<1>6. \A t \in {"allowances", "patterns"} : Whole(t) \/ tables[t].rows = {}
  BY <1>3, <1>4 DEF CopyKept, RenameKept, Wide
<1>7. \A t \in {"windows", "apps"} : Whole(t) \/ t \in struck
  BY <1>1 DEF WindowsKept, AppsKept
<1>8. expected["sites"] = {} => Whole("patterns")
  BY <1>1 DEF PatternsKept
<1>9. Whole("sites")
  BY <1>1 DEF SitesKept, Stuck
<1>10. tally.crashes = 0 => \A t \in PolicyTables : Whole(t)
  BY <1>3, <1>9 DEF CopyKept, RenameKept, PolicyTables, Contents
<1>11. tables["sites"].rows = {Normal(site) : site \in expected["sites"]}
  <2>1. /\ tables["sites"].rows \subseteq Site
        /\ {Normal(site) : site \in tables["sites"].rows}
              = {Normal(site) : site \in expected["sites"]}
    BY <1>9 DEF Whole, Right
  <2>2. \A site \in tables["sites"].rows :
           Enabled(site) = site /\ Lifted(site) = site /\ Unlinked(site) = site
    BY <1>1 DEF SitesKept
  <2>3. \A site \in tables["sites"].rows : Normal(site) = site
    BY <2>1, <2>2, NormalIs
  <2>4. {Normal(site) : site \in tables["sites"].rows} = tables["sites"].rows
    BY <2>3
  <2> QED
    BY <2>1, <2>4
<1> QED
  BY <1>5, <1>6, <1>7, <1>8, <1>10, <1>11

\* What is read, if it is valid and no crash was noted, is what was stored.
LEMMA ReadIsStored ==
    ASSUME UpgradeKept, statement = 33, Valid(Stored), struck = {}
    PROVE  Decisive(Stored) = Decisive(AsNormalized(expected))
<1>1. MigrationTypes
  BY DEF UpgradeKept
<1>2. Stored = [t \in PolicyTables |-> tables[t].rows]
  BY DEF Stored
<1> DEFINE q == AsNormalized(expected)
<1>3. /\ q = [t \in PolicyTables |-> q[t]]
      /\ q["sites"] = {Normal(site) : site \in expected["sites"]}
      /\ \A t \in PolicyTables \ {"sites"} : q[t] = expected[t]
  <2>1. expected = [t \in PolicyTables |-> expected[t]]
    BY <1>1 DEF MigrationTypes
  <2>2. q = [expected EXCEPT !["sites"] = {Normal(site) : site \in @}]
    BY DEF AsNormalized, Normal
  <2> HIDE DEF q
  <2> QED
    BY <2>1, <2>2 DEF PolicyTables
<1> HIDE DEF q
<1>4. Stored["sites"] = q["sites"]
  BY <1>2, <1>3, Rebuilt DEF PolicyTables
<1>5. /\ Stored["windows"] = q["windows"] /\ Stored["apps"] = q["apps"]
  BY <1>2, <1>3, Rebuilt DEF PolicyTables, Contents, Whole, Right
<1>6. Stored["patterns"] = q["patterns"]
  <2>1. CASE expected["sites"] = {}
    BY <1>2, <1>3, <2>1, Rebuilt DEF PolicyTables, Contents, Whole, Right
  <2>2. CASE expected["sites"] # {}
    <3>1. Stored["sites"] # {}
      BY <1>3, <1>4, <2>2
    <3>2. Stored["patterns"] # {}
      BY <3>1 DEF Valid
    <3> QED
      BY <1>2, <1>3, <3>2, Rebuilt DEF PolicyTables, Contents, Whole, Right
  <2> QED
    BY <2>1, <2>2
<1>7. (\E site \in Stored["sites"] : site.linked) => Stored["allowances"] = q["allowances"]
  <2>1. (\E site \in Stored["sites"] : site.linked) => Stored["allowances"] # {}
    BY DEF Valid
  <2> QED
    BY <1>2, <1>3, <2>1, Rebuilt DEF PolicyTables, Contents, Whole, Right
<1>8. \A t \in PolicyTables \ {"allowances"} : Stored[t] = q[t]
  BY <1>4, <1>5, <1>6 DEF PolicyTables, Contents
<1>9. Stored = [t \in PolicyTables |-> Stored[t]]
  BY <1>2
<1>10. Decisive(Stored) = Decisive(q)
  BY <1>3, <1>7, <1>8, <1>9, DecidesTheSame
<1> QED
  BY <1>10 DEF q

\* Without a crash it is valid.
LEMMA UndisturbedIsValid ==
    ASSUME UpgradeKept, statement = 33, tally.crashes = 0
    PROVE  Valid(Stored)
<1>1. MigrationTypes
  BY DEF UpgradeKept
<1>2. Stored = [t \in PolicyTables |-> tables[t].rows]
  BY DEF Stored
<1>3. /\ Stored["sites"] = {Normal(site) : site \in expected["sites"]}
      /\ Stored["patterns"] = expected["patterns"]
      /\ Stored["allowances"] = expected["allowances"]
  BY <1>2, Rebuilt DEF PolicyTables, Contents, Whole, Right
<1>4. expected["patterns"] # {} /\ expected["allowances"] # {}
  BY <1>1 DEF MigrationTypes, Contents
<1>5. \A site \in expected["sites"] :
         site \in Site /\ (site.linked => site.tier = "controlled_access" \/ site.mode = "allowlist")
  BY <1>1 DEF MigrationTypes, Entries, PolicyTables
<1>6. \A site \in Stored["sites"] :
         /\ site.linked => site.tier = "controlled_access"
         /\ site.mode = "allowlist" => site.tier # "hard" /\ site.enabled
  BY <1>3, <1>5, NormalIsValid
<1> QED
  BY <1>3, <1>4, <1>6 DEF Valid

LEMMA LoadKeeps == UpgradeKept /\ Load => UpgradeKept'
<1> SUFFICES ASSUME UpgradeKept, Load PROVE UpgradeKept'
  OBVIOUS
<1>1. /\ MigrationTypes /\ MigrationTypeOK /\ AllowancesKept /\ WindowsKept /\ PatternsKept
      /\ SitesKept /\ AppsKept /\ ColumnsKept
  BY DEF UpgradeKept
<1>2. statement = 33
  BY ProgramIs DEF Load
<1>3. CASE ~Valid(Stored)
  <2>1. GiveUpStart
    BY <1>3, Zenon DEF Load
  <2> QED
    BY <1>2, <2>1, GiveUpKeeps
<1>4. CASE Valid(Stored)
  <2>1. /\ policy' = Stored /\ statement' = 34
        /\ UNCHANGED <<tables, targets, columns, expected, struck, tally>>
    BY <1>2, <1>4 DEF Load, NextStatement
  <2>2. Stored \in [PolicyTables -> (SUBSET Site) \cup SUBSET {"plain", "newer"}]
    <3>1. \A t \in PolicyTables : tables[t].rows \in (SUBSET Site) \cup SUBSET {"plain", "newer"}
      BY <1>2, Rebuilt DEF IsTable, Entries
    <3> QED
      BY <3>1 DEF Stored
  <2>3. policy' # None
    BY <2>1, <2>2, MigrationAssumption
  <2>4. MigrationTypes'
    BY <1>1, <2>1 DEF MigrationTypes, Has
  <2>5. MigrationTypeOK'
    BY <1>1, <2>1, <2>3, ProgramIs DEF MigrationTypeOK, Fits
  <2>6. WholeOrRefused'
    <3>1. struck = {} => Decisive(Stored) = Decisive(AsNormalized(expected))
      BY <1>2, <1>4, ReadIsStored
    <3>2. Unchanged' <=> Decisive(policy') = Decisive(AsNormalized(expected'))
      BY DEF Unchanged, Decisive, AsNormalized
    <3> QED
      BY <2>1, <3>1, <3>2 DEF WholeOrRefused
  <2>7. \A t, other : Apart(t, other)
    BY <1>2, <2>1 DEF Apart
  <2>8. AllowancesKept' /\ WindowsKept' /\ PatternsKept' /\ SitesKept' /\ AppsKept'
    BY <1>1, <1>2, <2>1, <2>7, AllowancesAside, WindowsAside, PatternsAside, SitesAside, AppsAside
  <2> QED
    BY <1>1, <1>2, <2>1, <2>4, <2>5, <2>6, <2>8 DEF UpgradeKept, ColumnsKept
<1> QED
  BY <1>3, <1>4

-----------------------------------------------------------------------------
(* An edit.                                                                 *)

LEMMA ReplacementIs ==
    ASSUME NEW new \in Replacements
    PROVE  /\ new = [t \in PolicyTables |-> new[t]]
           /\ \A t \in PolicyTables : new[t] \subseteq Entries(t)
           /\ \A t \in Contents : new[t] # {}
           /\ \A site \in new["sites"] : site \in Site /\ Normal(site) = site
                 /\ (site.linked => site.tier = "controlled_access")
           /\ new \in [PolicyTables -> (SUBSET Site) \cup SUBSET {"plain", "newer"}]
           /\ Decisive(new) = Decisive(AsNormalized(new))
<1> DEFINE only == [tier |-> "controlled_access", enabled |-> TRUE, mode |-> "allowlist",
                    linked |-> TRUE]
<1>1. PICK sites \in {{}, {only}} :
         new = [t \in PolicyTables |-> IF t = "sites" THEN sites ELSE {"newer"}]
  BY DEF Replacements
<1>2. only \in Site /\ Normal(only) = only /\ only.tier = "controlled_access"
  BY DEF Normal, Site, Enabled, Lifted, Unlinked
<1> HIDE DEF only
<1>3. /\ new = [t \in PolicyTables |-> new[t]]
      /\ new["sites"] = sites
      /\ \A t \in Contents : new[t] = {"newer"}
  BY <1>1 DEF PolicyTables, Contents
<1>4. \A t \in PolicyTables : new[t] \subseteq Entries(t)
  BY <1>2, <1>3 DEF PolicyTables, Contents, Entries
<1>5. \A site \in new["sites"] : site \in Site /\ Normal(site) = site
         /\ (site.linked => site.tier = "controlled_access")
  BY <1>2, <1>3
<1>6. new \in [PolicyTables -> (SUBSET Site) \cup SUBSET {"plain", "newer"}]
  <2>1. \A t \in PolicyTables : new[t] \in (SUBSET Site) \cup SUBSET {"plain", "newer"}
    BY <1>4 DEF Entries
  <2> QED
    BY <1>3, <2>1
<1>7. Decisive(new) = Decisive(AsNormalized(new))
  <2>1. {Normal(site) : site \in new["sites"]} = new["sites"]
    BY <1>5
  <2>2. AsNormalized(new) = [new EXCEPT !["sites"] = {Normal(site) : site \in @}]
    BY DEF AsNormalized, Normal
  <2>3. AsNormalized(new) = new
    BY <1>3, <2>1, <2>2
  <2> QED
    BY <2>3
<1> QED
  BY <1>3, <1>4, <1>5, <1>6, <1>7

LEMMA ReplaceKeeps == UpgradeKept /\ Replace => UpgradeKept'
<1> SUFFICES ASSUME UpgradeKept, Replace PROVE UpgradeKept'
  OBVIOUS
<1>1. /\ MigrationTypes /\ MigrationTypeOK /\ AllowancesKept /\ WindowsKept /\ PatternsKept
      /\ SitesKept /\ AppsKept /\ ColumnsKept
  BY DEF UpgradeKept
<1>2. PICK new \in Replacements :
         /\ tables' = [t \in DOMAIN tables |->
               IF t \in PolicyTables THEN [tables[t] EXCEPT !.rows = new[t]] ELSE tables[t]]
         /\ policy' = new /\ expected' = new
         /\ targets' = [g \in Grants |->
               IF targets[g] = "granted" /\ new["sites"] = {} THEN "revoked" ELSE targets[g]]
  BY Zenon DEF Replace
<1>3. /\ statement = 34 /\ statement' = 34 /\ columns' = columns
      /\ tally' = [tally EXCEPT !.edits = @ + 1] /\ struck' = {}
  BY ProgramIs DEF Replace
<1>4. TablesFit
  BY <1>1, TypesFit
<1>5. /\ CopyKept("allowances", "allowances_new", 3) /\ RenameKept("windows", "windows_old", 8)
      /\ RenameKept("patterns", "patterns_old", 13) /\ CopyKept("sites", "sites_new", 18)
      /\ CopyKept("apps", "apps_new", 22)
  BY <1>1 DEF AllowancesKept, WindowsKept, PatternsKept, SitesKept, AppsKept
<1>6. \A t \in PolicyTables : Wide(t) /\ Has(t)
  BY <1>3, <1>5 DEF CopyKept, RenameKept, Wide, PolicyTables, Contents
<1>7. /\ tables' = [t \in TableNames |-> tables'[t]]
      /\ \A t \in PolicyTables : tables'[t] = [tables[t] EXCEPT !.rows = new[t]]
      /\ \A t \in Temporary : tables'[t] = tables[t]
  BY <1>2, <1>4 DEF TablesFit, TableNames, PolicyTables, Contents, Temporary
<1>8. /\ \A t \in PolicyTables : new[t] \subseteq Entries(t)
      /\ \A t \in Contents : new[t] # {}
      /\ \A site \in new["sites"] : site \in Site /\ (site.linked => site.tier = "controlled_access")
      /\ new = [t \in PolicyTables |-> new[t]]
  BY ReplacementIs
<1>9. ASSUME NEW t \in PolicyTables
      PROVE  IsTable(t, tables'[t]) /\ tables'[t].wide /\ tables'[t].rows = new[t]
  <2>1. IsTable(t, tables[t]) /\ tables[t].wide
    BY <1>4, <1>6 DEF TablesFit, TableNames, Wide
  <2> QED
    BY <1>7, <1>8, <2>1 DEF IsTable
<1>10. \A t \in PolicyTables : Has(t)' /\ Wide(t)' /\ ~Narrow(t)' /\ Whole(t)'
  <2> SUFFICES ASSUME NEW t \in PolicyTables PROVE Has(t)' /\ Wide(t)' /\ ~Narrow(t)' /\ Whole(t)'
    OBVIOUS
  <2>1. tables'[t] # None
    BY <1>9, NewTableIs DEF TableNames
  <2>2. Right(t, tables[t].rows)'
    <3>1. CASE t = "sites"
      BY <1>2, <1>8, <1>9, <3>1 DEF Right
    <3>2. CASE t # "sites"
      BY <1>2, <1>9, <3>2 DEF Right
    <3> QED
      BY <3>1, <3>2
  <2> QED
    BY <1>9, <2>1, <2>2 DEF Has, Wide, Narrow, Whole
<1>11. TablesFit'
  BY <1>4, <1>7, <1>9 DEF TablesFit, TableNames, Has
<1>12. tally' \in [crashes : Nat, edits : Nat] /\ tally'.crashes = tally.crashes
  BY <1>1, <1>3 DEF MigrationTypes
<1>13. MigrationTypes'
  BY <1>2, <1>8, <1>11, <1>12 DEF MigrationTypes, TablesFit, IsTable, TableNames, Has
<1>14. MigrationTypeOK'
  <2>1. policy' # None
    BY <1>2, ReplacementIs, MigrationAssumption
  <2>2. targets' \in [Grants -> {"none", "granted", "revoked"}]
    BY <1>1, <1>2 DEF MigrationTypeOK
  <2>3. /\ DOMAIN tables' = PolicyTables \cup Temporary
        /\ \A t \in PolicyTables \cup Temporary :
              tables'[t] # None => /\ tables'[t].wide \in BOOLEAN
                                   /\ tables'[t].wide \/ Fits(t, tables'[t].rows)
    BY <1>11 DEF TablesFit, IsTable, TableNames, Has
  <2> QED
    BY <1>1, <1>3, <2>1, <2>2, <2>3, ProgramIs DEF MigrationTypeOK
<1>15. WholeOrRefused'
  <2>1. Unchanged' <=> Decisive(policy') = Decisive(AsNormalized(expected'))
    BY DEF Unchanged, Decisive, AsNormalized
  <2> QED
    BY <1>2, <2>1, ReplacementIs DEF WholeOrRefused
<1>16. \A t \in Temporary : Has(t)' <=> Has(t)
  BY <1>7 DEF Has
<1>17. /\ {"allowances", "windows", "patterns", "sites", "apps"} \subseteq PolicyTables
       /\ {"allowances_new", "windows_old", "patterns_old", "sites_new", "apps_new"}
             \subseteq Temporary
  BY DEF PolicyTables, Contents, Temporary
<1>18. /\ CopyKept("allowances", "allowances_new", 3)' /\ RenameKept("windows", "windows_old", 8)'
       /\ RenameKept("patterns", "patterns_old", 13)' /\ CopyKept("sites", "sites_new", 18)'
       /\ CopyKept("apps", "apps_new", 22)'
  BY <1>3, <1>5, <1>10, <1>12, <1>16, <1>17 DEF CopyKept, RenameKept
<1> QED
  BY <1>1, <1>3, <1>10, <1>13, <1>14, <1>15, <1>17, <1>18
  DEF UpgradeKept, AllowancesKept, WindowsKept, PatternsKept, SitesKept, AppsKept, ColumnsKept

-----------------------------------------------------------------------------
(* The theorems.                                                            *)

\* A database of an older version.
LEMMA InitKeeps == MigrationInit => UpgradeKept
<1> SUFFICES ASSUME MigrationInit PROVE UpgradeKept
  OBVIOUS
<1>1. PICK wide \in [Contents -> BOOLEAN], site \in Site, hasMode \in BOOLEAN :
         /\ OlderSite(site, wide["apps"], hasMode)
         /\ expected = [t \in PolicyTables |->
               IF t = "sites" THEN {site} ELSE IF wide[t] THEN {"newer"} ELSE {"plain"}]
         /\ tables = [t \in PolicyTables \cup Temporary |->
               CASE t \in Temporary -> None
                 [] t = "sites"     -> [wide |-> wide["apps"], rows |-> expected[t]]
                 [] OTHER           -> [wide |-> wide[t], rows |-> expected[t]]]
         /\ columns \in [{"sites", "apps", "targets"} -> BOOLEAN]
         /\ columns["sites"] = hasMode /\ columns["apps"] = hasMode
  BY Zenon DEF MigrationInit
<1>2. /\ targets \in [Grants -> {"none", "granted", "revoked"}]
      /\ statement = 0 /\ policy = None /\ struck = {}
      /\ tally = [crashes |-> 0, edits |-> 0]
  BY DEF MigrationInit
<1>3. /\ expected = [t \in PolicyTables |-> expected[t]]
      /\ expected["sites"] = {site}
      /\ \A t \in Contents : expected[t] = IF wide[t] THEN {"newer"} ELSE {"plain"}
  BY <1>1 DEF PolicyTables, Contents
<1>4. /\ tables = [t \in TableNames |-> tables[t]]
      /\ \A t \in Temporary : tables[t] = None
      /\ tables["sites"] = [wide |-> wide["apps"], rows |-> expected["sites"]]
      /\ \A t \in Contents : tables[t] = [wide |-> wide[t], rows |-> expected[t]]
  BY <1>1 DEF TableNames, PolicyTables, Contents, Temporary
<1>5. /\ ~wide["apps"] => site.tier # "scheduled_block"
      /\ site.linked => site.tier = "controlled_access" \/ site.mode = "allowlist"
  BY <1>1 DEF OlderSite
<1>6. \A t \in PolicyTables :
         /\ expected[t] \subseteq Entries(t)
         /\ IsTable(t, tables[t]) /\ tables[t].rows = expected[t]
         /\ tables[t].wide = wide[IF t = "sites" THEN "apps" ELSE t]
  <2>1. expected["sites"] \subseteq Entries("sites") /\ IsTable("sites", tables["sites"])
    BY <1>3, <1>4, <1>5 DEF Entries, IsTable, Fits, Contents
  <2>2. ASSUME NEW t \in Contents PROVE expected[t] \subseteq Entries(t) /\ IsTable(t, tables[t])
    <3>1. Entries(t) = {"plain", "newer"} /\ t # "sites"
      BY DEF Entries, Contents
    <3>2. wide[t] \in BOOLEAN
      BY <1>1
    <3>0. tables[t] = [wide |-> wide[t], rows |-> expected[t]]
      BY <1>4, Zenon
    <3>3. tables[t].wide = wide[t] /\ tables[t].rows = expected[t]
      BY <3>0
    <3>4. expected[t] \subseteq Entries(t) /\ (wide[t] \/ "newer" \notin expected[t])
      BY <1>3, <3>1
    <3>5. tables[t] \in [wide : BOOLEAN, rows : SUBSET Entries(t)]
      BY <3>0, <3>2, <3>4
    <3> QED
      BY <3>1, <3>3, <3>4, <3>5 DEF IsTable, Fits
  <2> QED
    BY <1>4, <2>1, <2>2 DEF PolicyTables, Contents
<1>7. \A t \in PolicyTables : Has(t) /\ Whole(t)
  <2> SUFFICES ASSUME NEW t \in PolicyTables PROVE Has(t) /\ Whole(t)
    OBVIOUS
  <2>1. Has(t)
    BY <1>6, NewTableIs DEF TableNames, Has
  <2>2. Right(t, tables[t].rows)
    BY <1>3, <1>6 DEF Right, Entries, PolicyTables
  <2> QED
    BY <2>1, <2>2 DEF Whole
<1>8. \A t \in Temporary : ~Has(t)
  BY <1>4 DEF Has
<1>9. \A t \in Contents : expected[t] # {}
  BY <1>3
<1>10. MigrationTypes
  <2>1. \A t \in TableNames : Has(t) => tables[t] \in [wide : BOOLEAN, rows : SUBSET Entries(t)]
    BY <1>6, <1>8 DEF IsTable, TableNames
  <2> QED
    BY <1>2, <1>3, <1>4, <1>5, <1>6, <1>9, <2>1 DEF MigrationTypes, TableNames
<1>11. MigrationTypeOK
  <2>1. \A t \in TableNames : tables[t] # None =>
           /\ tables[t].wide \in BOOLEAN
           /\ tables[t].wide \/ Fits(t, tables[t].rows)
    BY <1>6, <1>8 DEF IsTable, TableNames, Has
  <2>2. DOMAIN tables = TableNames
    BY <1>4
  <2>3. columns \in [{"sites", "apps", "targets"} -> BOOLEAN]
    BY <1>1
  <2> QED
    BY <1>2, <2>1, <2>2, <2>3, ProgramIs DEF MigrationTypeOK, TableNames
<1>12. /\ {"allowances", "windows", "patterns", "sites", "apps"} \subseteq PolicyTables
       /\ {"allowances_new", "windows_old", "patterns_old", "sites_new", "apps_new"}
             \subseteq Temporary
  BY DEF PolicyTables, Contents, Temporary
<1>13. AllowancesKept /\ WindowsKept /\ PatternsKept
  BY <1>2, <1>3, <1>7, <1>8, <1>12 DEF AllowancesKept, WindowsKept, PatternsKept, CopyKept, RenameKept
<1>14. SitesKept /\ AppsKept
  BY <1>2, <1>6, <1>7, <1>8, <1>12 DEF SitesKept, AppsKept, CopyKept, Narrow
<1> QED
  BY <1>2, <1>10, <1>11, <1>13, <1>14 DEF UpgradeKept, ColumnsKept, WholeOrRefused

LEMMA UpgradeStep == UpgradeKept /\ [MigrationNext]_migrationVars => UpgradeKept'
<1> SUFFICES ASSUME UpgradeKept, [MigrationNext]_migrationVars PROVE UpgradeKept'
  OBVIOUS
<1>1. CASE Begin
  BY <1>1, BeginKeeps
<1>2. CASE Ensure
  BY <1>2, EnsureKeeps
<1>3. CASE CheckShape
  BY <1>3, CheckShapeKeeps
<1>4. CASE CreateTable \/ CopyRows \/ DropTable \/ RenameTable
  BY <1>4, RebuildingKeeps, Zenon DEF Rebuilding
<1>5. CASE AddRevoked
  BY <1>5, AddRevokedKeeps
<1>6. CASE Backfill
  BY <1>6, BackfillKeeps
<1>7. CASE AddMode
  BY <1>7, AddModeKeeps
<1>8. CASE Normalize
  BY <1>8, NormalizeKeeps
<1>9. CASE Load
  BY <1>9, LoadKeeps
<1>10. CASE Replace
  BY <1>10, ReplaceKeeps
<1>11. CASE Stop
  BY <1>11, StopKeeps
<1>12. CASE UNCHANGED migrationVars
  <2>1. UNCHANGED <<tables, targets, columns, statement, policy, expected, struck, tally>>
    BY <1>12 DEF migrationVars
  <2>2. /\ CopyKept("allowances", "allowances_new", 3)' <=> CopyKept("allowances", "allowances_new", 3)
        /\ CopyKept("sites", "sites_new", 18)' <=> CopyKept("sites", "sites_new", 18)
        /\ CopyKept("apps", "apps_new", 22)' <=> CopyKept("apps", "apps_new", 22)
    BY <2>1 DEF CopyKept, Whole, Right, Has, Narrow, Wide
  <2>3. /\ RenameKept("windows", "windows_old", 8)' <=> RenameKept("windows", "windows_old", 8)
        /\ RenameKept("patterns", "patterns_old", 13)' <=> RenameKept("patterns", "patterns_old", 13)
    BY <2>1 DEF RenameKept, Whole, Right, Has, Narrow, Wide
  <2>4. /\ AllowancesKept' <=> AllowancesKept
        /\ WindowsKept' <=> WindowsKept
        /\ PatternsKept' <=> PatternsKept
        /\ SitesKept' <=> SitesKept
        /\ AppsKept' <=> AppsKept
    BY <2>1, <2>2, <2>3 DEF AllowancesKept, WindowsKept, PatternsKept, SitesKept, AppsKept, Stuck,
       Whole, Right, Has, Narrow, Wide
  <2>5. /\ MigrationTypes' <=> MigrationTypes
        /\ MigrationTypeOK' <=> MigrationTypeOK
        /\ ColumnsKept' <=> ColumnsKept
    BY <2>1 DEF MigrationTypes, MigrationTypeOK, ColumnsKept, Has, Fits
  <2>6. WholeOrRefused' <=> WholeOrRefused
    BY <2>1 DEF WholeOrRefused, Unchanged, Decisive, AsNormalized
  <2> QED
    BY <2>4, <2>5, <2>6 DEF UpgradeKept
<1> QED
  BY <1>1, <1>2, <1>3, <1>4, <1>5, <1>6, <1>7, <1>8, <1>9, <1>10, <1>11, <1>12, Zenon
  DEF MigrationNext

LEMMA UpgradeKeptAlways == MigrationSpec => []UpgradeKept
<1> QED
  BY InitKeeps, UpgradeStep, PTL DEF MigrationSpec

\* What the invariant says of a start that no crash came before.
LEMMA KeptIsInvariant == UpgradeKept => MigrationInvariant
<1> SUFFICES ASSUME UpgradeKept PROVE MigrationInvariant
  OBVIOUS
<1>1. /\ MigrationTypes /\ MigrationTypeOK /\ WholeOrRefused /\ AllowancesKept /\ WindowsKept
      /\ PatternsKept /\ SitesKept /\ AppsKept /\ ColumnsKept
  BY DEF UpgradeKept
<1>2. /\ CopyKept("allowances", "allowances_new", 3) /\ RenameKept("windows", "windows_old", 8)
      /\ RenameKept("patterns", "patterns_old", 13) /\ CopyKept("sites", "sites_new", 18)
      /\ CopyKept("apps", "apps_new", 22)
  BY <1>1 DEF AllowancesKept, WindowsKept, PatternsKept, SitesKept, AppsKept
<1>3. ASSUME tally.crashes = 0 PROVE UndisturbedUpgrades
  <2>1. ASSUME statement = 34
        PROVE  /\ \A t \in PolicyTables : tables[t].wide
               /\ \A t \in Temporary : tables[t] = None
               /\ \A t \in DOMAIN columns : columns[t]
    <3>1. \A t \in PolicyTables : tables[t].wide
      BY <1>2, <2>1 DEF CopyKept, RenameKept, Wide, PolicyTables, Contents
    <3>2. \A t \in Temporary : tables[t] = None
      BY <1>2, <1>3, <2>1 DEF CopyKept, RenameKept, Has, Temporary
    <3>3. \A t \in DOMAIN columns : columns[t]
      BY <1>1, <2>1 DEF ColumnsKept, MigrationTypeOK
    <3> QED
      BY <3>1, <3>2, <3>3
  <2>2. Is("load") => Valid(Stored)
    BY <1>3, ProgramIs, UndisturbedIsValid
  <2>3. Is("create") => tables[Now.of] = None
    <3>1. /\ statement = 3 => tables["allowances_new"] = None
          /\ statement = 9 => tables["windows"] = None
          /\ statement = 14 => tables["patterns"] = None
          /\ statement = 18 => tables["sites_new"] = None
          /\ statement = 22 => tables["apps_new"] = None
      BY <1>2, <1>3 DEF CopyKept, RenameKept, Has
    <3> QED
      BY <3>1, ProgramIs, OperandsAre
  <2> QED
    BY <2>1, <2>2, <2>3, ProgramIs DEF UndisturbedUpgrades
<1>4. UndisturbedUpgrades
  BY <1>3 DEF UndisturbedUpgrades
<1> QED
  BY <1>1, <1>4 DEF MigrationInvariant

\* db.rs, migrate_database: whatever version a database is of and wherever crashes
\* interrupt its upgrades, a daemon that serves does so with the policy that was stored
\* unless a crash was noted, and without a crash every start ends in the newest tables.
THEOREM UpgradesLoseNothing == MigrationSpec => []MigrationInvariant
<1> QED
  BY UpgradeKeptAlways, KeptIsInvariant, PTL

\* db.rs, migrate_database and revoke_unlocks_for_missing_targets_in_tx: through starts,
\* crashes and edits a revoked grant is not brought back.
THEOREM RevokedGrantsStay == MigrationSpec => RevokedStaysRevoked
<1>1. [MigrationNext]_migrationVars =>
         [\A g \in Grants : targets[g] = "revoked" => targets'[g] = "revoked"]_migrationVars
  <2> SUFFICES ASSUME MigrationNext, NEW g \in Grants, targets[g] = "revoked"
               PROVE  targets'[g] = "revoked"
    OBVIOUS
  <2>1. CASE Backfill \/ Replace
    BY <2>1 DEF Backfill, Replace
  <2>2. CASE ~(Backfill \/ Replace)
    BY <2>2 DEF MigrationNext, Begin, Ensure, CheckShape, CreateTable, CopyRows, DropTable,
       RenameTable, AddRevoked, AddMode, Normalize, Updates, Load, Stop, GiveUpStart, Rest
  <2> QED
    BY <2>1, <2>2
<1> QED
  BY <1>1, PTL DEF MigrationSpec, RevokedStaysRevoked

-------------------------------------------------------------------------------
(* Outbox: what the user is told, once and of the right thing.               *)

\* A finite set of naturals has a largest one.
LEMMA FiniteSetHasMax ==
    ASSUME NEW S \in SUBSET Nat, IsFiniteSet(S), S # {}
    PROVE  Max(S) \in S /\ \A x \in S : x <= Max(S)
<1> DEFINE Bounded(n) == \A T \in SUBSET Nat : IsFiniteSet(T) /\ Cardinality(T) = n
                            => \E m \in Nat : \A x \in T : x <= m
           N == {n \in Nat : Bounded(n)}
<1>1. 0 \in N
  <2> SUFFICES ASSUME NEW T \in SUBSET Nat, IsFiniteSet(T), Cardinality(T) = 0
               PROVE  \E m \in Nat : \A x \in T : x <= m
    OBVIOUS
  <2>1. T = {}
    BY FS_EmptySet
  <2> QED
    BY <2>1
<1>2. ASSUME NEW n \in Nat, n \in N PROVE n + 1 \in N
  <2> SUFFICES ASSUME NEW T \in SUBSET Nat, IsFiniteSet(T), Cardinality(T) = n + 1
               PROVE  \E m \in Nat : \A x \in T : x <= m
    OBVIOUS
  <2>1. T # {}
    BY FS_EmptySet
  <2>2. PICK t : t \in T
    BY <2>1
  <2>3. IsFiniteSet(T \ {t}) /\ Cardinality(T \ {t}) = n
    <3>1. IsFiniteSet(T \ {t}) /\ Cardinality(T \ {t}) = (n + 1) - 1
      BY <2>2, FS_RemoveElement, Zenon
    <3> QED
      BY <3>1
  <2>4. PICK m \in Nat : \A x \in T \ {t} : x <= m
    BY <1>2, <2>3
  <2>5. CASE t <= m
    BY <2>4, <2>5
  <2>6. CASE ~ (t <= m)
    <3>1. \A x \in T : x <= t
      BY <2>2, <2>4, <2>6
    <3> QED
      BY <2>2, <3>1
  <2> QED
    BY <2>5, <2>6
<1>3. Cardinality(S) \in Nat
  BY FS_CardinalityType
<1>4. PICK m \in Nat : \A x \in S : x <= m
  <2> HIDE DEF N
  <2>1. Nat \subseteq N
    BY <1>1, <1>2, InductiveSet
  <2>2. Cardinality(S) \in N
    BY <1>3, <2>1
  <2> QED
    BY <2>2 DEF N
<1> DEFINE Gaps == {d \in Nat : \E x \in S : x + d = m}
<1>5. Gaps \in SUBSET Nat /\ Gaps # {}
  <2>1. PICK x : x \in S
    OBVIOUS
  <2>2. m - x \in Gaps
    BY <1>4, <2>1
  <2> QED
    BY <2>2
<1>6. PICK d \in Gaps : \A e \in Gaps : d <= e
  <2> HIDE DEF Gaps
  <2> QED
    BY <1>5, LeastNatural
<1>7. PICK x \in S : x + d = m
  BY <1>6
<1>8. \A y \in S : x >= y
  <2> SUFFICES ASSUME NEW y \in S PROVE x >= y
    OBVIOUS
  <2>1. m - y \in Gaps
    BY <1>4
  <2>2. d <= m - y
    BY <1>6, <2>1
  <2> QED
    BY <1>7, <2>2
<1>9. Max(S) \in S /\ \A y \in S : Max(S) >= y
  BY <1>7, <1>8, Zenon DEF Max
<1> QED
  BY <1>9

\* What is said of the kinds is finitely much.
LEMMA SevenAreFinite ==
    ASSUME NEW f
    PROVE  IsFiniteSet({f[kind] : kind \in Kinds}) /\ Kinds # {}
<1>1. Kinds = {"website_blocked", "application_blocked", "allowance_warning", "schedule_started",
               "schedule_ended", "detox_started", "detox_ended"}
  BY DEF Kinds, BlockKinds, Lifecycle
<1>2. {f[kind] : kind \in Kinds}
        = ({f["website_blocked"]} \cup {f["application_blocked"]} \cup {f["allowance_warning"]})
          \cup ({f["schedule_started"]} \cup {f["schedule_ended"]}
                \cup {f["detox_started"]} \cup {f["detox_ended"]})
  BY <1>1
<1>3. /\ IsFiniteSet({f["website_blocked"]} \cup {f["application_blocked"]}
                     \cup {f["allowance_warning"]})
      /\ IsFiniteSet({f["schedule_started"]} \cup {f["schedule_ended"]}
                     \cup {f["detox_started"]} \cup {f["detox_ended"]})
  BY FS_Singleton, FS_Union
<1>4. IsFiniteSet(({f["website_blocked"]} \cup {f["application_blocked"]}
                    \cup {f["allowance_warning"]})
                  \cup ({f["schedule_started"]} \cup {f["schedule_ended"]}
                        \cup {f["detox_started"]} \cup {f["detox_ended"]}))
  BY <1>3, FS_Union, Zenon
<1>5. Kinds # {}
  BY <1>1
<1> QED
  BY <1>2, <1>4, <1>5, Zenon

\* Ages are counted past every cooldown.
LEMMA Horizons ==
    /\ LongestQuiet \in Nat /\ RowHorizon \in Nat /\ ToldHorizon \in Nat
    /\ LongestQuiet < RowHorizon /\ ToldHorizon = LongestQuiet + RowHorizon
    /\ \A kind \in Kinds : Cooldown[kind] \in Nat /\ Cooldown[kind] <= LongestQuiet
                           /\ Cooldown[kind] < DeliveredRetention
    /\ DeliveredRetention \in Nat /\ Retry \in Nat /\ Limit \in Nat /\ MaxRows \in Nat /\ MaxDay \in Nat
    /\ Thresholds \subseteq Nat /\ None \notin Nat /\ None # TRUE /\ None # FALSE
    /\ Full \in Nat
<1>1. /\ \A kind \in Kinds : /\ Cooldown[kind] \in Nat /\ Ttl[kind] \in Nat
                             /\ Cooldown[kind] < DeliveredRetention
      /\ BlockAge \in Nat /\ Retry \in Nat /\ DeliveredRetention \in Nat /\ Limit \in Nat
      /\ MaxRows \in Nat /\ MaxDay \in Nat /\ Full \in Nat
      /\ Thresholds \subseteq Nat /\ None \notin Nat /\ None # TRUE /\ None # FALSE
  BY OutboxAssumption
<1> DEFINE Cooldowns == {Cooldown[k] : k \in Kinds}
           Ttls == {Ttl[k] : k \in Kinds}
<1>2. IsFiniteSet(Cooldowns) /\ IsFiniteSet(Ttls)
  BY SevenAreFinite
<1>3. Cooldowns \in SUBSET Nat /\ Cooldowns # {} /\ Ttls \in SUBSET Nat /\ Ttls # {}
  BY <1>1, SevenAreFinite
<1>4. Max(Cooldowns) \in Cooldowns /\ \A x \in Cooldowns : x <= Max(Cooldowns)
  <2> HIDE DEF Cooldowns
  <2> QED
    BY <1>2, <1>3, FiniteSetHasMax
<1>5. Max(Ttls) \in Ttls
  <2> HIDE DEF Ttls
  <2> QED
    BY <1>2, <1>3, FiniteSetHasMax
<1>6. LongestQuiet \in Nat /\ \A kind \in Kinds : Cooldown[kind] <= LongestQuiet
  BY <1>1, <1>3, <1>4 DEF LongestQuiet
<1> DEFINE lifetime == Max(Ttls)
           Four == {LongestQuiet, BlockAge, Retry, lifetime}
<1>7. lifetime \in Nat
  BY <1>3, <1>5
<1> HIDE DEF lifetime
<1>8. IsFiniteSet(Four)
  <2>1. IsFiniteSet({LongestQuiet} \cup {BlockAge} \cup {Retry} \cup {lifetime})
    BY FS_Singleton, FS_Union
  <2>2. Four = {LongestQuiet} \cup {BlockAge} \cup {Retry} \cup {lifetime}
    OBVIOUS
  <2> QED
    BY <2>1, <2>2
<1>9. Four \in SUBSET Nat /\ Four # {} /\ LongestQuiet \in Four
  BY <1>1, <1>6, <1>7
<1>10. Max(Four) \in Nat /\ LongestQuiet <= Max(Four)
  <2> HIDE DEF Four
  <2> QED
    BY <1>8, <1>9, FiniteSetHasMax
<1>11. RowHorizon = Max(Four) + 1
  BY DEF RowHorizon, lifetime
<1>12. RowHorizon \in Nat /\ LongestQuiet < RowHorizon
  <2> HIDE DEF Four
  <2> QED
    BY <1>6, <1>10, <1>11
<1>13. ToldHorizon = LongestQuiet + RowHorizon
  BY DEF ToldHorizon
<1>14. ToldHorizon \in Nat
  BY <1>6, <1>12, <1>13
<1> QED
  BY <1>1, <1>6, <1>12, <1>13, <1>14
-------------------------------------------------------------------------------
(* The rows of one poll.                                                     *)

\* There is one at every rank below the number of them.
LEMMA RanksAreTaken ==
    ASSUME NEW n \in Nat, NEW ids \in SUBSET (1..n), NEW k \in Nat, k < Cardinality(ids)
    PROVE  \E id \in ids : Cardinality({other \in ids : other < id}) = k
<1> DEFINE Below(m) == {other \in ids : other < m}
           Taken(m) == \A r \in Nat : r < Cardinality(Below(m))
                                        => \E id \in ids : Cardinality(Below(id)) = r
           S == {m \in Nat : Taken(m)}
<1>0. \A id \in ids : id \in Nat /\ 1 <= id /\ id <= n
  OBVIOUS
<1>1. IsFiniteSet(ids) /\ \A m \in Nat : IsFiniteSet(Below(m))
  <2>1. IsFiniteSet(1..n)
    BY FS_Interval
  <2>2. IsFiniteSet(ids)
    BY <2>1, FS_Subset
  <2> QED
    BY <2>2, FS_Subset
<1>2. 0 \in S
  <2>1. \A other \in ids : ~ (other < 0)
    BY <1>0
  <2>2. Below(0) = {}
    BY <2>1
  <2>3. Cardinality(Below(0)) = 0
    BY <2>2, FS_EmptySet
  <2> HIDE DEF Below
  <2>4. Taken(0)
    BY <2>3
  <2> QED
    BY <2>4
<1>3. ASSUME NEW m \in Nat, m \in S PROVE m + 1 \in S
  <2>1. CASE m \notin ids
    <3>0. \A other \in ids : other < m + 1 <=> other < m
      BY <1>0, <2>1
    <3>1. Below(m + 1) = Below(m)
      BY <3>0
    <3> HIDE DEF Below
    <3>2. Taken(m + 1)
      BY <1>3, <3>1
    <3> QED
      BY <3>2
  <2>2. CASE m \in ids
    <3>0. (\A other \in ids : other < m + 1 <=> other < m \/ other = m) /\ ~ (m < m)
      BY <1>0
    <3>1. Below(m + 1) = Below(m) \cup {m} /\ m \notin Below(m)
      BY <2>2, <3>0
    <3>2. Cardinality(Below(m)) \in Nat
      BY <1>1, FS_CardinalityType
    <3>3. Cardinality(Below(m + 1)) = Cardinality(Below(m)) + 1
      BY <1>1, <3>1, FS_AddElement
    <3> HIDE DEF Below
    <3>4. Taken(m + 1)
      <4> SUFFICES ASSUME NEW r \in Nat, r < Cardinality(Below(m + 1))
                   PROVE  \E id \in ids : Cardinality(Below(id)) = r
        OBVIOUS
      <4>1. CASE r = Cardinality(Below(m))
        BY <2>2, <4>1
      <4>2. CASE r # Cardinality(Below(m))
        <5>1. r < Cardinality(Below(m))
          BY <3>2, <3>3, <4>2
        <5> QED
          BY <1>3, <5>1
      <4> QED
        BY <4>1, <4>2
    <3> QED
      BY <3>4
  <2> QED
    BY <2>1, <2>2
<1>4. n + 1 \in S
  <2> HIDE DEF S
  <2>1. Nat \subseteq S
    BY <1>2, <1>3, InductiveSet
  <2> QED
    BY <2>1
<1>5. Below(n + 1) = ids
  <2>1. \A other \in ids : other < n + 1
    BY <1>0
  <2> QED
    BY <2>1
<1> HIDE DEF Below
<1>6. \E id \in ids : Cardinality(Below(id)) = k
  BY <1>4, <1>5
<1> QED
  BY <1>6 DEF Below

\* A poll's rows are what waits, in the order they were queued, and not too many.
LEMMA FirstOfInOrder ==
    ASSUME NEW N \in Nat, NEW ids \in SUBSET (1..N)
    PROVE  /\ FirstOf(ids) \in Seq(ids) /\ Len(FirstOf(ids)) <= Limit
           /\ \A i, j \in 1..Len(FirstOf(ids)) : i < j => FirstOf(ids)[i] < FirstOf(ids)[j]
<1> DEFINE Earlier(id) == {other \in ids : other < id}
           count == IF Cardinality(ids) < Limit THEN Cardinality(ids) ELSE Limit
           At(n) == CHOOSE id \in ids : Cardinality(Earlier(id)) = n - 1
           first == FirstOf(ids)
<1>1. IsFiniteSet(ids) /\ Cardinality(ids) \in Nat /\ Limit \in Nat
  <2>1. IsFiniteSet(1..N)
    BY FS_Interval
  <2>2. IsFiniteSet(ids)
    BY <2>1, FS_Subset
  <2> QED
    BY <2>2, FS_CardinalityType, Horizons
<1>0. \A id \in ids : id \in Nat
  OBVIOUS
<1>2. count \in Nat /\ count <= Limit /\ count <= Cardinality(ids)
  BY <1>1
<1>3. first = [n \in 1..count |-> At(n)]
  BY DEF FirstOf
<1>4. ASSUME NEW n \in 1..count
      PROVE  At(n) \in ids /\ Cardinality(Earlier(At(n))) = n - 1
  <2>1. n - 1 \in Nat /\ n - 1 < Cardinality(ids)
    BY <1>1, <1>2
  <2>2. \E id \in ids : Cardinality(Earlier(id)) = n - 1
    BY <2>1, RanksAreTaken
  <2> HIDE DEF Earlier
  <2> QED
    BY <2>2
<1> HIDE DEF count, At
<1>5. first \in Seq(ids) /\ Len(first) = count /\ \A n \in 1..count : first[n] = At(n)
  <2>1. \A n \in 1..count : At(n) \in ids
    BY <1>4
  <2>2. first \in [1..count -> ids]
    BY <1>3, <2>1
  <2>3. first \in Seq(ids)
    BY <1>2, <2>2
  <2>4. Len(first) = count
    BY <1>2, <1>3, <2>3
  <2> QED
    BY <1>3, <2>3, <2>4
<1>6. ASSUME NEW i \in 1..count, NEW j \in 1..count, i < j PROVE At(i) < At(j)
  <2>1. At(i) \in Nat /\ At(j) \in Nat
    BY <1>0, <1>4
  <2>2. SUFFICES ASSUME At(j) <= At(i) PROVE FALSE
    BY <2>1
  <2>3. Earlier(At(j)) \subseteq Earlier(At(i)) /\ Earlier(At(i)) \subseteq ids
    <3>1. \A other \in ids : other < At(j) => other < At(i)
      BY <1>0, <2>1, <2>2
    <3> QED
      BY <3>1
  <2> HIDE DEF Earlier
  <2>4. IsFiniteSet(Earlier(At(i)))
    BY <1>1, <2>3, FS_Subset
  <2>5. Cardinality(Earlier(At(j))) <= Cardinality(Earlier(At(i)))
    BY <2>3, <2>4, FS_Subset
  <2>6. j - 1 <= i - 1
    BY <1>4, <2>5
  <2> QED
    BY <1>2, <1>6, <2>6
<1> HIDE DEF first
<1>7. Len(first) <= Limit /\ \A i, j \in 1..Len(first) : i < j => first[i] < first[j]
  BY <1>2, <1>5, <1>6
<1> QED
  BY <1>5, <1>7 DEF first

\* A row of the outbox.
Row == [key : Keys, age : 0..RowHorizon, delivered : (0..DeliveredRetention) \cup {None},
        tried : (0..Retry) \cup {None}]

RowsFit(rows, next) ==
    rows \in [DOMAIN rows -> Row] /\ DOMAIN rows \subseteq 1..(next - 1)

\* Equal events were queued more than the cooldown apart.
WellApart(rows) ==
    \A i, j \in DOMAIN rows :
        i < j /\ rows[i].key = rows[j].key
          => \/ rows[i].age = RowHorizon
             \/ rows[i].age - rows[j].age > Cooldown[Kind(rows[i].key)]

\* An event was delivered after it was queued.
DeliveredLater(rows) ==
    \A id \in DOMAIN rows :
        rows[id].delivered # None
          => rows[id].delivered <= rows[id].age \/ rows[id].age = RowHorizon

\* The newest event of a key the user was told of is there until the cooldown is over.
StillThere(rows, since) ==
    \A key \in Keys :
        since[key] # None
          => \/ since[key] > Cooldown[Kind(key)]
             \/ \E id \in DOMAIN rows : /\ rows[id].key = key /\ rows[id].delivered # None
                                        /\ rows[id].age = since[key]

\* NoRepetition, of any rows.
NoneRepeats(rows, since) ==
    \A id \in DOMAIN rows :
        rows[id].delivered = None /\ since[rows[id].key] # None
          => \/ since[rows[id].key] = ToldHorizon \/ rows[id].age = RowHorizon
             \/ since[rows[id].key] - rows[id].age > Cooldown[Kind(rows[id].key)]
             \/ rows[id].age - since[rows[id].key] > Cooldown[Kind(rows[id].key)]

RowsKept(rows, since) ==
    WellApart(rows) /\ DeliveredLater(rows) /\ StillThere(rows, since) /\ NoneRepeats(rows, since)

\* OffMeansSilent, of any rows.
Silent(rows, choice, cut) ==
    cut \/ \A id \in DOMAIN rows :
             rows[id].delivered = None => choice.enabled /\ Kind(rows[id].key) \in choice.on

\* What was shown does not wait, unless its report was lost or is on its way.
Settled(rows, next, displays, loop) ==
    \A id \in 1..MaxRows :
        /\ id >= next => displays[id].times = 0
        /\ displays[id].times >= 1 /\ ~ displays[id].unrecorded
             => \/ loop.at = "record" /\ loop.accepted /\ Head(loop.batch) = id
                \/ id \notin DOMAIN rows
                \/ rows[id].delivered # None

\* A key is of a kind.
LEMMA KeysHaveKinds ==
    /\ \A key \in Keys : Kind(key) \in Kinds
    /\ \A kind \in Kinds : <<kind>> \in Keys /\ Kind(<<kind>>) = kind
    /\ \A day \in 0..MaxDay, minutes \in Thresholds :
         /\ AllowanceKey(day, minutes) \in Keys
         /\ Kind(AllowanceKey(day, minutes)) = "allowance_warning"
    /\ BlockKinds \subseteq Kinds /\ "allowance_warning" \in Kinds
    /\ {"schedule_started", "schedule_ended", "detox_started", "detox_ended"} \subseteq Kinds
<1>1. /\ BlockKinds \subseteq Kinds /\ "allowance_warning" \in Kinds
      /\ {"schedule_started", "schedule_ended", "detox_started", "detox_ended"} \subseteq Kinds
  BY DEF Kinds, BlockKinds, Lifecycle
<1>2. \A kind \in Kinds : <<kind>> \in Keys /\ Kind(<<kind>>) = kind
  BY DEF Keys, Kind
<1>3. \A day \in 0..MaxDay, minutes \in Thresholds :
        /\ AllowanceKey(day, minutes) \in Keys
        /\ Kind(AllowanceKey(day, minutes)) = "allowance_warning"
  BY DEF Keys, Kind, AllowanceKey
<1>4. ASSUME NEW key \in Keys PROVE Kind(key) \in Kinds
  <2>1. CASE key \in {<<kind>> : kind \in Kinds}
    BY <2>1 DEF Kind
  <2>2. CASE key \in {AllowanceKey(day, minutes) : day \in 0..MaxDay, minutes \in Thresholds}
    BY <1>1, <1>3, <2>2
  <2> QED
    BY <2>1, <2>2 DEF Keys
<1> QED
  BY <1>1, <1>2, <1>3, <1>4

\* The cooldown of a key.
LEMMA Quiets ==
    ASSUME NEW key \in Keys
    PROVE  /\ Cooldown[Kind(key)] \in Nat
           /\ Cooldown[Kind(key)] < RowHorizon /\ Cooldown[Kind(key)] < DeliveredRetention
           /\ Cooldown[Kind(key)] < ToldHorizon
<1>1. Kind(key) \in Kinds
  BY KeysHaveKinds
<1> QED
  BY <1>1, Horizons

\* The fields of a row.
LEMMA RowFields ==
    ASSUME NEW rows, NEW next \in Nat, RowsFit(rows, next), NEW id \in DOMAIN rows
    PROVE  /\ rows[id].key \in Keys /\ rows[id].age \in 0..RowHorizon
           /\ rows[id].delivered \in (0..DeliveredRetention) \cup {None}
           /\ rows[id].tried \in (0..Retry) \cup {None}
           /\ rows[id] \in Row /\ id \in Nat /\ 1 <= id /\ id < next
<1>1. rows[id] \in Row
  BY DEF RowsFit
<1>2. id \in 1..(next - 1)
  BY DEF RowsFit
<1> QED
  BY <1>1, <1>2 DEF Row

\* What a statement does that queues nothing: rows are deleted that were never
\* delivered or long ago, and rows are marked.
Marked(rows, marked) ==
    /\ marked \in [DOMAIN marked -> Row]
    /\ DOMAIN marked \subseteq DOMAIN rows
    /\ \A id \in DOMAIN marked :
         /\ marked[id].key = rows[id].key /\ marked[id].age = rows[id].age
         /\ IF rows[id].delivered = None THEN marked[id].delivered \in {None, 0}
            ELSE marked[id].delivered = rows[id].delivered
    /\ \A id \in DOMAIN rows :
         id \notin DOMAIN marked /\ rows[id].delivered # None => rows[id].delivered >= DeliveredRetention

LEMMA MarkedFits ==
    ASSUME NEW rows, NEW next \in Nat, RowsFit(rows, next), NEW marked, Marked(rows, marked)
    PROVE  RowsFit(marked, next)
BY DEF RowsFit, Marked

LEMMA MarkedKeepsRows ==
    ASSUME NEW rows, NEW next \in Nat, RowsFit(rows, next), NEW marked, Marked(rows, marked),
           NEW since \in [Keys -> (0..ToldHorizon) \cup {None}], RowsKept(rows, since)
    PROVE  RowsKept(marked, since)
<1>1. /\ DOMAIN marked \subseteq DOMAIN rows
      /\ \A id \in DOMAIN marked :
           /\ marked[id].key = rows[id].key /\ marked[id].age = rows[id].age
           /\ rows[id].delivered # None => marked[id].delivered = rows[id].delivered
           /\ rows[id].delivered = None => marked[id].delivered \in {None, 0}
      /\ \A id \in DOMAIN rows :
           id \notin DOMAIN marked /\ rows[id].delivered # None
             => rows[id].delivered >= DeliveredRetention
  BY DEF Marked
<1>2. \A id \in DOMAIN rows :
        /\ rows[id].key \in Keys /\ rows[id].age \in 0..RowHorizon
        /\ rows[id].delivered \in (0..DeliveredRetention) \cup {None}
  BY RowFields
<1>3. /\ RowHorizon \in Nat /\ DeliveredRetention \in Nat /\ None \notin Nat
      /\ \A key \in Keys : /\ Cooldown[Kind(key)] \in Nat
                           /\ Cooldown[Kind(key)] < RowHorizon /\ Cooldown[Kind(key)] < DeliveredRetention
  BY Horizons, Quiets
<1>4. WellApart(marked)
  BY <1>1 DEF RowsKept, WellApart
<1>5. DeliveredLater(marked)
  <2> SUFFICES ASSUME NEW id \in DOMAIN marked, marked[id].delivered # None
               PROVE  marked[id].delivered <= marked[id].age \/ marked[id].age = RowHorizon
    BY DEF DeliveredLater
  <2>1. CASE rows[id].delivered = None
    BY <1>1, <1>2, <2>1
  <2>2. CASE rows[id].delivered # None
    BY <1>1, <2>2 DEF RowsKept, DeliveredLater
  <2> QED
    BY <2>1, <2>2
<1>6. StillThere(marked, since)
  <2> SUFFICES ASSUME NEW key \in Keys, since[key] # None, ~ (since[key] > Cooldown[Kind(key)])
               PROVE  \E id \in DOMAIN marked :
                        /\ marked[id].key = key /\ marked[id].delivered # None
                        /\ marked[id].age = since[key]
    BY DEF StillThere
  <2>1. PICK id \in DOMAIN rows : /\ rows[id].key = key /\ rows[id].delivered # None
                                  /\ rows[id].age = since[key]
    BY DEF RowsKept, StillThere
  <2>2. since[key] \in 0..ToldHorizon
    OBVIOUS
  <2>3. rows[id].age <= Cooldown[Kind(key)]
    BY <1>3, <2>1, <2>2, Horizons
  <2>4. rows[id].delivered <= rows[id].age
    BY <1>2, <1>3, <2>1, <2>3 DEF RowsKept, DeliveredLater
  <2>5. rows[id].delivered < DeliveredRetention
    BY <1>2, <1>3, <2>1, <2>3, <2>4
  <2>6. id \in DOMAIN marked
    BY <1>1, <1>2, <1>3, <2>1, <2>5
  <2> QED
    BY <1>1, <2>1, <2>6
<1>7. NoneRepeats(marked, since)
  BY <1>1 DEF RowsKept, NoneRepeats
<1> QED
  BY <1>4, <1>5, <1>6, <1>7 DEF RowsKept

LEMMA MarkedKeepsSilence ==
    ASSUME NEW rows, NEW marked, Marked(rows, marked), NEW choice, NEW cut,
           Silent(rows, choice, cut)
    PROVE  Silent(marked, choice, cut)
<1>1. \A id \in DOMAIN marked : /\ id \in DOMAIN rows /\ marked[id].key = rows[id].key
                                /\ marked[id].delivered = None => rows[id].delivered = None
  BY DEF Marked
<1> QED
  BY <1>1 DEF Silent

LEMMA MarkedKeepsSettled ==
    ASSUME NEW rows, NEW marked, Marked(rows, marked), NEW next, NEW displays, NEW loop,
           Settled(rows, next, displays, loop)
    PROVE  Settled(marked, next, displays, loop)
<1>1. \A id \in DOMAIN marked : /\ id \in DOMAIN rows
                                /\ marked[id].delivered = None => rows[id].delivered = None
  BY DEF Marked
<1> QED
  BY <1>1 DEF Settled

\* The statements that mark and delete.
LEMMA DeliveredMarks ==
    ASSUME NEW rows, NEW next \in Nat, RowsFit(rows, next), NEW ids
    PROVE  /\ Marked(rows, Delivered(rows, ids)) /\ DOMAIN Delivered(rows, ids) = DOMAIN rows
           /\ \A id \in DOMAIN rows : id \in ids => Delivered(rows, ids)[id].delivered # None
<1> DEFINE marked == Delivered(rows, ids)
<1>1. /\ DOMAIN marked = DOMAIN rows
      /\ \A id \in DOMAIN rows :
           marked[id] = IF id \in ids /\ rows[id].delivered = None
                        THEN [rows[id] EXCEPT !.delivered = 0] ELSE rows[id]
      /\ marked = [id \in DOMAIN marked |-> marked[id]]
  BY DEF Delivered
<1> HIDE DEF marked
<1>2. DeliveredRetention \in Nat /\ None \notin Nat /\ None # 0
  BY Horizons
<1>3. ASSUME NEW id \in DOMAIN rows
      PROVE  /\ marked[id] \in Row
             /\ marked[id].key = rows[id].key /\ marked[id].age = rows[id].age
             /\ IF rows[id].delivered = None THEN marked[id].delivered \in {None, 0}
                ELSE marked[id].delivered = rows[id].delivered
             /\ id \in ids => marked[id].delivered # None
  <2>1. rows[id] \in Row
    BY RowFields
  <2>2. CASE id \in ids /\ rows[id].delivered = None
    <3>1. marked[id] = [rows[id] EXCEPT !.delivered = 0]
      BY <1>1, <2>2
    <3> QED
      BY <1>2, <2>1, <2>2, <3>1 DEF Row
  <2>3. CASE ~ (id \in ids /\ rows[id].delivered = None)
    <3>1. marked[id] = rows[id]
      BY <1>1, <2>3
    <3> QED
      BY <2>1, <2>3, <3>1
  <2> QED
    BY <2>2, <2>3
<1>4. marked \in [DOMAIN marked -> Row]
  BY <1>1, <1>3
<1>5. Marked(rows, marked)
  BY <1>1, <1>3, <1>4 DEF Marked
<1> QED
  BY <1>1, <1>3, <1>5 DEF marked

\* A poll forgets only what expired and what was delivered long ago.
LEMMA PolledMarks ==
    ASSUME NEW rows, NEW next \in Nat, RowsFit(rows, next), NEW since
    PROVE  Marked(rows, Polled(rows, since))
<1> DEFINE ids == Historical(rows, since) \cup Historical(rows, BlockAge)
           marked == Delivered(rows, ids)
           kept == {id \in DOMAIN rows :
                      IF marked[id].delivered = None
                      THEN marked[id].age < Ttl[Kind(rows[id].key)]
                      ELSE marked[id].delivered < DeliveredRetention}
           polled == Polled(rows, since)
<1>1. Marked(rows, marked) /\ DOMAIN marked = DOMAIN rows
  BY DeliveredMarks
<1>2. polled = [id \in kept |-> marked[id]]
  BY DEF Polled, Restrict
<1>3. kept \subseteq DOMAIN rows
  OBVIOUS
<1>4. \A id \in DOMAIN rows : id \notin kept /\ marked[id].delivered # None
                                => ~ (marked[id].delivered < DeliveredRetention)
  OBVIOUS
<1> HIDE DEF ids, marked, kept, polled
<1>5. DeliveredRetention \in Nat /\ None \notin Nat
  BY Horizons
<1>6. DOMAIN polled = kept /\ \A id \in kept : polled[id] = marked[id]
  BY <1>2
<1>7. ASSUME NEW id \in DOMAIN rows, id \notin kept, rows[id].delivered # None
      PROVE  rows[id].delivered >= DeliveredRetention
  <2>1. marked[id].delivered = rows[id].delivered
    BY <1>1, <1>7 DEF Marked
  <2>2. rows[id].delivered \in Nat
    BY <1>7, RowFields
  <2> QED
    BY <1>4, <1>5, <1>7, <2>1, <2>2
<1>8. polled \in [DOMAIN polled -> Row]
  <2>1. \A id \in kept : marked[id] \in Row
    BY <1>1, <1>3 DEF Marked
  <2> QED
    BY <1>2, <2>1
<1>9. \A id \in kept :
         /\ marked[id].key = rows[id].key /\ marked[id].age = rows[id].age
         /\ IF rows[id].delivered = None THEN marked[id].delivered \in {None, 0}
            ELSE marked[id].delivered = rows[id].delivered
  BY <1>1, <1>3 DEF Marked
<1>10. Marked(rows, polled)
  BY <1>3, <1>6, <1>7, <1>8, <1>9 DEF Marked
<1> QED
  BY <1>10 DEF polled

\* A result is recorded on its row.
LEMMA RecordedMarks ==
    ASSUME NEW rows, NEW next \in Nat, RowsFit(rows, next), NEW id, NEW delivered \in BOOLEAN
    PROVE  /\ Marked(rows, WithResult(rows, id, delivered))
           /\ DOMAIN WithResult(rows, id, delivered) = DOMAIN rows
           /\ delivered /\ id \in DOMAIN rows => WithResult(rows, id, delivered)[id].delivered # None
<1> DEFINE marked == Delivered(rows, {id})
           recorded == WithResult(rows, id, delivered)
<1>0. Retry \in Nat /\ None \notin Nat
  BY Horizons
<1>1. CASE id \notin DOMAIN rows
  <2>1. recorded = rows
    BY <1>1 DEF WithResult
  <2>2. Marked(rows, rows)
    BY DEF RowsFit, Marked
  <2> QED
    BY <1>1, <2>1, <2>2
<1>2. CASE id \in DOMAIN rows /\ delivered
  <2>1. recorded = [marked EXCEPT ![id].tried = None]
    BY <1>2 DEF WithResult
  <2>2. /\ Marked(rows, marked) /\ DOMAIN marked = DOMAIN rows
        /\ marked[id].delivered # None
    BY <1>2, DeliveredMarks
  <2> HIDE DEF marked, recorded
  <2>3. marked \in [DOMAIN rows -> Row] /\ marked[id] \in Row
    BY <1>2, <2>2 DEF Marked
  <2>4. /\ recorded \in [DOMAIN rows -> Row]
        /\ \A other \in DOMAIN rows :
             /\ recorded[other].key = marked[other].key /\ recorded[other].age = marked[other].age
             /\ recorded[other].delivered = marked[other].delivered
    BY <1>0, <1>2, <2>1, <2>3 DEF Row
  <2>5. Marked(rows, recorded)
    BY <2>2, <2>4 DEF Marked
  <2> QED
    BY <1>2, <2>2, <2>4, <2>5 DEF recorded
<1>3. CASE id \in DOMAIN rows /\ ~ delivered
  <2>1. recorded = [rows EXCEPT ![id].tried = 0]
    BY <1>3 DEF WithResult
  <2> HIDE DEF recorded
  <2>2. rows \in [DOMAIN rows -> Row] /\ rows[id] \in Row
    BY <1>3 DEF RowsFit
  <2>3. /\ recorded \in [DOMAIN rows -> Row]
        /\ \A other \in DOMAIN rows :
             /\ recorded[other].key = rows[other].key /\ recorded[other].age = rows[other].age
             /\ recorded[other].delivered = rows[other].delivered
    BY <1>0, <1>3, <2>1, <2>2 DEF Row
  <2>4. Marked(rows, recorded)
    BY <2>3 DEF Marked
  <2> QED
    BY <1>3, <2>3, <2>4 DEF recorded
<1> QED
  BY <1>1, <1>2, <1>3

\* A result that is recorded is the newest of its key, or it is not.
LEMMA ToldKeepsRows ==
    ASSUME NEW rows, NEW next \in Nat, RowsFit(rows, next),
           NEW since \in [Keys -> (0..ToldHorizon) \cup {None}], RowsKept(rows, since),
           NEW id \in DOMAIN rows, rows[id].delivered # None,
           NEW event, event = IF rows[id].age = RowHorizon THEN ToldHorizon ELSE rows[id].age
    PROVE  LET now == [since EXCEPT ![rows[id].key] = Newer(@, event)]
           IN  now \in [Keys -> (0..ToldHorizon) \cup {None}] /\ RowsKept(rows, now)
<1> DEFINE key == rows[id].key
           now == [since EXCEPT ![key] = Newer(@, event)]
<1>1. /\ RowHorizon \in Nat /\ ToldHorizon \in Nat /\ None \notin Nat
      /\ RowHorizon <= ToldHorizon
      /\ \A k \in Keys : Cooldown[Kind(k)] \in Nat /\ Cooldown[Kind(k)] < RowHorizon
                         /\ Cooldown[Kind(k)] < ToldHorizon
  BY Horizons, Quiets
<1>2. key \in Keys /\ rows[id].age \in 0..RowHorizon
  BY RowFields
<1>3. event \in 0..ToldHorizon
  BY <1>1, <1>2
<1>4. now[key] \in {since[key], event} /\ \A k \in Keys : k # key => now[k] = since[k]
  BY <1>2 DEF Newer
<1>5. now \in [Keys -> (0..ToldHorizon) \cup {None}]
  BY <1>2, <1>3 DEF Newer
<1> HIDE DEF now
<1>6. StillThere(rows, now)
  <2> SUFFICES ASSUME NEW k \in Keys, now[k] # None, ~ (now[k] > Cooldown[Kind(k)])
               PROVE  \E other \in DOMAIN rows :
                        /\ rows[other].key = k /\ rows[other].delivered # None
                        /\ rows[other].age = now[k]
    BY DEF StillThere
  <2>1. CASE now[k] = since[k]
    BY <2>1 DEF RowsKept, StillThere
  <2>2. CASE now[k] # since[k]
    <3>1. k = key /\ now[k] = event
      BY <1>4, <2>2
    <3>2. event = rows[id].age
      BY <1>1, <3>1
    <3> QED
      BY <3>1, <3>2
  <2> QED
    BY <2>1, <2>2
<1>7. NoneRepeats(rows, now)
  <2> SUFFICES ASSUME NEW other \in DOMAIN rows,
                      rows[other].delivered = None, now[rows[other].key] # None
               PROVE  \/ now[rows[other].key] = ToldHorizon \/ rows[other].age = RowHorizon
                      \/ now[rows[other].key] - rows[other].age > Cooldown[Kind(rows[other].key)]
                      \/ rows[other].age - now[rows[other].key] > Cooldown[Kind(rows[other].key)]
    BY DEF NoneRepeats
  <2>1. rows[other].key \in Keys /\ rows[other].age \in 0..RowHorizon
    BY RowFields
  <2>2. CASE now[rows[other].key] = since[rows[other].key]
    BY <2>2 DEF RowsKept, NoneRepeats
  <2>3. CASE now[rows[other].key] # since[rows[other].key]
    <3>1. rows[other].key = key /\ now[key] = event
      BY <1>4, <2>1, <2>3
    <3>2. CASE rows[id].age = RowHorizon
      BY <3>1, <3>2
    <3>3. CASE rows[id].age # RowHorizon
      <4>1. event = rows[id].age /\ id # other
        BY <3>3
      <4>2. id \in Nat /\ other \in Nat
        BY RowFields
      <4>3. \/ rows[other].age = RowHorizon
            \/ rows[id].age - rows[other].age > Cooldown[Kind(key)]
            \/ rows[other].age - rows[id].age > Cooldown[Kind(key)]
        <5>1. CASE id < other
          BY <3>1, <3>3, <5>1 DEF RowsKept, WellApart
        <5>2. CASE other < id
          BY <3>1, <5>2 DEF RowsKept, WellApart
        <5> QED
          BY <4>1, <4>2, <5>1, <5>2
      <4> QED
        BY <3>1, <4>1, <4>3
    <3> QED
      BY <3>2, <3>3
  <2> QED
    BY <2>2, <2>3
<1>8. RowsKept(rows, now)
  BY <1>6, <1>7 DEF RowsKept
<1> QED
  BY <1>5, <1>8 DEF now

\* A box is its rows and the next id.
Box(box) ==
    /\ box = [rows |-> box.rows, next |-> box.next]
    /\ box.next \in Nat \ {0} /\ RowsFit(box.rows, box.next)

\* The row that is queued.
LEMMA Queued ==
    ASSUME NEW box, Box(box), NEW key \in Keys, ~ Duplicate(box, key)
    PROVE  LET new == Enqueued(box, key)
           IN  /\ Box(new) /\ new.next = box.next + 1
               /\ DOMAIN new.rows = DOMAIN box.rows \cup {box.next}
               /\ box.next \notin DOMAIN box.rows
               /\ \A id \in DOMAIN box.rows : new.rows[id] = box.rows[id]
               /\ new.rows[box.next] = [key |-> key, age |-> 0, delivered |-> None, tried |-> None]
<1> DEFINE row == [key |-> key, age |-> 0, delivered |-> None, tried |-> None]
           rows == [id \in DOMAIN box.rows \cup {box.next} |-> IF id = box.next THEN row ELSE box.rows[id]]
           new == Enqueued(box, key)
<1>1. new = [rows |-> rows, next |-> box.next + 1]
  BY DEF Enqueued
<1>2. new.rows = rows /\ new.next = box.next + 1 /\ new = [rows |-> new.rows, next |-> new.next]
  BY <1>1
<1>3. row \in Row
  BY Horizons DEF Row
<1>4. box.next \in Nat /\ box.next # 0 /\ DOMAIN box.rows \subseteq 1..(box.next - 1)
      /\ \A id \in DOMAIN box.rows : box.rows[id] \in Row
  BY DEF Box, RowsFit
<1>5. box.next \notin DOMAIN box.rows
  BY <1>4
<1> HIDE DEF row
<1>6. /\ DOMAIN rows = DOMAIN box.rows \cup {box.next}
      /\ \A id \in DOMAIN box.rows : rows[id] = box.rows[id]
      /\ rows[box.next] = row
      /\ rows = [id \in DOMAIN rows |-> rows[id]]
  BY <1>5
<1> HIDE DEF rows, new
<1>7. rows \in [DOMAIN rows -> Row]
  BY <1>3, <1>4, <1>6
<1>8. DOMAIN rows \subseteq 1..((box.next + 1) - 1)
  <2>1. DOMAIN box.rows \subseteq 1..((box.next + 1) - 1) /\ box.next \in 1..((box.next + 1) - 1)
    BY <1>4
  <2> QED
    BY <1>6, <2>1
<1>9. Box(new)
  BY <1>2, <1>4, <1>7, <1>8 DEF Box, RowsFit
<1> QED
  BY <1>2, <1>5, <1>6, <1>9 DEF row, new

\* Nothing is told again within the cooldown.
LEMMA QueuedKeepsRows ==
    ASSUME NEW box, Box(box), NEW key \in Keys,
           NEW since \in [Keys -> (0..ToldHorizon) \cup {None}], RowsKept(box.rows, since)
    PROVE  LET new == Enqueued(box, key)
           IN  /\ Box(new) /\ new.next >= box.next /\ RowsKept(new.rows, since)
               /\ Duplicate(new, key)
               /\ \A other : Duplicate(box, other) => Duplicate(new, other)
<1> DEFINE new == Enqueued(box, key)
           rows == box.rows
<1>0. box.next \in Nat /\ RowsFit(rows, box.next)
  BY DEF Box
<1>1. CASE Duplicate(box, key)
  <2>1. new = box
    BY <1>1 DEF Enqueued
  <2> QED
    BY <1>0, <1>1, <2>1
<1>2. CASE ~ Duplicate(box, key)
  <2>1. /\ Box(new) /\ new.next = box.next + 1
        /\ DOMAIN new.rows = DOMAIN rows \cup {box.next} /\ box.next \notin DOMAIN rows
        /\ \A id \in DOMAIN rows : new.rows[id] = rows[id]
        /\ new.rows[box.next] = [key |-> key, age |-> 0, delivered |-> None, tried |-> None]
    BY <1>2, Queued
  <2> HIDE DEF new
  <2>2. /\ new.rows[box.next].key = key /\ new.rows[box.next].age = 0
        /\ new.rows[box.next].delivered = None
    BY <2>1
  <2>3. /\ RowHorizon \in Nat /\ ToldHorizon \in Nat /\ None \notin Nat
        /\ \A k \in Keys : Cooldown[Kind(k)] \in Nat /\ Cooldown[Kind(k)] < RowHorizon
                           /\ Cooldown[Kind(k)] < ToldHorizon
    BY Horizons, Quiets
  <2>4. \A id \in DOMAIN rows : /\ rows[id].key \in Keys /\ rows[id].age \in 0..RowHorizon
                                /\ id \in Nat /\ id < box.next
    BY <1>0, RowFields
  <2>5. \A id \in DOMAIN rows : rows[id].key = key => ~ (rows[id].age <= Cooldown[Kind(key)])
    BY <1>2 DEF Duplicate
  <2>6. WellApart(new.rows)
    <3> SUFFICES ASSUME NEW i \in DOMAIN new.rows, NEW j \in DOMAIN new.rows,
                        i < j, new.rows[i].key = new.rows[j].key
                 PROVE  \/ new.rows[i].age = RowHorizon
                        \/ new.rows[i].age - new.rows[j].age > Cooldown[Kind(new.rows[i].key)]
      BY DEF WellApart
    <3>1. i \in DOMAIN rows
      BY <1>0, <2>1, <2>4
    <3>2. CASE j = box.next
      <4>1. new.rows[i] = rows[i] /\ rows[i].key = key /\ new.rows[j].age = 0
        BY <2>1, <2>2, <3>1, <3>2
      <4>2. rows[i].age > Cooldown[Kind(key)]
        BY <2>3, <2>4, <2>5, <3>1, <4>1
      <4> QED
        BY <2>4, <3>1, <4>1, <4>2
    <3>3. CASE j # box.next
      <4>1. j \in DOMAIN rows /\ new.rows[i] = rows[i] /\ new.rows[j] = rows[j]
        BY <2>1, <3>1, <3>3
      <4> QED
        BY <3>1, <4>1 DEF RowsKept, WellApart
    <3> QED
      BY <3>2, <3>3
  <2>7. DeliveredLater(new.rows)
    BY <2>1, <2>2 DEF RowsKept, DeliveredLater
  <2>8. StillThere(new.rows, since)
    BY <2>1 DEF RowsKept, StillThere
  <2>9. NoneRepeats(new.rows, since)
    <3> SUFFICES ASSUME NEW id \in DOMAIN new.rows,
                        new.rows[id].delivered = None, since[new.rows[id].key] # None
                 PROVE  \/ since[new.rows[id].key] = ToldHorizon \/ new.rows[id].age = RowHorizon
                        \/ since[new.rows[id].key] - new.rows[id].age
                             > Cooldown[Kind(new.rows[id].key)]
                        \/ new.rows[id].age - since[new.rows[id].key]
                             > Cooldown[Kind(new.rows[id].key)]
      BY DEF NoneRepeats
    <3>1. CASE id \in DOMAIN rows
      BY <2>1, <3>1 DEF RowsKept, NoneRepeats
    <3>2. CASE id = box.next
      <4>1. new.rows[id].key = key /\ new.rows[id].age = 0 /\ since[key] # None
        BY <2>2, <3>2
      <4>2. since[key] \in Nat
        BY <2>3, <4>1
      <4>3. ~ \E other \in DOMAIN rows : rows[other].key = key /\ rows[other].age = since[key]
              /\ since[key] <= Cooldown[Kind(key)]
        BY <2>5
      <4>4. since[key] > Cooldown[Kind(key)]
        BY <2>3, <4>1, <4>2, <4>3 DEF RowsKept, StillThere
      <4> QED
        BY <2>3, <4>1, <4>2, <4>4
    <3> QED
      BY <2>1, <3>1, <3>2
  <2>10. Duplicate(new, key)
    BY <2>1, <2>2, <2>3 DEF Duplicate
  <2>11. \A other : Duplicate(box, other) => Duplicate(new, other)
    BY <2>1 DEF Duplicate
  <2>12. RowsKept(new.rows, since)
    BY <2>6, <2>7, <2>8, <2>9 DEF RowsKept
  <2> QED
    BY <1>0, <2>1, <2>10, <2>11, <2>12 DEF new
<1> QED
  BY <1>1, <1>2

\* What is queued is on, and was not shown.
LEMMA QueuedIsNew ==
    ASSUME NEW box, Box(box), NEW key \in Keys,
           NEW choice, NEW cut, Silent(box.rows, choice, cut),
           choice.enabled /\ Kind(key) \in choice.on,
           NEW displays \in [1..MaxRows -> [times : 0..2, unrecorded : BOOLEAN]], NEW loop,
           Settled(box.rows, box.next, displays, loop)
    PROVE  LET new == Enqueued(box, key)
           IN  Silent(new.rows, choice, cut) /\ Settled(new.rows, new.next, displays, loop)
<1> DEFINE new == Enqueued(box, key)
           rows == box.rows
<1>1. CASE Duplicate(box, key)
  <2>1. new = box
    BY <1>1 DEF Enqueued
  <2> QED
    BY <2>1
<1>2. CASE ~ Duplicate(box, key)
  <2>1. /\ Box(new) /\ new.next = box.next + 1
        /\ DOMAIN new.rows = DOMAIN rows \cup {box.next} /\ box.next \notin DOMAIN rows
        /\ \A id \in DOMAIN rows : new.rows[id] = rows[id]
        /\ new.rows[box.next] = [key |-> key, age |-> 0, delivered |-> None, tried |-> None]
    BY <1>2, Queued
  <2> HIDE DEF new
  <2>2. new.rows[box.next].key = key
    BY <2>1
  <2>3. Silent(new.rows, choice, cut)
    BY <2>1, <2>2 DEF Silent
  <2>4. box.next \in Nat
    BY DEF Box
  <2>5. Settled(new.rows, new.next, displays, loop)
    <3> SUFFICES ASSUME NEW id \in 1..MaxRows
                 PROVE  /\ id >= new.next => displays[id].times = 0
                        /\ displays[id].times >= 1 /\ ~ displays[id].unrecorded
                             => \/ loop.at = "record" /\ loop.accepted /\ Head(loop.batch) = id
                                \/ id \notin DOMAIN new.rows
                                \/ new.rows[id].delivered # None
      BY DEF Settled
    <3>1. id >= new.next => displays[id].times = 0
      BY <2>1, <2>4 DEF Settled
    <3>2. CASE id = box.next
      <4>1. displays[id].times = 0
        BY <2>4, <3>2 DEF Settled
      <4> QED
        BY <3>1, <4>1
    <3>3. CASE id # box.next
      <4>1. id \in DOMAIN new.rows => id \in DOMAIN rows /\ new.rows[id] = rows[id]
        BY <2>1, <3>3
      <4> QED
        BY <3>1, <4>1 DEF Settled
    <3> QED
      BY <3>2, <3>3
  <2> QED
    BY <2>3, <2>5 DEF new
<1> QED
  BY <1>1, <1>2

\* A minute passes.
LEMMA TickKeepsRows ==
    ASSUME NEW rows, NEW next \in Nat, RowsFit(rows, next),
           NEW since \in [Keys -> (0..ToldHorizon) \cup {None}], RowsKept(rows, since),
           NEW older, older = [id \in DOMAIN rows |-> Older(rows[id])],
           NEW later, later = [key \in Keys |-> Aged(since[key], ToldHorizon)]
    PROVE  /\ RowsFit(older, next) /\ later \in [Keys -> (0..ToldHorizon) \cup {None}]
           /\ RowsKept(older, later)
           /\ DOMAIN older = DOMAIN rows
           /\ \A id \in DOMAIN rows : /\ older[id].key = rows[id].key
                                      /\ older[id].delivered = None <=> rows[id].delivered = None
<1>1. /\ RowHorizon \in Nat /\ ToldHorizon \in Nat /\ None \notin Nat /\ DeliveredRetention \in Nat
      /\ Retry \in Nat /\ LongestQuiet \in Nat /\ ToldHorizon = LongestQuiet + RowHorizon
      /\ \A k \in Keys : Cooldown[Kind(k)] \in Nat /\ Cooldown[Kind(k)] < RowHorizon
                         /\ Cooldown[Kind(k)] < ToldHorizon
  BY Horizons, Quiets
<1>2. \A id \in DOMAIN rows : /\ rows[id].key \in Keys /\ rows[id].age \in 0..RowHorizon
                              /\ rows[id].delivered \in (0..DeliveredRetention) \cup {None}
                              /\ rows[id].tried \in (0..Retry) \cup {None}
                              /\ rows[id] \in Row
  BY RowFields
<1>3. ASSUME NEW horizon \in Nat
      PROVE  /\ Aged(None, horizon) = None
             /\ \A n \in 0..horizon :
                  /\ Aged(n, horizon) \in 0..horizon /\ Aged(n, horizon) # None /\ n # None
                  /\ \/ n = horizon /\ Aged(n, horizon) = horizon
                     \/ n < horizon /\ Aged(n, horizon) = n + 1
  <2>1. Aged(None, horizon) = None
    BY DEF Aged
  <2>2. ASSUME NEW n \in 0..horizon
        PROVE  /\ Aged(n, horizon) \in 0..horizon /\ Aged(n, horizon) # None /\ n # None
               /\ \/ n = horizon /\ Aged(n, horizon) = horizon
                  \/ n < horizon /\ Aged(n, horizon) = n + 1
    <3>1. n # None
      BY <1>1
    <3>2. CASE n = horizon
      BY <1>1, <3>1, <3>2 DEF Aged
    <3>3. CASE n # horizon
      <4>1. Aged(n, horizon) = n + 1
        BY <3>1, <3>3 DEF Aged
      <4> QED
        BY <1>1, <3>1, <3>3, <4>1
    <3> QED
      BY <3>2, <3>3
  <2> QED
    BY <2>1, <2>2
<1>4. DOMAIN older = DOMAIN rows
  OBVIOUS
<1>5. ASSUME NEW id \in DOMAIN rows
      PROVE  /\ older[id] \in Row /\ older[id].key = rows[id].key
             /\ older[id].age \in 0..RowHorizon
             /\ older[id].age = Aged(rows[id].age, RowHorizon)
             /\ older[id].delivered = Aged(rows[id].delivered, DeliveredRetention)
  <2>1. older[id] = Older(rows[id])
    OBVIOUS
  <2>2. Aged(rows[id].age, RowHorizon) \in 0..RowHorizon
    BY <1>1, <1>2, <1>3
  <2>3. /\ Aged(rows[id].delivered, DeliveredRetention) \in (0..DeliveredRetention) \cup {None}
        /\ Aged(rows[id].tried, Retry) \in (0..Retry) \cup {None}
    BY <1>1, <1>2, <1>3
  <2> QED
    BY <1>2, <2>1, <2>2, <2>3 DEF Row, Older
<1>6. RowsFit(older, next)
  <2>1. \A id \in DOMAIN rows : older[id] \in Row
    BY <1>5
  <2>2. older \in [DOMAIN older -> Row]
    BY <1>4, <2>1
  <2> QED
    BY <1>4, <2>2 DEF RowsFit
<1>7. later \in [Keys -> (0..ToldHorizon) \cup {None}]
      /\ \A key \in Keys : later[key] = Aged(since[key], ToldHorizon)
  BY <1>1, <1>3
<1>8. \A id \in DOMAIN rows :
        \/ rows[id].age = RowHorizon /\ older[id].age = RowHorizon
        \/ rows[id].age < RowHorizon /\ older[id].age = rows[id].age + 1
  BY <1>1, <1>2, <1>3, <1>5
<1>9. \A id \in DOMAIN rows :
        /\ older[id].delivered = None <=> rows[id].delivered = None
        /\ rows[id].delivered # None => \/ older[id].delivered = rows[id].delivered
                                        \/ older[id].delivered = rows[id].delivered + 1
  BY <1>1, <1>2, <1>3, <1>5
<1>10. \A key \in Keys :
         /\ since[key] \in (0..ToldHorizon) \cup {None}
         /\ later[key] = None <=> since[key] = None
         /\ since[key] # None => \/ since[key] = ToldHorizon /\ later[key] = ToldHorizon
                                 \/ since[key] < ToldHorizon /\ later[key] = since[key] + 1
  BY <1>1, <1>3, <1>7
<1> HIDE DEF RowsFit
<1>11. WellApart(older)
  <2> SUFFICES ASSUME NEW i \in DOMAIN rows, NEW j \in DOMAIN rows,
                      i < j, older[i].key = older[j].key
               PROVE  \/ older[i].age = RowHorizon
                      \/ older[i].age - older[j].age > Cooldown[Kind(older[i].key)]
    BY <1>4 DEF WellApart
  <2>1. older[i].key = rows[i].key /\ older[j].key = rows[j].key
    BY <1>5
  <2>2. \/ rows[i].age = RowHorizon
        \/ rows[i].age - rows[j].age > Cooldown[Kind(rows[i].key)]
    BY <2>1 DEF RowsKept, WellApart
  <2> QED
    BY <1>1, <1>2, <1>8, <2>1, <2>2
<1>12. DeliveredLater(older)
  <2> SUFFICES ASSUME NEW id \in DOMAIN rows, older[id].delivered # None
               PROVE  older[id].delivered <= older[id].age \/ older[id].age = RowHorizon
    BY <1>4 DEF DeliveredLater
  <2>1. rows[id].delivered \in Nat /\ rows[id].age \in Nat
    BY <1>2, <1>9
  <2>2. rows[id].delivered <= rows[id].age \/ rows[id].age = RowHorizon
    BY <1>9 DEF RowsKept, DeliveredLater
  <2> QED
    BY <1>1, <1>8, <1>9, <2>1, <2>2
<1>13. StillThere(older, later)
  <2> SUFFICES ASSUME NEW key \in Keys, later[key] # None, ~ (later[key] > Cooldown[Kind(key)])
               PROVE  \E id \in DOMAIN rows :
                        /\ older[id].key = key /\ older[id].delivered # None
                        /\ older[id].age = later[key]
    BY <1>4 DEF StillThere
  <2>1. since[key] \in Nat /\ later[key] = since[key] + 1 /\ since[key] < Cooldown[Kind(key)]
    BY <1>1, <1>10
  <2>2. PICK id \in DOMAIN rows : /\ rows[id].key = key /\ rows[id].delivered # None
                                  /\ rows[id].age = since[key]
    BY <1>1, <2>1 DEF RowsKept, StillThere
  <2> QED
    BY <1>1, <1>5, <1>8, <1>9, <2>1, <2>2
<1>14. NoneRepeats(older, later)
  <2> SUFFICES ASSUME NEW id \in DOMAIN rows,
                      older[id].delivered = None, later[older[id].key] # None
               PROVE  \/ later[older[id].key] = ToldHorizon \/ older[id].age = RowHorizon
                      \/ later[older[id].key] - older[id].age > Cooldown[Kind(older[id].key)]
                      \/ older[id].age - later[older[id].key] > Cooldown[Kind(older[id].key)]
    BY <1>4 DEF NoneRepeats
  <2> DEFINE key == rows[id].key
  <2>1. key \in Keys /\ older[id].key = key /\ rows[id].delivered = None /\ since[key] # None
    BY <1>2, <1>5, <1>9, <1>10
  <2>2. \/ since[key] = ToldHorizon \/ rows[id].age = RowHorizon
        \/ since[key] - rows[id].age > Cooldown[Kind(key)]
        \/ rows[id].age - since[key] > Cooldown[Kind(key)]
    BY <2>1 DEF RowsKept, NoneRepeats
  <2> HIDE DEF key
  <2>3. since[key] \in Nat /\ rows[id].age \in Nat /\ Cooldown[Kind(key)] \in Nat
    BY <1>1, <1>2, <1>10, <2>1
  <2> QED
    BY <1>1, <1>8, <1>10, <2>1, <2>2, <2>3
<1>15. RowsKept(older, later)
  BY <1>11, <1>12, <1>13, <1>14 DEF RowsKept
<1> QED
  BY <1>4, <1>5, <1>6, <1>7, <1>9, <1>15

\* The loop of the application: the batch is in order, of ids that were given.
LoopFits(loop, next) ==
    /\ loop \in [at : {"off", "idle", "show", "record"}, age : 0..RowHorizon, batch : Seq(Nat),
                 accepted : BOOLEAN]
    /\ Len(loop.batch) <= Limit
    /\ \A i \in 1..Len(loop.batch) : 1 <= loop.batch[i] /\ loop.batch[i] < next
    /\ \A i, j \in 1..Len(loop.batch) : i < j => loop.batch[i] < loop.batch[j]
    /\ loop.at \in {"show", "record"} => loop.batch # <<>>

\* What is about to be shown was not shown, unless its report was lost.
StillNew(loop, displays) ==
    \A i \in 1..Len(loop.batch) :
        (loop.at # "record" \/ i > 1) /\ displays[loop.batch[i]].times >= 1
          => displays[loop.batch[i]].unrecorded

Displays == [1..MaxRows -> [times : 0..2, unrecorded : BOOLEAN]]
Since == [Keys -> (0..ToldHorizon) \cup {None}]

\* What is true and what the daemon took note of.
FactsFit(true, noted) ==
    /\ true \in [schedule : BOOLEAN \cup {None}, detox : BOOLEAN \cup {None}, day : 0..MaxDay,
                 left : 0..Full]
    /\ noted \in [schedule : BOOLEAN \cup {None}, detox : BOOLEAN \cup {None},
                  day : (0..MaxDay) \cup {None}, left : 0..Full]

\* The inductive invariant.
OutboxKept ==
    /\ Box(outbox) /\ outbox.next <= MaxRows + 1
    /\ told \in Since /\ shown \in Displays /\ FactsFit(facts, known)
    /\ LoopFits(client, outbox.next)
    /\ RowsKept(outbox.rows, told)
    /\ Silent(outbox.rows, preferences, torn)
    /\ Settled(outbox.rows, outbox.next, shown, client)
    /\ StillNew(client, shown)
    /\ ShownOnce

\* It says what the runs check.
LEMMA OutboxIsKept == OutboxKept => OutboxInvariant
<1> SUFFICES ASSUME OutboxKept PROVE OutboxInvariant
  OBVIOUS
<1> USE DEF OutboxKept
<1>1. outbox.next \in Nat /\ RowsFit(outbox.rows, outbox.next)
  BY DEF Box
<1>2. OutboxTypeOK
  <2>1. DOMAIN outbox.rows \subseteq 1..(outbox.next - 1) /\ outbox.next \in 1..(MaxRows + 1)
    BY Horizons DEF Box, RowsFit
  <2>2. \A id \in DOMAIN outbox.rows :
          /\ outbox.rows[id].key \in Keys
          /\ outbox.rows[id].age \in 0..RowHorizon
          /\ outbox.rows[id].delivered = None \/ outbox.rows[id].delivered \in 0..DeliveredRetention
          /\ outbox.rows[id].tried = None \/ outbox.rows[id].tried \in 0..Retry
    BY <1>1, RowFields
  <2>3. /\ Len(client.batch) <= Limit
        /\ \A i, j \in DOMAIN client.batch : i < j => client.batch[i] < client.batch[j]
        /\ client.at \in {"off", "idle", "show", "record"}
        /\ client.at \in {"show", "record"} => client.batch # <<>>
    BY DEF LoopFits
  <2> QED
    BY <2>1, <2>2, <2>3 DEF OutboxTypeOK
<1>3. NoRepetition
  BY DEF NoRepetition, RowsKept, NoneRepeats
<1>4. OffMeansSilent
  BY DEF OffMeansSilent, Silent, On
<1> QED
  BY <1>2, <1>3, <1>4 DEF OutboxInvariant

LEMMA OutboxStarts == OutboxInit => OutboxKept
<1> SUFFICES ASSUME OutboxInit PROVE OutboxKept
  OBVIOUS
<1>0. MaxRows \in Nat /\ MaxDay \in Nat /\ Full \in Nat /\ Limit \in Nat /\ RowHorizon \in Nat
  BY Horizons
<1>1. outbox = [rows |-> <<>>, next |-> 1] /\ outbox.rows = <<>> /\ outbox.next = 1
  BY DEF OutboxInit
<1>2. DOMAIN outbox.rows = {} /\ outbox.rows \in [DOMAIN outbox.rows -> Row]
  BY <1>1
<1>3. Box(outbox) /\ outbox.next <= MaxRows + 1
  BY <1>0, <1>1, <1>2 DEF Box, RowsFit
<1>4. told \in Since /\ \A key \in Keys : told[key] = None
  BY DEF OutboxInit, Since
<1>5. shown \in Displays /\ \A id \in 1..MaxRows : shown[id].times = 0
  BY DEF OutboxInit, Displays
<1>6. FactsFit(facts, known)
  BY <1>0 DEF OutboxInit, FactsFit
<1>7. client = [at |-> "off", age |-> 0, batch |-> <<>>, accepted |-> FALSE]
  BY DEF OutboxInit, Off
<1>8. LoopFits(client, outbox.next)
  BY <1>0, <1>7 DEF LoopFits
<1>9. RowsKept(outbox.rows, told)
  BY <1>2, <1>4 DEF RowsKept, WellApart, DeliveredLater, StillThere, NoneRepeats
<1>10. Silent(outbox.rows, preferences, torn)
  BY <1>2 DEF Silent
<1>11. Settled(outbox.rows, outbox.next, shown, client)
  BY <1>5 DEF Settled
<1>12. StillNew(client, shown)
  BY <1>7 DEF StillNew
<1>13. ShownOnce
  BY <1>5 DEF ShownOnce
<1> QED
  BY <1>3, <1>4, <1>5, <1>6, <1>8, <1>9, <1>10, <1>11, <1>12, <1>13 DEF OutboxKept

-------------------------------------------------------------------------------
(* The steps that queue.                                                     *)

\* The box a handler has reached: it may have queued something that is on.
Reached(box) ==
    /\ Box(box) /\ box.next >= outbox.next
    /\ RowsKept(box.rows, told)
    /\ Silent(box.rows, preferences, torn)
    /\ Settled(box.rows, box.next, shown, client)

\* One event more, or none.
Follows(box, new) == new = box \/ \E key \in Keys : On(Kind(key)) /\ new = Enqueued(box, key)

LEMMA ReachedFollows ==
    ASSUME OutboxKept, NEW box, Reached(box), NEW new, Follows(box, new)
    PROVE  Reached(new) /\ \A key : Duplicate(box, key) => Duplicate(new, key)
<1>1. CASE new = box
  BY <1>1
<1>2. CASE \E key \in Keys : On(Kind(key)) /\ new = Enqueued(box, key)
  <2>1. PICK key \in Keys : On(Kind(key)) /\ new = Enqueued(box, key)
    BY <1>2
  <2>2. told \in Since /\ shown \in Displays
    BY DEF OutboxKept
  <2>3. /\ Box(new) /\ new.next >= box.next /\ RowsKept(new.rows, told)
        /\ \A other : Duplicate(box, other) => Duplicate(new, other)
    BY <2>1, <2>2, QueuedKeepsRows DEF Reached, Since
  <2>4. /\ Silent(new.rows, preferences, torn)
        /\ Settled(new.rows, new.next, shown, client)
    BY <2>1, <2>2, QueuedIsNew DEF Reached, On, Displays
  <2>5. box.next >= outbox.next /\ box.next \in Nat /\ outbox.next \in Nat /\ new.next \in Nat
    BY <2>3 DEF Reached, Box, OutboxKept
  <2>6. new.next >= outbox.next
    BY <2>3, <2>5
  <2> QED
    BY <2>3, <2>4, <2>6 DEF Reached
<1> QED
  BY <1>1, <1>2 DEF Follows

LEMMA ReachedKeeps ==
    ASSUME OutboxKept, Reached(outbox'), outbox'.next <= MaxRows + 1, FactsFit(facts', known'),
           UNCHANGED <<preferences, torn, client, shown, told>>
    PROVE  OutboxKept'
<1>1. LoopFits(client, outbox'.next)
  <2>1. outbox.next \in Nat /\ outbox'.next \in Nat /\ outbox'.next >= outbox.next
    BY DEF Reached, Box, OutboxKept
  <2>2. client.batch \in Seq(Nat)
    BY DEF LoopFits, OutboxKept
  <2> QED
    BY <2>1, <2>2 DEF LoopFits, OutboxKept
<1> QED
  BY <1>1 DEF Reached, OutboxKept, ShownOnce

LEMMA BlockKeeps ==
    ASSUME OutboxKept, NEW kind \in BlockKinds, Block(kind)
    PROVE  OutboxKept'
<1>1. Reached(outbox)
  BY DEF Reached, OutboxKept, Box
<1>2. <<kind>> \in Keys /\ Kind(<<kind>>) = kind
  BY KeysHaveKinds
<1>3. Follows(outbox, outbox') /\ outbox'.next <= MaxRows + 1
  BY <1>2 DEF Block, Follows
<1>4. Reached(outbox')
  BY <1>1, <1>3, ReachedFollows
<1>5. FactsFit(facts', known')
  BY DEF Block, OutboxKept
<1> QED
  BY <1>3, <1>4, <1>5, ReachedKeeps DEF Block

\* What a handler's statements start from and leave: a box and what was noted.
Noted == [schedule : BOOLEAN \cup {None}, detox : BOOLEAN \cup {None},
          day : (0..MaxDay) \cup {None}, left : 0..Full]
State(s) == s = [box |-> s.box, known |-> s.known] /\ s.known \in Noted

LEMMA NoteState ==
    ASSUME FactsFit(facts, known), NEW s, State(s), NEW source \in {"schedule", "detox"}
    PROVE  /\ State(Note(s, source)) /\ Note(s, source).box = s.box
           /\ Note(s, source).known[source] = facts[source]
           /\ \A other \in {"schedule", "detox"} :
                other # source => Note(s, source).known[other] = s.known[other]
<1> DEFINE noted == [s.known EXCEPT ![source] = facts[source]]
<1>1. Note(s, source) = [box |-> s.box, known |-> noted]
  BY DEF Note, State
<1>2. noted \in Noted
  BY DEF FactsFit, Noted, State
<1>3. noted[source] = facts[source]
      /\ \A other \in {"schedule", "detox"} : other # source => noted[other] = s.known[other]
  BY DEF Noted, State
<1> HIDE DEF noted
<1> QED
  BY <1>1, <1>2, <1>3 DEF State

\* The kind of a turn.
KindOf(source) == IF facts[source] THEN Lifecycle[source].started ELSE Lifecycle[source].ended

LEMMA KindsOfTurns ==
    ASSUME NEW source \in {"schedule", "detox"}
    PROVE  <<KindOf(source)>> \in Keys /\ Kind(<<KindOf(source)>>) = KindOf(source)
<1>1. KindOf(source) \in Kinds
  BY KeysHaveKinds DEF KindOf, Lifecycle
<1> QED
  BY <1>1, KeysHaveKinds

LEMMA QueueState ==
    ASSUME NEW s, State(s), NEW source \in {"schedule", "detox"}
    PROVE  LET queued == QueueLifecycle(s, source)
           IN  /\ State(queued) /\ queued.known = s.known /\ Follows(s.box, queued.box)
               /\ On(KindOf(source)) => queued.box = Enqueued(s.box, <<KindOf(source)>>)
<1> DEFINE queued == QueueLifecycle(s, source)
           key == <<KindOf(source)>>
<1>1. key \in Keys /\ Kind(key) = KindOf(source)
  BY KindsOfTurns
<1>2. CASE On(KindOf(source))
  <2>1. queued = [s EXCEPT !.box = Enqueued(s.box, key)]
    BY <1>2 DEF QueueLifecycle, KindOf, Enqueue
  <2>2. queued = [box |-> Enqueued(s.box, key), known |-> s.known]
    BY <2>1 DEF State
  <2> HIDE DEF queued
  <2>3. State(queued) /\ queued.known = s.known /\ queued.box = Enqueued(s.box, key)
    BY <2>2 DEF State
  <2>4. Follows(s.box, queued.box)
    BY <1>1, <1>2, <2>3 DEF Follows
  <2> QED
    BY <2>3, <2>4 DEF queued
<1>3. CASE ~ On(KindOf(source))
  <2>1. queued = s
    BY <1>3 DEF QueueLifecycle, KindOf
  <2> QED
    BY <1>3, <2>1 DEF Follows
<1> QED
  BY <1>2, <1>3

\* A turn of the schedules: it is queued before it is noted.
LEMMA ScheduleSteps ==
    ASSUME FactsFit(facts, known)
    PROVE  \E s, t : /\ ScheduleSynced(LastNoted) = <<s, t>> /\ State(s) /\ State(t)
                     /\ s.known = known /\ Follows(outbox, s.box) /\ t.box = s.box
                     /\ t.known.schedule = facts.schedule
                     /\ Flipped(LastNoted, "schedule") /\ On(KindOf("schedule"))
                          => s.box = Enqueued(outbox, <<KindOf("schedule")>>)
<1> DEFINE s == IF Flipped(LastNoted, "schedule") THEN QueueLifecycle(LastNoted, "schedule") ELSE LastNoted
           t == Note(s, "schedule")
<1>1. State(LastNoted) /\ LastNoted.known = known /\ LastNoted.box = outbox
  BY DEF LastNoted, State, FactsFit, Noted
<1>2. /\ State(s) /\ s.known = known /\ Follows(outbox, s.box)
      /\ Flipped(LastNoted, "schedule") /\ On(KindOf("schedule"))
           => s.box = Enqueued(outbox, <<KindOf("schedule")>>)
  <2>1. CASE Flipped(LastNoted, "schedule")
    <3>1. s = QueueLifecycle(LastNoted, "schedule")
      BY <2>1
    <3> HIDE DEF s
    <3> QED
      BY <1>1, <3>1, QueueState
  <2>2. CASE ~ Flipped(LastNoted, "schedule")
    <3>1. s = LastNoted
      BY <2>2
    <3> HIDE DEF s
    <3> QED
      BY <1>1, <2>2, <3>1 DEF Follows
  <2> QED
    BY <2>1, <2>2
<1>3. ScheduleSynced(LastNoted) = <<s, t>>
  BY DEF ScheduleSynced
<1> HIDE DEF s
<1>4. State(t) /\ t.box = s.box /\ t.known.schedule = facts.schedule
  BY <1>2, NoteState
<1> HIDE DEF t
<1> QED
  BY <1>2, <1>3, <1>4

\* A turn of a detox: it is noted before it is queued.
LEMMA DetoxSteps ==
    ASSUME FactsFit(facts, known), NEW s, State(s)
    PROVE  \E new : /\ Follows(s.box, new)
                    /\ DetoxSynced(s) \in Seq([box : {s.box, new},
                                               known : {n \in Noted : n.schedule = s.known.schedule}])
                    /\ DetoxSynced(s) # <<>> /\ Last(DetoxSynced(s)).box = new
<1> DEFINE t == Note(s, "detox")
           u == QueueLifecycle(t, "detox")
           S == [box : {s.box, u.box}, known : {n \in Noted : n.schedule = s.known.schedule}]
<1>1. State(t) /\ t.box = s.box /\ t.known.schedule = s.known.schedule
  BY NoteState
<1>2. State(u) /\ u.known = t.known /\ Follows(s.box, u.box)
  <2> HIDE DEF t
  <2> QED
    BY <1>1, QueueState
<1>3. CASE Flipped(s, "detox")
  <2>1. DetoxSynced(s) = <<t, u>>
    BY <1>3 DEF DetoxSynced, DetoxTold
  <2> HIDE DEF t, u
  <2>2. t \in S /\ u \in S
    BY <1>1, <1>2 DEF State
  <2> HIDE DEF S
  <2>3. DetoxSynced(s) \in Seq(S) /\ DetoxSynced(s) # <<>> /\ Last(DetoxSynced(s)) = u
    BY <2>1, <2>2 DEF Last
  <2> QED
    BY <1>2, <2>3 DEF S
<1>4. CASE ~ Flipped(s, "detox")
  <2>1. DetoxSynced(s) = <<t>>
    BY <1>4 DEF DetoxSynced
  <2> DEFINE T == [box : {s.box}, known : {n \in Noted : n.schedule = s.known.schedule}]
  <2> HIDE DEF t, u
  <2>2. t \in T
    BY <1>1 DEF State
  <2> HIDE DEF T
  <2>3. DetoxSynced(s) \in Seq(T) /\ DetoxSynced(s) # <<>> /\ Last(DetoxSynced(s)) = t
    BY <2>1, <2>2 DEF Last
  <2>4. T = [box : {s.box, s.box}, known : {n \in Noted : n.schedule = s.known.schedule}]
    BY DEF T
  <2> QED
    BY <1>1, <2>3, <2>4 DEF Follows
<1> QED
  BY <1>3, <1>4

\* A threshold that is crossed.
LEMMA AllowanceSteps ==
    ASSUME FactsFit(facts, known), NEW s, State(s)
    PROVE  \E new : /\ Follows(s.box, new)
                    /\ AllowanceSynced(s) \in Seq([box : {new},
                          known : {n \in Noted : n.schedule = s.known.schedule}])
<1> DEFINE least == CHOOSE minutes \in Crossed(s) : \A other \in Crossed(s) : minutes <= other
           warned == Crossed(s) # {} /\ On("allowance_warning")
           queued == IF warned THEN Enqueue(s, AllowanceKey(facts.day, least)) ELSE s
           after == [queued EXCEPT !.known = [@ EXCEPT !.day = facts.day, !.left = facts.left]]
           today == [s.known EXCEPT !.day = facts.day, !.left = facts.left]
           S == [box : {queued.box}, known : {n \in Noted : n.schedule = s.known.schedule}]
<1>1. AllowanceSynced(s) = <<queued, after>>
  BY DEF AllowanceSynced
<1>2. /\ queued = [box |-> queued.box, known |-> s.known]
      /\ Follows(s.box, queued.box)
  <2>1. CASE warned
    <3>1. Crossed(s) \in SUBSET Nat /\ Crossed(s) \subseteq Thresholds
      BY Horizons DEF Crossed
    <3>2. \E minutes \in Crossed(s) : \A other \in Crossed(s) : minutes <= other
      BY <2>1, <3>1, LeastNatural
    <3>3. least \in Thresholds
      BY <3>1, <3>2
    <3>4. facts.day \in 0..MaxDay
      BY DEF FactsFit
    <3> DEFINE key == AllowanceKey(facts.day, least)
    <3> HIDE DEF least
    <3>5. key \in Keys /\ Kind(key) = "allowance_warning"
      BY <3>3, <3>4, KeysHaveKinds
    <3>6. queued = [s EXCEPT !.box = Enqueued(s.box, key)]
      BY <2>1 DEF Enqueue
    <3> HIDE DEF key, queued
    <3>7. queued = [box |-> Enqueued(s.box, key), known |-> s.known]
      BY <3>6 DEF State
    <3>8. queued.box = Enqueued(s.box, key)
      BY <3>7
    <3> QED
      BY <2>1, <3>5, <3>7, <3>8 DEF Follows
  <2>2. CASE ~ warned
    <3>1. queued = s
      BY <2>2
    <3> HIDE DEF queued
    <3> QED
      BY <3>1 DEF Follows, State
  <2> QED
    BY <2>1, <2>2
<1> HIDE DEF queued, warned, least
<1>3. after = [box |-> queued.box, known |-> today]
  <2>1. queued.known = s.known
    BY <1>2
  <2>2. after = [queued EXCEPT !.known = today]
    BY <2>1
  <2> HIDE DEF after, today
  <2> QED
    BY <1>2, <2>2
<1>4. today \in Noted /\ today.schedule = s.known.schedule
  BY DEF State, Noted, FactsFit
<1> HIDE DEF today
<1>5. queued \in S /\ after \in S
  <2>1. s.known \in {n \in Noted : n.schedule = s.known.schedule}
    BY DEF State
  <2>2. queued \in S
    BY <1>2, <2>1
  <2>3. after \in S
    BY <1>3, <1>4
  <2> QED
    BY <2>2, <2>3
<1> HIDE DEF after, S
<1>6. AllowanceSynced(s) \in Seq(S)
  BY <1>1, <1>5
<1> QED
  BY <1>2, <1>6 DEF S

\* Two states, and the members of two sequences.
LEMMA TwoThenMore ==
    ASSUME NEW a, NEW b, NEW T, NEW t \in Seq(T), NEW U, NEW u \in Seq(U)
    PROVE  LET all == <<a, b>> \o t \o u
           IN  /\ DOMAIN all \subseteq Nat
               /\ \A n \in DOMAIN all : all[n] = a \/ all[n] = b \/ all[n] \in T \/ all[n] \in U
<1> DEFINE S == {a, b} \cup T \cup U
           all == <<a, b>> \o t \o u
<1>1. <<a, b>> \in Seq(S) /\ t \in Seq(S) /\ u \in Seq(S)
  OBVIOUS
<1>2. all \in Seq(S)
  BY <1>1
<1>3. \A n \in DOMAIN all : all[n] \in S
  BY <1>2
<1>4. DOMAIN all \subseteq Nat
  BY <1>2
<1> QED
  BY <1>3, <1>4

\* Every prefix of a sync leaves a box that keeps the invariant, and the schedules'
\* turn is noted where it was queued.
LEMMA FollowedReaches ==
    ASSUME OutboxKept, NEW n \in DOMAIN Followed
    PROVE  /\ Reached(Followed[n].box) /\ Followed[n].known \in Noted
           /\ \/ Followed[n].known.schedule = known.schedule
              \/ /\ Followed[n].known.schedule = facts.schedule
                 /\ Flipped(LastNoted, "schedule") /\ On(KindOf("schedule"))
                      => Duplicate(Followed[n].box, <<KindOf("schedule")>>)
<1>1. FactsFit(facts, known)
  BY DEF OutboxKept
<1>2. PICK s, t : /\ ScheduleSynced(LastNoted) = <<s, t>> /\ State(s) /\ State(t)
                  /\ s.known = known /\ Follows(outbox, s.box) /\ t.box = s.box
                  /\ t.known.schedule = facts.schedule
                  /\ Flipped(LastNoted, "schedule") /\ On(KindOf("schedule"))
                       => s.box = Enqueued(outbox, <<KindOf("schedule")>>)
  BY <1>1, ScheduleSteps
<1>3. PICK d : /\ Follows(t.box, d)
               /\ DetoxSynced(t) \in Seq([box : {t.box, d},
                                          known : {k \in Noted : k.schedule = t.known.schedule}])
               /\ DetoxSynced(t) # <<>> /\ Last(DetoxSynced(t)).box = d
  BY <1>1, <1>2, DetoxSteps
<1> DEFINE T == [box : {t.box, d}, known : {k \in Noted : k.schedule = t.known.schedule}]
           detox == DetoxSynced(t)
           l == Last(detox)
<1>4. l \in T
  <2>1. detox \in Seq(T) /\ detox # <<>>
    BY <1>3
  <2> HIDE DEF T, detox
  <2> QED
    BY <2>1 DEF Last
<1>5. State(l) /\ l.known.schedule = facts.schedule /\ l.box = d
  BY <1>2, <1>3, <1>4 DEF State
<1> HIDE DEF l
<1>6. PICK a : /\ Follows(d, a)
               /\ AllowanceSynced(l) \in Seq([box : {a},
                                              known : {k \in Noted : k.schedule = l.known.schedule}])
  BY <1>1, <1>5, AllowanceSteps
<1> DEFINE U == [box : {a}, known : {k \in Noted : k.schedule = l.known.schedule}]
<1>7. Followed = <<s, t>> \o detox \o AllowanceSynced(l)
  <2>1. Last(<<s, t>>) = t
    BY DEF Last
  <2> QED
    BY <1>2, <2>1 DEF Followed, l
<1>8. Followed[n] = s \/ Followed[n] = t \/ Followed[n] \in T \/ Followed[n] \in U
  <2>1. detox \in Seq(T) /\ AllowanceSynced(l) \in Seq(U)
    BY <1>3, <1>6
  <2> HIDE DEF T, U, detox
  <2> QED
    BY <1>7, <2>1, TwoThenMore
<1>9. Reached(outbox)
  BY DEF Reached, OutboxKept, Box
<1>10. Reached(s.box)
  BY <1>2, <1>9, ReachedFollows
<1>11. Reached(d) /\ \A key : Duplicate(s.box, key) => Duplicate(d, key)
  BY <1>2, <1>3, <1>10, ReachedFollows
<1>12. Reached(a) /\ \A key : Duplicate(d, key) => Duplicate(a, key)
  BY <1>6, <1>11, ReachedFollows
<1>13. Flipped(LastNoted, "schedule") /\ On(KindOf("schedule"))
         => Duplicate(s.box, <<KindOf("schedule")>>)
  <2> SUFFICES ASSUME Flipped(LastNoted, "schedule"), On(KindOf("schedule"))
               PROVE  Duplicate(s.box, <<KindOf("schedule")>>)
    OBVIOUS
  <2>1. s.box = Enqueued(outbox, <<KindOf("schedule")>>)
    BY <1>2
  <2>2. <<KindOf("schedule")>> \in Keys
    BY KindsOfTurns
  <2>3. Box(outbox) /\ RowsKept(outbox.rows, told) /\ told \in [Keys -> (0..ToldHorizon) \cup {None}]
    BY DEF OutboxKept, Since
  <2> QED
    BY <2>1, <2>2, <2>3, QueuedKeepsRows
<1>14. CASE Followed[n] = s
  BY <1>2, <1>10, <1>14 DEF State
<1>15. CASE Followed[n] = t
  BY <1>2, <1>10, <1>13, <1>15 DEF State
<1>16. CASE Followed[n] \in T
  <2>1. Followed[n].box = s.box \/ Followed[n].box = d
    BY <1>2, <1>16
  <2>2. Followed[n].known \in Noted /\ Followed[n].known.schedule = facts.schedule
    BY <1>2, <1>16
  <2> QED
    BY <1>10, <1>11, <1>13, <2>1, <2>2
<1>17. CASE Followed[n] \in U
  <2>1. Followed[n].box = a
    BY <1>17
  <2>2. Followed[n].known \in Noted /\ Followed[n].known.schedule = facts.schedule
    BY <1>5, <1>17
  <2> QED
    BY <1>11, <1>12, <1>13, <2>1, <2>2
<1> QED
  BY <1>8, <1>14, <1>15, <1>16, <1>17

LEMMA SyncKeeps ==
    ASSUME OutboxKept, Sync
    PROVE  OutboxKept'
<1>1. PICK n \in DOMAIN Followed : outbox' = Followed[n].box /\ known' = Followed[n].known
  BY DEF Sync, Keep
<1>2. outbox'.next <= MaxRows + 1 /\ UNCHANGED <<preferences, torn, facts, client, shown, told>>
  BY DEF Sync, Keep
<1>3. Reached(outbox') /\ known' \in Noted
  BY <1>1, FollowedReaches
<1>4. FactsFit(facts', known')
  BY <1>2, <1>3 DEF FactsFit, Noted, OutboxKept
<1> QED
  BY <1>2, <1>3, <1>4, ReachedKeeps

LEMMA StartDetoxKeeps ==
    ASSUME OutboxKept, StartDetox
    PROVE  OutboxKept'
<1> DEFINE noted == [LastNoted EXCEPT !.known.detox = TRUE]
           key == <<"detox_started">>
           last == IF On("detox_started") THEN Enqueue(noted, key) ELSE noted
<1>1. FactsFit(facts, known)
  BY DEF OutboxKept
<1>2. key \in Keys /\ Kind(key) = "detox_started"
  BY KeysHaveKinds
<1>3. Reached(outbox)
  BY DEF Reached, OutboxKept, Box
<1>4. State(LastNoted) /\ LastNoted.box = outbox
  BY <1>1 DEF LastNoted, State, FactsFit, Noted
<1>5. noted = [box |-> outbox, known |-> [LastNoted.known EXCEPT !.detox = TRUE]]
  <2>1. ASSUME NEW s, State(s), NEW source, NEW active
        PROVE  [s EXCEPT !.known[source] = active]
                 = [box |-> s.box, known |-> [s.known EXCEPT ![source] = active]]
    BY <2>1 DEF State
  <2>2. [LastNoted EXCEPT !.known["detox"] = TRUE]
          = [box |-> LastNoted.box, known |-> [LastNoted.known EXCEPT !["detox"] = TRUE]]
    BY <1>4, <2>1, ZenonT(60)
  <2> QED
    BY <1>4, <2>2
<1>6. State(noted) /\ noted.box = outbox
  <2>1. [LastNoted.known EXCEPT !.detox = TRUE] \in Noted
    BY <1>4 DEF State, Noted
  <2> QED
    BY <1>5, <2>1 DEF State
<1> HIDE DEF noted, key
<1>7. State(last) /\ Follows(outbox, last.box)
  <2>1. CASE On("detox_started")
    <3>1. last = [noted EXCEPT !.box = Enqueued(noted.box, key)]
      BY <2>1 DEF Enqueue
    <3> HIDE DEF last
    <3>2. last = [box |-> Enqueued(outbox, key), known |-> noted.known]
      BY <1>6, <3>1 DEF State
    <3>3. State(last) /\ last.box = Enqueued(outbox, key)
      BY <1>6, <3>2 DEF State
    <3> QED
      BY <1>2, <2>1, <3>3 DEF Follows
  <2>2. CASE ~ On("detox_started")
    <3>1. last = noted
      BY <2>2
    <3> HIDE DEF last
    <3> QED
      BY <1>6, <3>1 DEF Follows
  <2> QED
    BY <2>1, <2>2
<1>8. Reached(last.box)
  BY <1>3, <1>7, ReachedFollows
<1>9. Keep(<<LastNoted, noted, last>>)
  BY DEF StartDetox, noted, key
<1> HIDE DEF last
<1>10. /\ \/ outbox' = LastNoted.box /\ known' = LastNoted.known
          \/ outbox' = noted.box /\ known' = noted.known
          \/ outbox' = last.box /\ known' = last.known
       /\ outbox'.next <= MaxRows + 1
  BY <1>9 DEF Keep
<1>11. Reached(outbox') /\ known' \in Noted
  BY <1>3, <1>4, <1>6, <1>7, <1>8, <1>10 DEF State
<1>12. UNCHANGED <<preferences, torn, client, shown, told>>
  BY DEF StartDetox
<1>13. facts' = [facts EXCEPT !.detox = TRUE]
  BY DEF StartDetox
<1>14. FactsFit(facts', known')
  BY <1>1, <1>11, <1>13 DEF FactsFit, Noted
<1> QED
  BY <1>10, <1>11, <1>12, <1>14, ReachedKeeps

\* The facts turn, or are noted anew.
LEMMA FactsKeep ==
    ASSUME OutboxKept, FactsFit(facts', known'),
           UNCHANGED <<outbox, preferences, torn, client, shown, told>>
    PROVE  OutboxKept'
BY DEF OutboxKept, ShownOnce

LEMMA EditPolicyKeeps ==
    ASSUME OutboxKept, EditPolicy
    PROVE  OutboxKept'
<1>1. PICK active \in {TRUE, FALSE, None} :
        /\ facts' = [facts EXCEPT !.schedule = active]
        /\ known' \in {known, [known EXCEPT !.schedule = active]}
  BY DEF EditPolicy
<1>2. FactsFit(facts', known')
  BY <1>1 DEF OutboxKept, FactsFit
<1> QED
  BY <1>2, FactsKeep DEF EditPolicy

LEMMA TurnKeeps ==
    ASSUME OutboxKept, Turn
    PROVE  OutboxKept'
<1>0. FactsFit(facts, known) /\ MaxDay \in Nat /\ Full \in Nat
  BY Horizons DEF OutboxKept
<1>1. known' = known
  BY DEF Turn
<1>2. FactsFit(facts', known')
  <2>1. CASE facts.schedule # None /\ facts' = [facts EXCEPT !.schedule = ~@]
    BY <1>0, <1>1, <2>1 DEF FactsFit
  <2>2. CASE facts' = [facts EXCEPT !.detox = FALSE]
    BY <1>0, <1>1, <2>2 DEF FactsFit
  <2>3. CASE \E n \in 0..Full : facts' = [facts EXCEPT !.left = n]
    BY <1>0, <1>1, <2>3 DEF FactsFit
  <2>4. CASE facts.day < MaxDay /\ facts' = [facts EXCEPT !.day = @ + 1, !.left = Full]
    <3>1. facts.day + 1 \in 0..MaxDay
      BY <1>0, <2>4 DEF FactsFit
    <3> DEFINE tomorrow == facts.day + 1
    <3>2. facts' = [facts EXCEPT !.day = tomorrow, !.left = Full] /\ Full \in 0..Full
      BY <1>0, <2>4
    <3> HIDE DEF tomorrow
    <3>3. tomorrow \in 0..MaxDay
      BY <3>1 DEF tomorrow
    <3> QED
      BY <1>0, <1>1, <3>2, <3>3 DEF FactsFit
  <2> QED
    BY <2>1, <2>2, <2>3, <2>4 DEF Turn
<1> QED
  BY <1>2, FactsKeep DEF Turn

\* The rows after a statement that marks or deletes.
LEMMA MarkedKeepsBox ==
    ASSUME OutboxKept, NEW rows, Marked(outbox.rows, rows),
           outbox' = [outbox EXCEPT !.rows = rows]
    PROVE  /\ outbox'.rows = rows /\ outbox'.next = outbox.next
           /\ Box(outbox') /\ RowsKept(rows, told)
           /\ Silent(rows, preferences, torn) /\ Settled(rows, outbox.next, shown, client)
<1>1. /\ RowsFit(outbox.rows, outbox.next) /\ outbox.next \in Nat \ {0}
      /\ outbox = [rows |-> outbox.rows, next |-> outbox.next]
      /\ told \in [Keys -> (0..ToldHorizon) \cup {None}] /\ RowsKept(outbox.rows, told)
  BY DEF OutboxKept, Box, Since
<1>2. outbox' = [rows |-> rows, next |-> outbox.next]
  BY <1>1
<1>3. RowsFit(rows, outbox.next)
  BY <1>1, MarkedFits
<1>4. RowsKept(rows, told)
  BY <1>1, MarkedKeepsRows
<1>5. Silent(rows, preferences, torn)
  BY MarkedKeepsSilence DEF OutboxKept
<1>6. Settled(rows, outbox.next, shown, client)
  BY MarkedKeepsSettled DEF OutboxKept
<1>7. outbox'.rows = rows /\ outbox'.next = outbox.next
      /\ outbox' = [rows |-> outbox'.rows, next |-> outbox'.next]
  BY <1>2
<1>8. Box(outbox')
  BY <1>1, <1>3, <1>7 DEF Box
<1> QED
  BY <1>4, <1>5, <1>6, <1>7, <1>8

LEMMA SetPreferencesKeeps ==
    ASSUME OutboxKept, SetPreferences
    PROVE  OutboxKept'
<1> DEFINE Discarded(choice) ==
             {id \in DOMAIN outbox.rows :
                ~(choice.enabled /\ Kind(outbox.rows[id].key) \in choice.on)}
<1>1. PICK choice \in Savable, cut \in BOOLEAN :
        /\ preferences' = choice /\ torn' = cut
        /\ outbox' = IF cut THEN outbox
                     ELSE [outbox EXCEPT !.rows = Delivered(outbox.rows, Discarded(choice))]
        /\ UNCHANGED <<facts, known, client, shown, told>>
  BY DEF SetPreferences
<1>2. RowsFit(outbox.rows, outbox.next) /\ outbox.next \in Nat
  BY DEF OutboxKept, Box
<1>3. CASE cut
  <2>1. Silent(outbox.rows, preferences', torn')
    BY <1>1, <1>3 DEF Silent
  <2> QED
    BY <1>1, <1>3, <2>1 DEF OutboxKept, ShownOnce
<1>4. CASE ~ cut
  <2> DEFINE rows == Delivered(outbox.rows, Discarded(choice))
  <2>1. /\ Marked(outbox.rows, rows) /\ DOMAIN rows = DOMAIN outbox.rows
        /\ \A id \in DOMAIN outbox.rows : id \in Discarded(choice) => rows[id].delivered # None
    <3> HIDE DEF Discarded
    <3> QED
      BY <1>2, DeliveredMarks
  <2>2. \A id \in DOMAIN rows : /\ rows[id].key = outbox.rows[id].key
                                /\ rows[id].delivered = None => id \notin Discarded(choice)
    BY <2>1 DEF Marked
  <2>3. \A id \in DOMAIN rows :
          rows[id].delivered = None => choice.enabled /\ Kind(rows[id].key) \in choice.on
    BY <2>1, <2>2
  <2> HIDE DEF rows, Discarded
  <2>4. outbox' = [outbox EXCEPT !.rows = rows]
    BY <1>1, <1>4 DEF rows
  <2>5. /\ outbox'.rows = rows /\ outbox'.next = outbox.next
        /\ Box(outbox') /\ RowsKept(rows, told)
        /\ Settled(rows, outbox.next, shown, client)
    BY <2>1, <2>4, MarkedKeepsBox
  <2>6. Silent(rows, preferences', torn')
    BY <1>1, <2>3 DEF Silent
  <2> QED
    BY <1>1, <2>5, <2>6 DEF OutboxKept, ShownOnce
<1> QED
  BY <1>3, <1>4

LEMMA StartClientKeeps ==
    ASSUME OutboxKept, StartClient
    PROVE  OutboxKept'
<1>1. client' = [at |-> "idle", age |-> 0, batch |-> <<>>, accepted |-> FALSE]
      /\ client.at = "off"
  BY DEF StartClient, Off
<1>2. LoopFits(client', outbox.next)
  BY <1>1, Horizons DEF LoopFits
<1>3. StillNew(client', shown)
  BY <1>1 DEF StillNew
<1>4. Settled(outbox.rows, outbox.next, shown, client')
  <2>1. Settled(outbox.rows, outbox.next, shown, client) /\ client.at # "record"
    BY <1>1 DEF OutboxKept
  <2> QED
    BY <2>1 DEF Settled
<1> QED
  BY <1>2, <1>3, <1>4 DEF StartClient, OutboxKept, ShownOnce

\* The head of a batch.
LEMMA HeadIsGiven ==
    ASSUME OutboxKept, client.batch # <<>>
    PROVE  /\ Head(client.batch) = client.batch[1] /\ Head(client.batch) \in 1..MaxRows
           /\ Head(client.batch) < outbox.next /\ 1 \in 1..Len(client.batch)
           /\ client.batch \in Seq(Nat)
<1>1. /\ client.batch \in Seq(Nat)
      /\ \A i \in 1..Len(client.batch) : 1 <= client.batch[i] /\ client.batch[i] < outbox.next
  BY DEF OutboxKept, LoopFits
<1>2. 1 \in 1..Len(client.batch) /\ Head(client.batch) = client.batch[1]
  BY <1>1
<1>3. outbox.next \in Nat /\ outbox.next <= MaxRows + 1 /\ MaxRows \in Nat
  BY Horizons DEF OutboxKept, Box
<1> QED
  BY <1>1, <1>2, <1>3

\* A display whose report is lost is known to be so.
LEMMA LostReport ==
    ASSUME OutboxKept, client.batch # <<>>,
           shown' = [shown EXCEPT ![Head(client.batch)].unrecorded = TRUE]
    PROVE  /\ shown' \in Displays
           /\ \A id \in 1..MaxRows : /\ shown'[id].times = shown[id].times
                                     /\ shown[id].unrecorded => shown'[id].unrecorded
           /\ shown'[Head(client.batch)].unrecorded
<1>1. Head(client.batch) \in 1..MaxRows
  BY HeadIsGiven
<1>2. shown \in [1..MaxRows -> [times : 0..2, unrecorded : BOOLEAN]]
  BY DEF OutboxKept, Displays
<1> QED
  BY <1>1, <1>2 DEF Displays

LEMMA CloseClientKeeps ==
    ASSUME OutboxKept, CloseClient
    PROVE  OutboxKept'
<1>1. client' = [at |-> "off", age |-> 0, batch |-> <<>>, accepted |-> FALSE]
  BY DEF CloseClient, Off
<1>2. LoopFits(client', outbox.next)
  BY <1>1, Horizons DEF LoopFits
<1>3. StillNew(client', shown')
  BY <1>1 DEF StillNew
<1>4. Settled(outbox.rows, outbox.next, shown, client) /\ ShownOnce /\ shown \in Displays
  BY DEF OutboxKept
<1>5. CASE client.at = "record" /\ client.accepted
  <2>1. client.batch # <<>>
    BY <1>5 DEF OutboxKept, LoopFits
  <2>2. shown' = [shown EXCEPT ![Head(client.batch)].unrecorded = TRUE]
    BY <1>5 DEF CloseClient
  <2>3. /\ shown' \in Displays
        /\ \A id \in 1..MaxRows : /\ shown'[id].times = shown[id].times
                                  /\ shown[id].unrecorded => shown'[id].unrecorded
        /\ shown'[Head(client.batch)].unrecorded
    BY <2>1, <2>2, LostReport
  <2>4. Settled(outbox.rows, outbox.next, shown', client')
    BY <1>4, <2>3 DEF Settled
  <2>5. ShownOnce'
    BY <1>4, <2>3 DEF ShownOnce
  <2> QED
    BY <1>2, <1>3, <2>3, <2>4, <2>5 DEF CloseClient, OutboxKept
<1>6. CASE ~ (client.at = "record" /\ client.accepted)
  <2>1. shown' = shown
    BY <1>6 DEF CloseClient
  <2>2. Settled(outbox.rows, outbox.next, shown, client')
    BY <1>4, <1>6 DEF Settled
  <2> QED
    BY <1>2, <1>3, <1>4, <2>1, <2>2 DEF CloseClient, OutboxKept, ShownOnce
<1> QED
  BY <1>5, <1>6

\* What a poll returns was not shown, unless its report was lost.
LEMMA PollKeeps ==
    ASSUME OutboxKept, Poll
    PROVE  OutboxKept'
<1> DEFINE rows == Polled(outbox.rows, client.age)
           ids == Pending(rows)
<1>0. RowsFit(outbox.rows, outbox.next) /\ outbox.next \in Nat \ {0}
      /\ MaxRows \in Nat /\ outbox.next <= MaxRows + 1
  BY Horizons DEF OutboxKept, Box
<1>1. Marked(outbox.rows, rows)
  BY <1>0, PolledMarks
<1>2. /\ outbox' = [outbox EXCEPT !.rows = rows] /\ client.at = "idle"
      /\ UNCHANGED <<preferences, torn, facts, known, shown, told>>
  BY DEF Poll
<1>3. PICK taken \in {FirstOf(ids), <<>>} :
        client' = [client EXCEPT !.batch = taken, !.at = IF taken = <<>> THEN "idle" ELSE "show"]
  BY DEF Poll
<1>4. \A id \in ids : id \in DOMAIN rows /\ rows[id].delivered = None
  BY DEF Pending
<1>5. DOMAIN rows \subseteq 1..(outbox.next - 1)
  BY <1>0, <1>1 DEF Marked, RowsFit
<1> HIDE DEF rows, ids
<1>6. /\ outbox'.rows = rows /\ outbox'.next = outbox.next
      /\ Box(outbox') /\ RowsKept(rows, told)
      /\ Silent(rows, preferences, torn) /\ Settled(rows, outbox.next, shown, client)
  BY <1>1, <1>2, MarkedKeepsBox
<1>7. /\ taken \in Seq(ids) /\ Len(taken) <= Limit
      /\ \A i, j \in 1..Len(taken) : i < j => taken[i] < taken[j]
  <2>1. CASE taken = FirstOf(ids)
    <3>1. ids \in SUBSET (1..(outbox.next - 1)) /\ outbox.next - 1 \in Nat
      BY <1>0, <1>4, <1>5
    <3> QED
      BY <2>1, <3>1, FirstOfInOrder
  <2>2. CASE taken = <<>>
    BY <2>2, Horizons
  <2> QED
    BY <2>1, <2>2
<1>8. \A i \in 1..Len(taken) : taken[i] \in ids /\ taken[i] \in 1..(outbox.next - 1)
  BY <1>4, <1>5, <1>7
<1>9. /\ client'.batch = taken /\ client'.age = client.age /\ client'.accepted = client.accepted
      /\ client'.at = IF taken = <<>> THEN "idle" ELSE "show"
      /\ client' \in [at : {"off", "idle", "show", "record"}, age : 0..RowHorizon,
                      batch : Seq(Nat), accepted : BOOLEAN]
  <2>1. client \in [at : {"off", "idle", "show", "record"}, age : 0..RowHorizon,
                    batch : Seq(Nat), accepted : BOOLEAN]
    BY DEF OutboxKept, LoopFits
  <2>2. taken \in Seq(Nat)
    BY <1>0, <1>7, <1>8
  <2> QED
    BY <1>3, <2>1, <2>2
<1>10. LoopFits(client', outbox.next)
  <2>1. \A i \in 1..Len(taken) : 1 <= taken[i] /\ taken[i] < outbox.next
    BY <1>0, <1>8
  <2> QED
    BY <1>7, <1>9, <2>1 DEF LoopFits
<1>11. StillNew(client', shown)
  <2> SUFFICES ASSUME NEW i \in 1..Len(taken), shown[taken[i]].times >= 1
               PROVE  shown[taken[i]].unrecorded
    BY <1>9 DEF StillNew
  <2>1. /\ taken[i] \in 1..MaxRows
        /\ taken[i] \in DOMAIN rows /\ rows[taken[i]].delivered = None
    BY <1>0, <1>4, <1>8
  <2>2. client.at # "record"
    BY <1>2
  <2> QED
    BY <1>6, <2>1, <2>2 DEF Settled
<1>12. Settled(rows, outbox.next, shown, client')
  <2>1. client.at # "record"
    BY <1>2
  <2> QED
    BY <1>6, <2>1 DEF Settled
<1> QED
  BY <1>2, <1>6, <1>10, <1>11, <1>12 DEF OutboxKept, ShownOnce

\* What is shown is counted, up to twice.
LEMMA ShowKeeps ==
    ASSUME OutboxKept, Show
    PROVE  OutboxKept'
<1> DEFINE head == Head(client.batch)
<1>1. client.at = "show" /\ client.batch # <<>>
  BY DEF Show, OutboxKept, LoopFits
<1>2. PICK accepted \in BOOLEAN :
        /\ client' = [client EXCEPT !.at = "record", !.accepted = accepted]
        /\ shown' = IF accepted /\ shown[head].times < 2
                    THEN [shown EXCEPT ![head].times = @ + 1] ELSE shown
  BY DEF Show
<1>3. UNCHANGED <<outbox, preferences, torn, facts, known, told>>
  BY DEF Show
<1>4. /\ head = client.batch[1] /\ head \in 1..MaxRows /\ head < outbox.next
      /\ 1 \in 1..Len(client.batch) /\ client.batch \in Seq(Nat)
  BY <1>1, HeadIsGiven
<1>5. shown \in [1..MaxRows -> [times : 0..2, unrecorded : BOOLEAN]]
  BY DEF OutboxKept, Displays
<1>6. shown[head].times >= 1 => shown[head].unrecorded
  BY <1>1, <1>4 DEF OutboxKept, StillNew
<1>7. /\ client'.at = "record" /\ client'.batch = client.batch /\ client'.accepted = accepted
      /\ client' \in [at : {"off", "idle", "show", "record"}, age : 0..RowHorizon,
                      batch : Seq(Nat), accepted : BOOLEAN]
  BY <1>2 DEF OutboxKept, LoopFits
<1> HIDE DEF head
<1>8. /\ shown' \in [1..MaxRows -> [times : 0..2, unrecorded : BOOLEAN]]
      /\ \A id \in 1..MaxRows : id # head => shown'[id] = shown[id]
      /\ shown'[head].unrecorded = shown[head].unrecorded
      /\ ~ accepted => shown' = shown
  <2>1. CASE accepted /\ shown[head].times < 2
    <3> DEFINE once == shown[head].times + 1
    <3>1. shown' = [shown EXCEPT ![head].times = once]
      BY <1>2, <2>1
    <3>2. once \in 0..2
      <4>1. shown[head].times \in 0..2
        BY <1>4, <1>5
      <4> QED
        BY <4>1, <2>1
    <3> HIDE DEF once
    <3> QED
      BY <1>4, <1>5, <2>1, <3>1, <3>2
  <2>2. CASE ~ (accepted /\ shown[head].times < 2)
    BY <1>2, <1>5, <2>2
  <2> QED
    BY <2>1, <2>2
<1>9. LoopFits(client', outbox.next)
  <2>1. client.batch # <<>>
    BY <1>1
  <2> QED
    BY <1>7, <2>1 DEF OutboxKept, LoopFits
<1>10. StillNew(client', shown')
  <2> SUFFICES ASSUME NEW i \in 1..Len(client.batch), i > 1,
                      shown'[client.batch[i]].times >= 1
               PROVE  shown'[client.batch[i]].unrecorded
    BY <1>7 DEF StillNew
  <2>1. client.batch[1] < client.batch[i]
    BY <1>4 DEF OutboxKept, LoopFits
  <2>2. client.batch[i] # head /\ client.batch[i] \in 1..MaxRows
    <3>1. client.batch[i] \in Nat /\ client.batch[1] \in Nat
      BY <1>4
    <3>2. 1 <= client.batch[i] /\ client.batch[i] < outbox.next /\ outbox.next <= MaxRows + 1
          /\ outbox.next \in Nat /\ MaxRows \in Nat
      BY Horizons DEF OutboxKept, LoopFits, Box
    <3> QED
      BY <1>4, <2>1, <3>1, <3>2
  <2>3. shown'[client.batch[i]] = shown[client.batch[i]]
    BY <1>8, <2>2
  <2> QED
    BY <1>1, <2>3 DEF OutboxKept, StillNew
<1>11. Settled(outbox.rows, outbox.next, shown', client')
  <2> SUFFICES ASSUME NEW id \in 1..MaxRows
               PROVE  /\ id >= outbox.next => shown'[id].times = 0
                      /\ shown'[id].times >= 1 /\ ~ shown'[id].unrecorded
                           => \/ client'.at = "record" /\ client'.accepted
                                 /\ Head(client'.batch) = id
                              \/ id \notin DOMAIN outbox.rows
                              \/ outbox.rows[id].delivered # None
    BY DEF Settled
  <2>1. /\ id >= outbox.next => shown[id].times = 0
        /\ shown[id].times >= 1 /\ ~ shown[id].unrecorded
             => id \notin DOMAIN outbox.rows \/ outbox.rows[id].delivered # None
    BY <1>1 DEF OutboxKept, Settled
  <2>2. CASE id # head
    BY <1>8, <2>1, <2>2
  <2>3. CASE id = head
    <3>1. ~ (id >= outbox.next)
      BY <1>4, <2>3 DEF OutboxKept, Box
    <3>2. CASE accepted
      <4>1. client'.at = "record" /\ client'.accepted /\ Head(client'.batch) = id
        BY <1>7, <2>3, <3>2 DEF head
      <4> QED
        BY <3>1, <4>1
    <3>3. CASE ~ accepted
      BY <1>8, <2>1, <3>1, <3>3
    <3> QED
      BY <3>2, <3>3
  <2> QED
    BY <2>2, <2>3
<1>12. ShownOnce'
  <2> SUFFICES ASSUME NEW id \in 1..MaxRows, shown'[id].times > 1
               PROVE  shown'[id].unrecorded
    BY DEF ShownOnce
  <2>1. CASE id # head
    BY <1>8, <2>1 DEF OutboxKept, ShownOnce
  <2>2. CASE id = head
    <3>1. shown[head].times >= 1
      <4>1. CASE shown[head].times = 0
        <5>1. shown'[head].times <= 1
          BY <1>2, <1>4, <1>5, <4>1
        <5>2. shown'[head].times \in 0..2
          BY <1>4, <1>8
        <5> QED
          BY <2>2, <5>1, <5>2
      <4>2. shown[head].times \in 0..2
        BY <1>4, <1>5
      <4> QED
        BY <4>1, <4>2
    <3> QED
      BY <1>6, <1>8, <2>2, <3>1
  <2> QED
    BY <2>1, <2>2
<1> QED
  BY <1>3, <1>8, <1>9, <1>10, <1>11, <1>12 DEF OutboxKept, Displays

\* What is left of a batch.
LEMMA RestOfBatch ==
    ASSUME OutboxKept, client.at = "record", client.batch # <<>>,
           client' = [client EXCEPT !.batch = Tail(client.batch), !.accepted = FALSE,
                                    !.at = IF Tail(client.batch) = <<>> THEN "idle" ELSE "show"]
    PROVE  /\ LoopFits(client', outbox.next) /\ client'.at # "record"
           /\ \A displays :
                (\A id \in 1..MaxRows : /\ displays[id].times = shown[id].times
                                        /\ shown[id].unrecorded => displays[id].unrecorded)
                  => StillNew(client', displays)
<1> DEFINE rest == Tail(client.batch)
           taken == client.batch
<1>1. /\ client \in [at : {"off", "idle", "show", "record"}, age : 0..RowHorizon,
                     batch : Seq(Nat), accepted : BOOLEAN]
      /\ Len(taken) <= Limit /\ Limit \in Nat
      /\ \A i \in 1..Len(taken) : 1 <= taken[i] /\ taken[i] < outbox.next
      /\ \A i, j \in 1..Len(taken) : i < j => taken[i] < taken[j]
      /\ outbox.next \in Nat /\ outbox.next <= MaxRows + 1 /\ MaxRows \in Nat
  BY Horizons DEF OutboxKept, LoopFits, Box
<1>2. taken \in Seq(Nat) /\ taken # <<>>
  BY <1>1
<1>3. /\ rest \in Seq(Nat) /\ Len(rest) = Len(taken) - 1 /\ Len(taken) \in Nat
      /\ \A i \in 1..Len(rest) : i + 1 \in 1..Len(taken) /\ rest[i] = taken[i + 1]
  <2>1. /\ rest \in Seq(Nat) /\ Len(rest) = Len(taken) - 1
        /\ \A i \in 1..Len(rest) : rest[i] = taken[i + 1]
    BY <1>2, HeadTailProperties
  <2> HIDE DEF taken, rest
  <2>2. Len(taken) \in Nat
    BY <1>2
  <2> QED
    BY <2>1, <2>2
<1> HIDE DEF rest, taken
<1>4. /\ client'.batch = rest /\ client'.at = IF rest = <<>> THEN "idle" ELSE "show"
      /\ client' \in [at : {"off", "idle", "show", "record"}, age : 0..RowHorizon,
                      batch : Seq(Nat), accepted : BOOLEAN]
  BY <1>1, <1>3 DEF rest, taken
<1>5. LoopFits(client', outbox.next)
  <2>1. \A i \in 1..Len(rest) : 1 <= rest[i] /\ rest[i] < outbox.next
    BY <1>1, <1>3
  <2>2. ASSUME NEW i \in 1..Len(rest), NEW j \in 1..Len(rest), i < j
        PROVE  rest[i] < rest[j]
    <3>1. i + 1 \in 1..Len(taken) /\ j + 1 \in 1..Len(taken) /\ i + 1 < j + 1
      BY <1>3, <2>2
    <3>2. rest[i] = taken[i + 1] /\ rest[j] = taken[j + 1]
      BY <1>3
    <3> QED
      BY <1>1, <3>1, <3>2
  <2>3. Len(rest) <= Limit
    BY <1>1, <1>3
  <2> QED
    BY <1>4, <2>1, <2>2, <2>3 DEF LoopFits
<1>6. ASSUME NEW displays,
             \A id \in 1..MaxRows : /\ displays[id].times = shown[id].times
                                    /\ shown[id].unrecorded => displays[id].unrecorded
      PROVE  StillNew(client', displays)
  <2> SUFFICES ASSUME NEW i \in 1..Len(rest), displays[rest[i]].times >= 1
               PROVE  displays[rest[i]].unrecorded
    BY <1>4 DEF StillNew
  <2>1. i + 1 \in 1..Len(taken) /\ rest[i] = taken[i + 1] /\ i + 1 > 1
    BY <1>3
  <2>2. taken[i + 1] \in 1..MaxRows
    <3>1. 1 <= taken[i + 1] /\ taken[i + 1] < outbox.next
      BY <1>1, <2>1
    <3>2. taken[i + 1] \in Nat
      BY <1>2, <2>1
    <3>3. outbox.next \in Nat /\ outbox.next <= MaxRows + 1 /\ MaxRows \in Nat
      BY <1>1
    <3> QED
      BY <3>1, <3>2, <3>3
  <2>3. shown[taken[i + 1]].times >= 1 => shown[taken[i + 1]].unrecorded
    BY <2>1 DEF OutboxKept, StillNew, taken
  <2> QED
    BY <1>6, <2>1, <2>2, <2>3
<1>7. client'.at # "record"
  BY <1>4
<1> QED
  BY <1>5, <1>6, <1>7

\* A result is recorded, or lost.
LEMMA RecordResultKeeps ==
    ASSUME OutboxKept, RecordResult
    PROVE  OutboxKept'
<1> DEFINE id == Head(client.batch)
           rows == WithResult(outbox.rows, id, client.accepted)
<1>1. client.at = "record" /\ client.batch # <<>>
  BY DEF RecordResult, OutboxKept, LoopFits
<1>2. /\ client' = [client EXCEPT !.batch = Tail(client.batch), !.accepted = FALSE,
                                  !.at = IF Tail(client.batch) = <<>> THEN "idle" ELSE "show"]
      /\ UNCHANGED <<preferences, torn, facts, known>>
  BY DEF RecordResult
<1>3. /\ LoopFits(client', outbox.next) /\ client'.at # "record"
      /\ \A displays :
           (\A k \in 1..MaxRows : /\ displays[k].times = shown[k].times
                                  /\ shown[k].unrecorded => displays[k].unrecorded)
             => StillNew(client', displays)
  BY <1>1, <1>2, RestOfBatch
<1>4. id \in 1..MaxRows /\ client.accepted \in BOOLEAN
  BY <1>1, HeadIsGiven DEF OutboxKept, LoopFits
<1>5. /\ RowsFit(outbox.rows, outbox.next) /\ outbox.next \in Nat
      /\ told \in [Keys -> (0..ToldHorizon) \cup {None}]
      /\ ShownOnce /\ shown \in Displays
      /\ Settled(outbox.rows, outbox.next, shown, client)
  BY DEF OutboxKept, Box, Since
<1>6. CASE /\ outbox' = [outbox EXCEPT !.rows = WithResult(@, id, client.accepted)]
           /\ told' = IF client.accepted /\ id \in DOMAIN outbox.rows
                      THEN [told EXCEPT ![outbox.rows[id].key] =
                              Newer(@, SinceEvent(outbox.rows[id]))]
                      ELSE told
           /\ UNCHANGED shown
  <2>1. /\ Marked(outbox.rows, rows) /\ DOMAIN rows = DOMAIN outbox.rows
        /\ client.accepted /\ id \in DOMAIN outbox.rows => rows[id].delivered # None
    BY <1>4, <1>5, RecordedMarks
  <2>2. outbox' = [outbox EXCEPT !.rows = rows]
    BY <1>6
  <2> HIDE DEF rows, id
  <2>3. /\ outbox'.rows = rows /\ outbox'.next = outbox.next
        /\ Box(outbox') /\ RowsKept(rows, told)
        /\ Silent(rows, preferences, torn) /\ Settled(rows, outbox.next, shown, client)
    BY <2>1, <2>2, MarkedKeepsBox
  <2>4. told' \in Since /\ RowsKept(rows, told')
    <3>1. CASE client.accepted /\ id \in DOMAIN outbox.rows
      <4> DEFINE event == SinceEvent(outbox.rows[id])
      <4>1. RowsFit(rows, outbox.next)
        BY <1>5, <2>1, MarkedFits
      <4>2. rows[id].key = outbox.rows[id].key /\ rows[id].age = outbox.rows[id].age
            /\ id \in DOMAIN rows /\ rows[id].delivered # None
        BY <2>1, <3>1 DEF Marked
      <4>3. event = IF rows[id].age = RowHorizon THEN ToldHorizon ELSE rows[id].age
        BY <4>2 DEF SinceEvent
      <4>4. told' = [told EXCEPT ![rows[id].key] = Newer(@, event)]
        BY <1>6, <3>1, <4>2
      <4> HIDE DEF event
      <4>5. LET now == [told EXCEPT ![rows[id].key] = Newer(@, event)]
            IN  now \in [Keys -> (0..ToldHorizon) \cup {None}] /\ RowsKept(rows, now)
        BY <1>5, <2>3, <4>1, <4>2, <4>3, ToldKeepsRows
      <4> QED
        BY <4>4, <4>5 DEF Since
    <3>2. CASE ~ (client.accepted /\ id \in DOMAIN outbox.rows)
      BY <1>5, <1>6, <2>3, <3>2 DEF Since
    <3> QED
      BY <3>1, <3>2
  <2>5. Settled(rows, outbox.next, shown, client')
    <3> SUFFICES ASSUME NEW k \in 1..MaxRows
                 PROVE  /\ k >= outbox.next => shown[k].times = 0
                        /\ shown[k].times >= 1 /\ ~ shown[k].unrecorded
                             => \/ client'.at = "record" /\ client'.accepted
                                   /\ Head(client'.batch) = k
                                \/ k \notin DOMAIN rows
                                \/ rows[k].delivered # None
      BY DEF Settled
    <3>1. CASE client.accepted /\ id = k
      BY <1>5, <2>1, <3>1 DEF Settled
    <3>2. CASE ~ (client.accepted /\ id = k)
      BY <2>3, <3>2 DEF Settled, id
    <3> QED
      BY <3>1, <3>2
  <2>6. StillNew(client', shown)
    BY <1>3
  <2> QED
    BY <1>2, <1>3, <1>5, <1>6, <2>3, <2>4, <2>5, <2>6 DEF OutboxKept, ShownOnce
<1>7. CASE /\ shown' = IF client.accepted THEN [shown EXCEPT ![id].unrecorded = TRUE] ELSE shown
           /\ UNCHANGED <<outbox, told>>
  <2>1. /\ shown' \in Displays
        /\ \A k \in 1..MaxRows : /\ shown'[k].times = shown[k].times
                                 /\ shown[k].unrecorded => shown'[k].unrecorded
        /\ client.accepted => shown'[id].unrecorded
    <3>1. CASE client.accepted
      BY <1>1, <1>7, <3>1, LostReport
    <3>2. CASE ~ client.accepted
      BY <1>5, <1>7, <3>2
    <3> QED
      BY <3>1, <3>2
  <2>2. Settled(outbox.rows, outbox.next, shown', client')
    BY <1>5, <2>1 DEF Settled
  <2>3. StillNew(client', shown')
    BY <1>3, <2>1
  <2>4. ShownOnce'
    BY <1>5, <2>1 DEF ShownOnce
  <2> QED
    BY <1>2, <1>3, <1>7, <2>1, <2>2, <2>3, <2>4 DEF OutboxKept
<1> QED
  BY <1>6, <1>7 DEF RecordResult

LEMMA OutboxTickKeeps ==
    ASSUME OutboxKept, OutboxTick
    PROVE  OutboxKept'
<1> DEFINE older == [id \in DOMAIN outbox.rows |-> Older(outbox.rows[id])]
<1>1. /\ RowsFit(outbox.rows, outbox.next) /\ outbox.next \in Nat \ {0}
      /\ outbox = [rows |-> outbox.rows, next |-> outbox.next]
      /\ told \in [Keys -> (0..ToldHorizon) \cup {None}] /\ RowsKept(outbox.rows, told)
  BY DEF OutboxKept, Box, Since
<1>2. /\ outbox' = [outbox EXCEPT !.rows = older]
      /\ told' = [key \in Keys |-> Aged(told[key], ToldHorizon)]
      /\ UNCHANGED <<preferences, torn, facts, known, shown>>
  BY DEF OutboxTick
<1>3. /\ RowsFit(older, outbox.next) /\ told' \in [Keys -> (0..ToldHorizon) \cup {None}]
      /\ RowsKept(older, told') /\ DOMAIN older = DOMAIN outbox.rows
      /\ \A id \in DOMAIN outbox.rows :
           /\ older[id].key = outbox.rows[id].key
           /\ older[id].delivered = None <=> outbox.rows[id].delivered = None
  BY <1>1, <1>2, TickKeepsRows
<1> HIDE DEF older
<1>4. outbox' = [rows |-> older, next |-> outbox.next]
  BY <1>1, <1>2
<1>5. outbox'.rows = older /\ outbox'.next = outbox.next /\ Box(outbox')
  BY <1>1, <1>3, <1>4 DEF Box
<1>6. Silent(older, preferences, torn)
  BY <1>3 DEF OutboxKept, Silent
<1> DEFINE age == IF client.at = "off" THEN 0 ELSE Aged(client.age, RowHorizon)
<1>7. client \in [at : {"off", "idle", "show", "record"}, age : 0..RowHorizon,
                  batch : Seq(Nat), accepted : BOOLEAN]
  BY DEF OutboxKept, LoopFits
<1>8. age \in 0..RowHorizon
  <2>1. client.age \in 0..RowHorizon /\ RowHorizon \in Nat /\ None \notin Nat
    BY <1>7, Horizons
  <2> QED
    BY <2>1 DEF Aged
<1>9. client' = [client EXCEPT !.age = age]
  BY DEF OutboxTick
<1> HIDE DEF age
<1>10. /\ client'.at = client.at /\ client'.batch = client.batch
       /\ client'.accepted = client.accepted
       /\ client' \in [at : {"off", "idle", "show", "record"}, age : 0..RowHorizon,
                       batch : Seq(Nat), accepted : BOOLEAN]
  BY <1>7, <1>8, <1>9
<1>11. LoopFits(client', outbox.next) /\ StillNew(client', shown)
  BY <1>10 DEF OutboxKept, LoopFits, StillNew
<1>12. Settled(older, outbox.next, shown, client')
  BY <1>3, <1>10 DEF OutboxKept, Settled
<1> QED
  BY <1>2, <1>3, <1>5, <1>6, <1>11, <1>12 DEF OutboxKept, Since, ShownOnce

\* Every step keeps the invariant.
LEMMA OutboxStepKeeps ==
    ASSUME OutboxKept, [OutboxNext]_outboxVars
    PROVE  OutboxKept'
<1>1. CASE UNCHANGED outboxVars
  BY <1>1 DEF OutboxKept, outboxVars, ShownOnce
<1>2. CASE OutboxNext
  <2>1. CASE \E kind \in BlockKinds : Block(kind)
    BY <2>1, BlockKeeps
  <2>2. CASE Sync
    BY <2>2, SyncKeeps
  <2>3. CASE StartDetox
    BY <2>3, StartDetoxKeeps
  <2>4. CASE EditPolicy
    BY <2>4, EditPolicyKeeps
  <2>5. CASE SetPreferences
    BY <2>5, SetPreferencesKeeps
  <2>6. CASE Turn
    BY <2>6, TurnKeeps
  <2>7. CASE StartClient
    BY <2>7, StartClientKeeps
  <2>8. CASE CloseClient
    BY <2>8, CloseClientKeeps
  <2>9. CASE Poll
    BY <2>9, PollKeeps
  <2>10. CASE Show
    BY <2>10, ShowKeeps
  <2>11. CASE RecordResult
    BY <2>11, RecordResultKeeps
  <2>12. CASE OutboxTick
    BY <2>12, OutboxTickKeeps
  <2> QED
    BY <1>2, <2>1, <2>2, <2>3, <2>4, <2>5, <2>6, <2>7, <2>8, <2>9, <2>10, <2>11, <2>12
    DEF OutboxNext, Deliver
<1> QED
  BY <1>1, <1>2

\* What waits to be shown was not shown before, repeats nothing the user was just told
\* and was not turned off: OutboxInvariant, of every schedule of the daemon, the
\* application, the losses and the crashes.
THEOREM NothingIsRepeated == OutboxSpec => []OutboxInvariant
<1>1. OutboxInit => OutboxKept
  BY OutboxStarts
<1>2. OutboxKept /\ [OutboxNext]_outboxVars => OutboxKept'
  BY OutboxStepKeeps
<1>3. OutboxKept => OutboxInvariant
  BY OutboxIsKept
<1> QED
  BY <1>1, <1>2, <1>3, PTL DEF OutboxSpec

\* The step that takes note of a schedule's turn has queued it: TurnsAreTold.
LEMMA NotedIsQueued ==
    ASSUME OutboxKept, Sync, None \notin {known.schedule, known'.schedule},
           known'.schedule # known.schedule,
           NEW kind, kind = IF known'.schedule THEN "schedule_started" ELSE "schedule_ended"
    PROVE  ~ On(kind) \/ Duplicate(outbox', <<kind>>)
<1>1. PICK n \in DOMAIN Followed : outbox' = Followed[n].box /\ known' = Followed[n].known
  BY DEF Sync, Keep
<1>2. /\ known'.schedule = facts.schedule
      /\ Flipped(LastNoted, "schedule") /\ On(KindOf("schedule"))
           => Duplicate(outbox', <<KindOf("schedule")>>)
  BY <1>1, FollowedReaches
<1>3. Flipped(LastNoted, "schedule")
  BY <1>2 DEF Flipped, LastNoted
<1>4. kind = KindOf("schedule")
  BY <1>2 DEF KindOf, Lifecycle
<1> QED
  BY <1>2, <1>3, <1>4

\* No turn of a schedule is noted without a notification of it: TurnsAreTold.
THEOREM NoTurnIsForgotten == OutboxSpec => TurnsAreTold
<1>1. OutboxInit => OutboxKept
  BY OutboxStarts
<1>2. OutboxKept /\ [OutboxNext]_outboxVars => OutboxKept'
  BY OutboxStepKeeps
<1> DEFINE Told == Sync /\ None \notin {known.schedule, known'.schedule}
                        /\ known'.schedule # known.schedule
                   => LET kind == IF known'.schedule THEN "schedule_started"
                                  ELSE "schedule_ended"
                      IN  ~On(kind) \/ Duplicate(outbox', <<kind>>)
<1>3. OutboxKept => Told
  BY NotedIsQueued
<1>4. OutboxKept /\ [OutboxNext]_outboxVars => [Told]_outboxVars
  BY <1>3
<1>5. [][Told]_outboxVars <=> TurnsAreTold
  BY DEF TurnsAreTold
<1> QED
  BY <1>1, <1>2, <1>4, <1>5, PTL DEF OutboxSpec
================================================================================
