----------------------- MODULE PolicyPersistenceProofs -----------------------
(* Theorems about PolicyPersistence, for every set of policies and tools,    *)
(* every number of edits, failures, crashes and losses.                      *)
EXTENDS PolicyPersistence, TLAPS

-----------------------------------------------------------------------------
(* The inductive invariant.                                                 *)

Opened == {"rule", "clear", "rename", "protect", "loaded"}
Writing == {"clear", "rename", "protect"}

\* What a process that starts has found, persisted and written so far.
StartKept(p) == proc[p].doing = "start" =>
    /\ proc[p].at \in {"off", "lock", "open", "load", "serving"} \cup Opened
    /\ proc[p].at \in {"off", "lock", "open", "serving"} => ~proc[p].fresh
    /\ proc[p].at = "load" /\ proc[p].fresh => db = NoPolicy
    /\ proc[p].at \in Opened \cup {"load"} => db # NoFile
    /\ proc[p].at \in Opened =>
         /\ proc[p].policy \in Policies
         /\ Persists(p) => db = proc[p].policy
    /\ proc[p].at \in Writing => Persists(p)
    /\ proc[p].at \in Writing \cup {"loaded"} =>
         WithBrowserRule[proc[p].policy] = proc[p].policy
    /\ proc[p].at = "protect" =>
         IF proc[p].renamed THEN snapshot = proc[p].policy ELSE count.file # 0
    /\ proc[p].at = "loaded" /\ Persists(p) =>
         /\ snapshot = proc[p].policy
         /\ count.file = 0 => protected = Immutable

\* Tools only start, and create no database the daemon has in force.
ToolsKept == \A p \in Tools :
    /\ proc[p].doing = "start" /\ proc[p].at # "serving"
    /\ memory # None => ~proc[p].fresh

\* The daemon that serves has its policy in the database, and while no step on
\* the snapshot has failed, the snapshot is that policy except while it is
\* being replaced.
Current == count.file = 0 => snapshot = memory /\ protected = Immutable

Serves == proc[Daemon].at = "serving" \/ proc[Daemon].doing # "start"

ServingKept ==
    LET d == proc[Daemon]
    IN  /\ memory # None <=> Serves
        /\ Serves => /\ memory \in Policies /\ memory \in standing /\ db = memory
                     /\ snapshot # None
        /\ d.at = "serving" => Current /\ d.doing = "start"
        /\ d.doing = "edit" =>
             /\ d.at \in Writing \cup {"asked", "totals", "commit", "totalsAfter"}
             /\ d.next \in Policies /\ d.next \in standing /\ d.policy = d.next
             /\ d.at # "totalsAfter" => d.old = memory
             /\ d.at \in {"asked", "totals"} => Current
             /\ d.at = "protect" =>
                  IF d.renamed THEN snapshot = d.policy ELSE count.file # 0
             /\ d.at \in {"commit", "totalsAfter"} =>
                  /\ snapshot = d.next
                  /\ count.file = 0 => protected = Immutable
             /\ d.at = "totalsAfter" => memory = d.next
        /\ d.doing = "rollback" =>
             /\ d.at \in Writing
             /\ d.policy = memory
             /\ d.at = "protect" =>
                  IF d.renamed THEN snapshot = d.policy ELSE count.file # 0

\* What a start may find: a policy that stands, or one given its rule.
Stood == standing \cup {WithBrowserRule[q] : q \in standing}

FoundKept ==
    /\ (count.file = 0 \/ count.losses = 0) /\ db \in Policies => db \in Stood
    /\ count.file = 0 /\ snapshot # None => snapshot \in Stood
    /\ count.losses = 0 /\ snapshot # None => db \in Policies
    /\ snapshot = None => standing = {Baseline}

PersistenceKept ==
    /\ PersistenceTypeOK
    /\ \A p \in Processes : StartKept(p)
    /\ ToolsKept /\ ServingKept /\ FoundKept

LEMMA InitKept == PersistenceInit => PersistenceKept
<1> SUFFICES ASSUME PersistenceInit PROVE PersistenceKept
  OBVIOUS
<1> USE PersistenceAssumption
<1>1. Off \in Activities /\ Off.at = "off" /\ Off.doing = "start" /\ ~Off.fresh
  BY DEF Off, Activities, Points
<1>2. \A p \in Processes : proc[p] = Off
  BY DEF PersistenceInit
<1>3. PersistenceTypeOK
  <2>1. Zero \in [DOMAIN Zero -> Nat]
    BY DEF Zero
  <2>2. \A p \in Processes : proc[p].at \notin Unlocked <=> lock = p
    BY <1>1, <1>2 DEF PersistenceInit, Unlocked
  <2>3. proc \in [Processes -> Activities]
    BY <1>1 DEF PersistenceInit
  <2>4. /\ db \in Policies \cup {NoPolicy, NoFile}
        /\ snapshot \in Policies \cup {None} /\ protected \in BOOLEAN
        /\ standing \subseteq Policies
    BY DEF PersistenceInit
  <2> QED
    BY <2>1, <2>2, <2>3, <2>4 DEF PersistenceInit, PersistenceTypeOK
<1>4. \A p \in Processes : StartKept(p)
  BY <1>1, <1>2 DEF StartKept, Opened, Writing
<1>5. ToolsKept /\ ServingKept
  BY <1>1, <1>2 DEF ToolsKept, ServingKept, Serves, Processes, PersistenceInit
<1>6. FoundKept
  BY DEF FoundKept, PersistenceInit, Stood, Zero
<1> QED
  BY <1>3, <1>4, <1>5, <1>6 DEF PersistenceKept

-----------------------------------------------------------------------------
(* What a step of one process leaves of the others'.                        *)

\* While a process holds the lock, what is kept of another does not depend on
\* the files, ...
LEMMA OthersKept ==
    ASSUME PersistenceKept, NEW p \in Processes, lock = p,
           NEW q \in Processes, q # p, proc'[q] = proc[q]
    PROVE  StartKept(q)'
<1>1. proc[q].at \in Unlocked
  BY DEF PersistenceKept, PersistenceTypeOK
<1>2. StartKept(q)
  BY DEF PersistenceKept
<1> QED
  BY <1>1, <1>2 DEF StartKept, Unlocked, Opened, Writing

\* ... and a step that touches none of the files leaves what is kept.
LEMMA FilesKept ==
    ASSUME PersistenceKept, NEW q \in Processes, proc'[q] = proc[q],
           UNCHANGED <<db, snapshot, protected>>, count'.file = count.file
    PROVE  StartKept(q)'
  BY DEF PersistenceKept, StartKept, Persists

\* A tool that writes finds no daemon serving.
LEMMA WritingTool ==
    ASSUME PersistenceKept, NEW p \in Tools, Persists(p)
    PROVE  memory = None /\ ~Serves
  BY PersistenceAssumption DEF PersistenceKept, ToolsKept, ServingKept, Persists

\* A process in a point under the lock holds it, and no other is in one.
LEMMA Exclusive ==
    ASSUME PersistenceKept, NEW p \in Processes, proc[p].at \notin Unlocked
    PROVE  /\ lock = p
           /\ \A q \in Processes \ {p} : proc[q].at \in Unlocked
           /\ p # Daemon => proc[p].doing = "start"
  BY DEF PersistenceKept, PersistenceTypeOK, ToolsKept, Processes

-----------------------------------------------------------------------------
(* The ends of what a process does.                                         *)

LaterCount ==
    /\ count' \in [DOMAIN Zero -> Nat]
    /\ count'.losses = count.losses
    /\ count.file # 0 => count'.file # 0

\* A step that counts.
LEMMA CountedLater ==
    ASSUME PersistenceTypeOK, NEW what \in {"edits", "runs", "db", "file", "crashes"},
           NEW bound, Counted(what, bound) \/ UNCHANGED count
    PROVE  LaterCount /\ (what # "file" => count'.file = count.file)
           /\ (Counted("file", bound) => count'.file # 0)
  BY DEF Counted, LaterCount, PersistenceTypeOK, Zero

\* A start is given up.
LEMMA ExitsKept ==
    ASSUME PersistenceKept, NEW p \in Processes, lock = p,
           proc[p].doing = "start", Exits(p), UNCHANGED <<db, snapshot>>,
           protected' \in BOOLEAN, protected' = protected \/ Persists(p),
           LaterCount
    PROVE  PersistenceKept'
<1> USE PersistenceAssumption
<1>1. Off \in Activities /\ Off.at = "off" /\ Off.doing = "start" /\ ~Off.fresh
  BY DEF Off, Activities, Points
<1>2. /\ proc' = [proc EXCEPT ![p] = Off] /\ lock' = None
      /\ UNCHANGED <<memory, standing>>
      /\ PersistenceTypeOK /\ FoundKept /\ ToolsKept /\ ServingKept
  BY DEF Exits, Free, PersistenceKept
<1>3. proc'[p] = Off /\ \A q \in Processes \ {p} : proc'[q] = proc[q]
  BY <1>2 DEF PersistenceTypeOK
<1>4. proc[p].at \notin Unlocked
      /\ \A q \in Processes \ {p} : proc[q].at \in Unlocked
  BY <1>2 DEF PersistenceTypeOK
<1>5. PersistenceTypeOK'
  BY <1>1, <1>2, <1>3, <1>4 DEF PersistenceTypeOK, LaterCount, Unlocked
<1>6. ASSUME NEW q \in Processes PROVE StartKept(q)'
  <2>1. CASE q = p
    BY <1>1, <1>3, <2>1 DEF StartKept, Opened, Writing
  <2> QED
    BY <1>3, <2>1, OthersKept
<1>7. ToolsKept'
  BY <1>1, <1>2, <1>3 DEF ToolsKept, Processes
<1>8. ServingKept'
  <2>1. CASE p = Daemon
    <3>1. ~Serves /\ memory = None
      BY <1>2, <1>4, <2>1 DEF Serves, ServingKept, Unlocked
    <3> QED
      BY <1>1, <1>2, <1>3, <2>1, <3>1 DEF ServingKept, Serves
  <2>2. CASE p # Daemon
    <3>1. proc'[Daemon] = proc[Daemon] /\ proc[Daemon].at \in Unlocked
      BY <1>3, <1>4, <2>2 DEF Processes
    <3>2. Serves => protected' = protected
      BY <2>2, WritingTool DEF Processes
    <3> QED
      BY <1>2, <3>1, <3>2 DEF ServingKept, Serves, Current, Unlocked, Writing,
         LaterCount
  <2> QED
    BY <2>1, <2>2
<1>9. FoundKept'
  BY <1>2 DEF FoundKept, Stood, LaterCount
<1> QED
  BY <1>5, <1>6, <1>7, <1>8, <1>9 DEF PersistenceKept

\* The daemon has policy q in force, which is in the database, and serves.
LEMMA InForceKept ==
    ASSUME PersistenceKept, lock = Daemon, NEW q \in Policies, db = q,
           snapshot # None,
           proc' = [proc EXCEPT ![Daemon] = [Off EXCEPT !.at = "serving"]],
           Free(Daemon), standing' = {q}, memory' = q,
           UNCHANGED <<db, snapshot>>, protected' \in BOOLEAN, LaterCount,
           count'.file = 0 => snapshot = q /\ protected' = Immutable
    PROVE  PersistenceKept'
<1> USE PersistenceAssumption
<1> DEFINE r == [Off EXCEPT !.at = "serving"]
<1>1. r \in Activities /\ r.at = "serving" /\ r.doing = "start" /\ ~r.fresh
  BY DEF Off, Activities, Points
<1> HIDE DEF r
<1>2. /\ proc' = [proc EXCEPT ![Daemon] = r] /\ lock' = None
      /\ PersistenceTypeOK /\ FoundKept /\ ToolsKept
      /\ \A p \in Processes : StartKept(p)
  BY DEF Free, PersistenceKept, r
<1>3. /\ Daemon \in Processes /\ proc'[Daemon] = r
      /\ \A p \in Processes \ {Daemon} : proc'[p] = proc[p]
  BY <1>2 DEF PersistenceTypeOK, Processes
<1>4. \A p \in Processes \ {Daemon} : proc[p].at \in Unlocked
  BY <1>2 DEF PersistenceTypeOK
<1>5. \A p \in Tools : ~proc[p].fresh
  BY <1>2, <1>4 DEF ToolsKept, StartKept, Unlocked, Opened, Processes
<1>6. PersistenceTypeOK'
  BY <1>1, <1>2, <1>3, <1>4 DEF PersistenceTypeOK, LaterCount, Unlocked
<1>7. ASSUME NEW p \in Processes PROVE StartKept(p)'
  <2>1. CASE p = Daemon
    BY <1>1, <1>3, <2>1 DEF StartKept, Opened, Writing
  <2> QED
    BY <1>3, <2>1, OthersKept
<1>8. ToolsKept'
  BY <1>2, <1>3, <1>5 DEF ToolsKept, Processes
<1>9. ServingKept'
  BY <1>1, <1>2, <1>3 DEF ServingKept, Serves, Current
<1>10. FoundKept'
  BY <1>2 DEF FoundKept, Stood, LaterCount
<1> QED
  BY <1>6, <1>7, <1>8, <1>9, <1>10 DEF PersistenceKept

\* The daemon answers an edit, with its own policy in force.
LEMMA AnswersKept ==
    ASSUME PersistenceKept, lock = Daemon, Serves, Answers(memory),
           UNCHANGED <<db, snapshot>>, protected' \in BOOLEAN, LaterCount,
           count'.file = 0 => snapshot = memory /\ protected' = Immutable
    PROVE  PersistenceKept'
<1>1. memory \in Policies /\ db = memory /\ snapshot # None
  BY DEF PersistenceKept, ServingKept
<1> QED
  BY <1>1, InForceKept DEF Answers

\* An edit goes on.
LEMMA EditMoves ==
    ASSUME PersistenceKept, lock = Daemon, Serves, NEW r \in Activities,
           proc' = [proc EXCEPT ![Daemon] = r],
           r.at \notin Unlocked, r.doing \in {"edit", "rollback"},
           UNCHANGED <<lock, standing>>, protected' \in BOOLEAN, LaterCount,
           db' \in Policies, memory' \in Policies, snapshot' \in Policies,
           ServingKept', FoundKept'
    PROVE  PersistenceKept'
<1> USE PersistenceAssumption
<1>1. /\ PersistenceTypeOK /\ ToolsKept /\ memory # None
  BY DEF PersistenceKept, ServingKept
<1>2. /\ Daemon \in Processes /\ proc'[Daemon] = r
      /\ \A p \in Processes \ {Daemon} : proc'[p] = proc[p]
  BY <1>1 DEF PersistenceTypeOK, Processes
<1>3. PersistenceTypeOK'
  BY <1>1, <1>2 DEF PersistenceTypeOK, LaterCount
<1>4. ASSUME NEW p \in Processes PROVE StartKept(p)'
  <2>1. CASE p = Daemon
    BY <1>2, <2>1 DEF StartKept
  <2> QED
    BY <1>2, <2>1, OthersKept
<1>5. ToolsKept'
  BY <1>1, <1>2 DEF ToolsKept, Processes
<1> QED
  BY <1>3, <1>4, <1>5 DEF PersistenceKept

\* A start goes on.  A tool touches nothing while the daemon serves.
LEMMA StartMoves ==
    ASSUME PersistenceKept, NEW p \in Processes, lock = p, NEW r \in Activities,
           proc[p].doing = "start", proc' = [proc EXCEPT ![p] = r],
           r.at \notin Unlocked, r.doing = "start",
           UNCHANGED <<lock, memory, standing>>, protected' \in BOOLEAN, LaterCount,
           db' \in Policies \cup {NoPolicy, NoFile},
           snapshot' \in Policies \cup {None},
           (p # Daemon /\ memory # None) =>
               ~r.fresh /\ UNCHANGED <<db, snapshot, protected>>,
           StartKept(p)', FoundKept'
    PROVE  PersistenceKept'
<1> USE PersistenceAssumption
<1>1. /\ PersistenceTypeOK /\ ToolsKept /\ ServingKept
  BY DEF PersistenceKept
<1>2. /\ Daemon \in Processes /\ proc'[p] = r
      /\ \A q \in Processes \ {p} : proc'[q] = proc[q]
  BY <1>1 DEF PersistenceTypeOK, Processes
<1>3. /\ proc[p].at \notin Unlocked
      /\ \A q \in Processes \ {p} : proc[q].at \in Unlocked
  BY <1>1 DEF PersistenceTypeOK
<1>4. PersistenceTypeOK'
  BY <1>1, <1>2, <1>3 DEF PersistenceTypeOK, LaterCount
<1>5. ASSUME NEW q \in Processes PROVE StartKept(q)'
  <2>1. CASE q = p
    BY <2>1
  <2> QED
    BY <1>2, <2>1, OthersKept
<1>6. ToolsKept'
  <2>1. r.at # "serving"
    BY DEF Unlocked
  <2> QED
    BY <1>1, <1>2, <2>1 DEF ToolsKept, Processes
<1>7. ServingKept'
  <2>1. CASE p = Daemon
    <3>1. ~Serves /\ memory = None
      BY <1>1, <1>3, <2>1 DEF Serves, ServingKept, Unlocked
    <3> QED
      BY <1>2, <2>1, <3>1 DEF ServingKept, Serves, Unlocked
  <2>2. CASE p # Daemon
    <3>1. proc'[Daemon] = proc[Daemon] /\ proc[Daemon].at \in Unlocked
      BY <1>2, <1>3, <2>2
    <3> QED
      BY <1>1, <2>2, <3>1 DEF ServingKept, Serves, Current, Unlocked, Writing,
         LaterCount
  <2> QED
    BY <2>1, <2>2
<1> QED
  BY <1>4, <1>5, <1>6, <1>7 DEF PersistenceKept

-----------------------------------------------------------------------------
(* A start.                                                                 *)

\* A step that moves one process on, with the record r, and touches neither
\* the files nor what is in force.
LEMMA MovesKept ==
    ASSUME PersistenceKept, NEW p \in Processes, NEW r \in Activities,
           proc' = [proc EXCEPT ![p] = r],
           UNCHANGED <<db, snapshot, protected, memory, standing>>,
           LaterCount, count'.file = count.file,
           r.doing = proc[p].doing,
           lock' \in Processes \cup {None},
           \A q \in Processes : proc'[q].at \notin Unlocked <=> lock' = q,
           p # Daemon => r.at # "serving" /\ (memory # None => ~r.fresh),
           StartKept(p)', ServingKept'
    PROVE  PersistenceKept'
<1>1. /\ PersistenceTypeOK /\ FoundKept /\ ToolsKept
      /\ \A q \in Processes : StartKept(q)
  BY DEF PersistenceKept
<1>2. proc'[p] = r /\ \A q \in Processes \ {p} : proc'[q] = proc[q]
  BY <1>1 DEF PersistenceTypeOK
<1>3. PersistenceTypeOK'
  BY <1>1 DEF PersistenceTypeOK, LaterCount
<1>4. \A q \in Processes : StartKept(q)'
  BY <1>2, FilesKept
<1>5. ToolsKept'
  BY <1>1, <1>2, PersistenceAssumption DEF ToolsKept, Processes
<1>6. FoundKept'
  BY <1>1 DEF FoundKept, Stood, LaterCount
<1> QED
  BY <1>3, <1>4, <1>5, <1>6 DEF PersistenceKept

\* What is kept of the serving daemon does not depend on a tool's moves.
LEMMA ToolMoves ==
    ASSUME PersistenceKept, proc'[Daemon] = proc[Daemon],
           UNCHANGED <<db, snapshot, protected, memory, standing>>,
           count'.file = count.file
    PROVE  ServingKept'
  BY DEF PersistenceKept, ServingKept, Serves, Current

LEMMA StartStep ==
    ASSUME PersistenceKept, NEW p \in Processes, Start(p)
    PROVE  PersistenceKept'
<1> USE PersistenceAssumption
<1>0. PersistenceTypeOK /\ ToolsKept /\ ServingKept /\ StartKept(p)
  BY DEF PersistenceKept
<1> DEFINE r == [proc[p] EXCEPT !.at = "lock"]
<1>1. /\ r \in Activities /\ r.at = "lock" /\ r.doing = proc[p].doing
      /\ r.fresh = proc[p].fresh
  BY <1>0 DEF PersistenceTypeOK, Activities, Points
<1>2. proc' = [proc EXCEPT ![p] = r]
  BY DEF Start, Goes
<1> HIDE DEF r
<1>3. proc'[p] = r /\ \A q \in Processes \ {p} : proc'[q] = proc[q]
  BY <1>0, <1>2 DEF PersistenceTypeOK
<1>4. LaterCount /\ count'.file = count.file
  BY <1>0, CountedLater DEF Start
<1>5. proc[p].at = "off" /\ UNCHANGED <<db, snapshot, protected, lock, memory, standing>>
  BY DEF Start
<1>6. \A q \in Processes : proc'[q].at \notin Unlocked <=> lock' = q
  BY <1>0, <1>1, <1>3, <1>5 DEF PersistenceTypeOK, Unlocked
<1>7. StartKept(p)'
  BY <1>0, <1>1, <1>3, <1>5 DEF StartKept, Opened, Writing
<1>8. ServingKept'
  <2>1. CASE p = Daemon
    <3>1. proc[p].doing = "start"
      BY <1>0, <1>5, <2>1 DEF ServingKept, Writing, PersistenceTypeOK, Activities
    <3> QED
      BY <1>0, <1>1, <1>3, <1>5, <2>1, <3>1 DEF ServingKept, Serves
  <2>2. CASE p # Daemon
    BY <1>3, <1>4, <1>5, <2>2, ToolMoves DEF Processes
  <2> QED
    BY <2>1, <2>2
<1>9. p # Daemon => r.at # "serving" /\ (memory # None => ~r.fresh)
  BY <1>0, <1>1 DEF ToolsKept, Processes
<1>10. lock' \in Processes \cup {None}
  BY <1>0, <1>5 DEF PersistenceTypeOK
<1> QED
  BY <1>1, <1>2, <1>4, <1>5, <1>6, <1>7, <1>8, <1>9, <1>10, MovesKept

LEMMA TakeLockStep ==
    ASSUME PersistenceKept, NEW p \in Processes, TakeLock(p)
    PROVE  PersistenceKept'
<1> USE PersistenceAssumption
<1>0. PersistenceTypeOK /\ ToolsKept /\ ServingKept /\ StartKept(p)
  BY DEF PersistenceKept
<1> DEFINE at == IF proc[p].at = "lock" THEN "open" ELSE "totals"
           r == [proc[p] EXCEPT !.at = at]
<1>1. /\ r \in Activities /\ r.at = at
      /\ r = [at |-> at, doing |-> proc[p].doing, policy |-> proc[p].policy,
              next |-> proc[p].next, old |-> proc[p].old,
              fresh |-> proc[p].fresh, renamed |-> proc[p].renamed]
  BY <1>0 DEF PersistenceTypeOK, Activities, Points
<1>2. proc' = [proc EXCEPT ![p] = r]
  BY DEF TakeLock, Goes
<1> HIDE DEF r
<1>3. proc'[p] = r /\ \A q \in Processes \ {p} : proc'[q] = proc[q]
  BY <1>0, <1>2 DEF PersistenceTypeOK
<1>4. LaterCount /\ count'.file = count.file
  BY <1>0 DEF TakeLock, LaterCount, PersistenceTypeOK
<1>5. /\ proc[p].at \in {"lock", "asked"} /\ lock = None /\ lock' = p
      /\ UNCHANGED <<db, snapshot, protected, memory, standing>>
  BY DEF TakeLock
<1>6. \A q \in Processes : proc'[q].at \notin Unlocked <=> lock' = q
  BY <1>0, <1>1, <1>3, <1>5 DEF PersistenceTypeOK, Unlocked
<1>7. StartKept(p)'
  BY <1>0, <1>1, <1>3, <1>5 DEF StartKept, Opened, Writing
<1>8. ServingKept'
  <2>1. CASE p = Daemon
    BY <1>0, <1>1, <1>3, <1>4, <1>5, <2>1 DEF ServingKept, Serves, Current, Writing
  <2>2. CASE p # Daemon
    BY <1>3, <1>4, <1>5, <2>2, ToolMoves DEF Processes
  <2> QED
    BY <2>1, <2>2
<1>9. p # Daemon => r.at # "serving" /\ (memory # None => ~r.fresh)
  BY <1>0, <1>1 DEF ToolsKept, Processes
<1> QED
  BY <1>1, <1>2, <1>4, <1>5, <1>6, <1>7, <1>8, <1>9, MovesKept

\* A process in the middle of a start, at a point from which it goes on.
LEMMA OpenStep ==
    ASSUME PersistenceKept, NEW p \in Processes, Open(p)
    PROVE  PersistenceKept'
<1> USE PersistenceAssumption
<1>0. PersistenceTypeOK /\ ToolsKept /\ ServingKept /\ FoundKept /\ StartKept(p)
  BY DEF PersistenceKept
<1>1. proc[p].at = "open" /\ UNCHANGED <<snapshot, protected, lock, memory, standing, count>>
  BY DEF Open
<1>2. lock = p /\ proc[p].doing = "start"
  BY <1>0, <1>1, Exclusive DEF Unlocked, ServingKept, Writing, PersistenceTypeOK,
     Activities
<1> DEFINE made == (db = NoFile)
           r == [proc[p] EXCEPT !.at = "load", !.fresh = made]
<1>3. made \in BOOLEAN
  OBVIOUS
<1>4. proc' = [proc EXCEPT ![p] = r]
  BY DEF Open
<1>5. /\ db' = IF db = NoFile THEN NoPolicy ELSE db
      /\ made => db = NoFile
  BY DEF Open
<1> HIDE DEF made
<1>6. /\ r \in Activities /\ r.at = "load" /\ r.doing = "start" /\ r.fresh = made
  <2>1. proc[p] \in Activities /\ "load" \in Points
    BY <1>0 DEF PersistenceTypeOK, Points
  <2> QED
    BY <1>2, <1>3, <2>1 DEF Activities
<1> HIDE DEF r
<1>7. proc'[p] = r
  BY <1>0, <1>4 DEF PersistenceTypeOK
<1>8. StartKept(p)'
  BY <1>5, <1>6, <1>7 DEF StartKept, Opened, Writing
<1>9. FoundKept'
  BY <1>0, <1>1, <1>5 DEF FoundKept, Stood
<1>10. memory # None => ~made /\ db' = db
  BY <1>0, <1>5 DEF ServingKept
<1>11. db' \in Policies \cup {NoPolicy, NoFile} /\ LaterCount
  BY <1>0, <1>1, <1>5 DEF PersistenceTypeOK, LaterCount
<1>12. r.at \notin Unlocked /\ snapshot' \in Policies \cup {None} /\ protected' \in BOOLEAN
  BY <1>0, <1>1, <1>6 DEF Unlocked, PersistenceTypeOK
<1> QED
  BY <1>1, <1>2, <1>4, <1>6, <1>8, <1>9, <1>10, <1>11, <1>12, StartMoves

LEMMA LoadStep ==
    ASSUME PersistenceKept, NEW p \in Processes, LoadPolicy(p)
    PROVE  PersistenceKept'
<1> USE PersistenceAssumption
<1>0. PersistenceTypeOK /\ ToolsKept /\ ServingKept /\ FoundKept /\ StartKept(p)
  BY DEF PersistenceKept
<1>1. proc[p].at = "load" /\ UNCHANGED <<snapshot, protected, count>>
  BY DEF LoadPolicy
<1>2. lock = p /\ proc[p].doing = "start"
  BY <1>0, <1>1, Exclusive DEF Unlocked, ServingKept, Writing, PersistenceTypeOK,
     Activities
<1>3. LaterCount /\ snapshot' \in Policies \cup {None} /\ protected' \in BOOLEAN
  BY <1>0, <1>1 DEF LaterCount, PersistenceTypeOK
<1> DEFINE found == CASE db \in Policies -> db
                      [] db \notin Policies /\ snapshot # None -> snapshot
                      [] db \notin Policies /\ snapshot = None /\ proc[p].fresh -> Baseline
                      [] OTHER -> None
<1>4. CASE found = None
  <2>1. Exits(p) /\ UNCHANGED db
    BY <1>4 DEF LoadPolicy
  <2> QED
    BY <1>1, <1>2, <1>3, <2>1, ExitsKept
<1>5. CASE found # None
  <2> DEFINE r == [proc[p] EXCEPT !.at = "rule", !.policy = found]
  <2>1. /\ proc' = [proc EXCEPT ![p] = r]
        /\ db' = IF db = NoPolicy /\ Persists(p) THEN found ELSE db
        /\ UNCHANGED <<lock, memory, standing>>
    BY <1>5 DEF LoadPolicy
  <2>2. found \in Policies
    BY <1>0, <1>5 DEF PersistenceTypeOK
  <2>3. db \in Policies => found = db
    OBVIOUS
  <2>4. (count.file = 0 \/ count.losses = 0) => found \in Stood
    BY <1>0, <1>5 DEF FoundKept, Stood
  <2> HIDE DEF found
  <2>5. /\ r \in Activities /\ r.at = "rule" /\ r.doing = "start"
        /\ r.fresh = proc[p].fresh /\ r.policy = found
    <3>1. proc[p] \in Activities /\ "rule" \in Points
      BY <1>0 DEF PersistenceTypeOK, Points
    <3> QED
      BY <1>2, <2>2, <3>1 DEF Activities
  <2> HIDE DEF r
  <2>6. proc'[p] = r
    BY <1>0, <2>1 DEF PersistenceTypeOK
  <2>7. db # NoFile /\ db' # NoFile /\ (db' = db \/ db' = found)
    BY <1>0, <1>1, <1>2, <2>1, <2>2 DEF StartKept
  <2>8. StartKept(p)'
    <3>1. Persists(p) => db' = found
      BY <1>0, <2>1, <2>3, <2>7 DEF PersistenceTypeOK
    <3> QED
      BY <2>2, <2>5, <2>6, <2>7, <3>1 DEF StartKept, Opened, Writing, Persists
  <2>9. FoundKept'
    BY <1>0, <1>1, <2>1, <2>2, <2>4, <2>7 DEF FoundKept, Stood
  <2>10. (p # Daemon /\ memory # None) => ~r.fresh /\ db' = db
    BY <1>0, <2>1, <2>5 DEF ToolsKept, Processes, Persists
  <2>11. db' \in Policies \cup {NoPolicy, NoFile} /\ r.at \notin Unlocked
    BY <1>0, <2>2, <2>5, <2>7 DEF PersistenceTypeOK, Unlocked
  <2> QED
    BY <1>1, <1>2, <1>3, <2>1, <2>5, <2>8, <2>9, <2>10, <2>11, StartMoves
<1> QED
  BY <1>4, <1>5

LEMMA RuleStep ==
    ASSUME PersistenceKept, NEW p \in Processes, AddBrowserRule(p)
    PROVE  PersistenceKept'
<1> USE PersistenceAssumption
<1>0. PersistenceTypeOK /\ ToolsKept /\ ServingKept /\ FoundKept /\ StartKept(p)
  BY DEF PersistenceKept
<1> DEFINE fixed == WithBrowserRule[proc[p].policy]
           at == IF Persists(p) THEN "clear" ELSE "loaded"
           r == [proc[p] EXCEPT !.policy = fixed, !.at = at]
<1>1. /\ proc[p].at = "rule"
      /\ UNCHANGED <<snapshot, protected, lock, memory, standing, count>>
      /\ proc' = [proc EXCEPT ![p] = r]
      /\ db' = IF fixed # proc[p].policy /\ Persists(p) THEN fixed ELSE db
  BY DEF AddBrowserRule
<1>2. lock = p /\ proc[p].doing = "start"
  BY <1>0, <1>1, Exclusive DEF Unlocked, ServingKept, Writing, PersistenceTypeOK,
     Activities
<1>3. LaterCount /\ snapshot' \in Policies \cup {None} /\ protected' \in BOOLEAN
  BY <1>0, <1>1 DEF LaterCount, PersistenceTypeOK
<1>4. /\ proc[p].policy \in Policies /\ fixed \in Policies
      /\ WithBrowserRule[fixed] = fixed
      /\ db # NoFile /\ Persists(p) => db = proc[p].policy
  BY <1>0, <1>1, <1>2 DEF StartKept, Opened
<1>5. db # NoFile /\ (Persists(p) => db' = fixed) /\ (~Persists(p) => db' = db)
  BY <1>0, <1>1, <1>2, <1>4 DEF StartKept, Opened
<1>6. Persists(p) /\ db \in Stood => fixed \in Stood
  BY <1>0, <1>4 DEF Stood, PersistenceTypeOK
<1> HIDE DEF fixed
<1>7. /\ r \in Activities /\ r.at = at /\ r.doing = "start"
      /\ r.fresh = proc[p].fresh /\ r.policy = fixed
  <2>1. proc[p] \in Activities /\ at \in Points
    BY <1>0 DEF PersistenceTypeOK, Points
  <2> HIDE DEF at
  <2> QED
    BY <1>2, <1>4, <2>1 DEF Activities
<1> HIDE DEF r
<1>8. proc'[p] = r
  BY <1>0, <1>1 DEF PersistenceTypeOK
<1>9. StartKept(p)'
  BY <1>4, <1>5, <1>7, <1>8 DEF StartKept, Opened, Writing, Persists
<1>10. FoundKept'
  <2>1. CASE Persists(p)
    BY <1>0, <1>1, <1>4, <1>5, <1>6, <2>1 DEF FoundKept, Stood
  <2>2. CASE ~Persists(p)
    BY <1>0, <1>1, <1>5, <2>2 DEF FoundKept, Stood
  <2> QED
    BY <2>1, <2>2
<1>11. (p # Daemon /\ memory # None) => ~r.fresh /\ db' = db
  BY <1>0, <1>5, <1>7 DEF ToolsKept, Processes, Persists
<1>12. db' \in Policies \cup {NoPolicy, NoFile} /\ r.at \notin Unlocked
  BY <1>0, <1>4, <1>5, <1>7 DEF PersistenceTypeOK, Unlocked
<1> QED
  BY <1>1, <1>2, <1>3, <1>7, <1>9, <1>10, <1>11, <1>12, StartMoves

LEMMA LoadedStep ==
    ASSUME PersistenceKept, NEW p \in Processes, Loaded(p)
    PROVE  PersistenceKept'
<1> USE PersistenceAssumption
<1>0. PersistenceTypeOK /\ ToolsKept /\ ServingKept /\ FoundKept /\ StartKept(p)
  BY DEF PersistenceKept
<1>1. proc[p].at = "loaded" /\ UNCHANGED <<db, snapshot, protected, count>>
  BY DEF Loaded
<1>2. lock = p /\ proc[p].doing = "start"
  BY <1>0, <1>1, Exclusive DEF Unlocked, ServingKept, Writing, PersistenceTypeOK,
     Activities
<1>3. LaterCount /\ protected' \in BOOLEAN
  BY <1>0, <1>1 DEF LaterCount, PersistenceTypeOK
<1>4. CASE p = Daemon
  <2>1. /\ proc[p].policy \in Policies /\ db = proc[p].policy
        /\ snapshot = proc[p].policy
        /\ count.file = 0 => protected = Immutable
    BY <1>0, <1>1, <1>2, <1>4 DEF StartKept, Opened, Persists
  <2> QED
    BY <1>1, <1>2, <1>3, <1>4, <2>1, InForceKept DEF Loaded
<1>5. CASE p # Daemon
  BY <1>1, <1>2, <1>3, <1>5, ExitsKept DEF Loaded, Exits
<1> QED
  BY <1>4, <1>5

-----------------------------------------------------------------------------
(* The snapshot is written.                                                 *)

\* Who writes, and what.
LEMMA Writer ==
    ASSUME PersistenceKept, NEW p \in Processes, proc[p].at \in Writing
    PROVE  /\ lock = p /\ proc[p] \in Activities
           /\ \/ proc[p].doing = "start" /\ Persists(p)
              \/ p = Daemon /\ Serves /\ proc[p].doing \in {"edit", "rollback"}
           /\ proc[p].policy \in Policies /\ db \in Policies
           /\ proc[p].doing = "start" => db = proc[p].policy
           /\ proc[p].doing # "start" => proc[p].policy \in standing
           /\ proc[p].at = "protect" =>
                IF proc[p].renamed THEN snapshot = proc[p].policy ELSE count.file # 0
<1>0. PersistenceTypeOK /\ ServingKept /\ StartKept(p)
  BY DEF PersistenceKept
<1>1. lock = p /\ (p # Daemon => proc[p].doing = "start")
  BY Exclusive DEF Writing, Unlocked
<1>2. proc[p] \in Activities
  BY <1>0 DEF PersistenceTypeOK
<1>3. CASE proc[p].doing = "start"
  BY <1>0, <1>1, <1>2, <1>3 DEF StartKept, Writing, Opened
<1>4. CASE proc[p].doing # "start"
  <2>1. p = Daemon /\ Serves /\ proc[p].doing \in {"edit", "rollback"}
    BY <1>1, <1>2, <1>4 DEF Serves, Activities
  <2> QED
    BY <1>0, <1>1, <1>2, <1>4, <2>1 DEF ServingKept
<1> QED
  BY <1>3, <1>4

\* The write goes on, and may have replaced the snapshot.
LEMMA WriteMoves ==
    ASSUME PersistenceKept, NEW p \in Processes, proc[p].at \in Writing,
           NEW r \in Activities, proc' = [proc EXCEPT ![p] = r],
           r.at \in {"rename", "protect"}, r.doing = proc[p].doing,
           r.policy = proc[p].policy, r.next = proc[p].next,
           r.old = proc[p].old, r.fresh = proc[p].fresh,
           UNCHANGED <<db, lock, memory, standing>>,
           protected' \in BOOLEAN, snapshot' \in {snapshot, proc[p].policy},
           LaterCount,
           r.at = "protect" =>
             IF r.renamed THEN snapshot' = proc[p].policy ELSE count'.file # 0
    PROVE  PersistenceKept'
<1> USE PersistenceAssumption
<1>0. PersistenceTypeOK /\ ServingKept /\ StartKept(p) /\ FoundKept
  BY DEF PersistenceKept
<1>1. proc'[p] = r
  BY <1>0 DEF PersistenceTypeOK
<1>2. FoundKept'
  BY <1>0, Writer DEF FoundKept, Stood, LaterCount
<1>3. snapshot' \in Policies \cup {None} /\ r.at \notin Unlocked
  BY <1>0, Writer DEF PersistenceTypeOK, Unlocked
<1>4. CASE proc[p].doing = "start"
  <2>1. StartKept(p)'
    BY <1>0, <1>1, <1>4, Writer DEF StartKept, Opened, Writing, Persists
  <2>2. p # Daemon => memory = None
    BY <1>4, Writer, WritingTool DEF Processes
  <2> QED
    BY <1>0, <1>2, <1>3, <1>4, <2>1, <2>2, Writer, StartMoves DEF PersistenceTypeOK
<1>5. CASE proc[p].doing # "start"
  <2>1. p = Daemon /\ Serves /\ proc[p].doing \in {"edit", "rollback"} /\ lock = p
    BY <1>5, Writer
  <2>2. memory \in Policies /\ db = memory /\ snapshot' \in Policies
    BY <1>0, <2>1, Writer DEF ServingKept, PersistenceTypeOK
  <2>3. ServingKept'
    BY <1>0, <1>1, <2>1, <2>2 DEF ServingKept, Serves, Writing
  <2> QED
    BY <1>2, <1>3, <1>5, <2>1, <2>2, <2>3, EditMoves
<1> QED
  BY <1>4, <1>5

\* The write fails.
LEMMA WriteFailsKept ==
    ASSUME PersistenceKept, NEW p \in Processes, proc[p].at \in Writing,
           WriteFails(p), UNCHANGED <<db, snapshot>>, protected' \in BOOLEAN,
           LaterCount, count'.file # 0
    PROVE  PersistenceKept'
<1>1. CASE proc[p].doing = "start"
  BY <1>1, Writer, ExitsKept DEF WriteFails
<1>2. CASE proc[p].doing # "start"
  BY <1>2, Writer, AnswersKept DEF WriteFails
<1> QED
  BY <1>1, <1>2

LEMMA ClearStep ==
    ASSUME PersistenceKept, NEW p \in Processes, Clear(p)
    PROVE  PersistenceKept'
<1> USE PersistenceAssumption
<1>0. PersistenceTypeOK
  BY DEF PersistenceKept
<1>1. proc[p].at \in Writing /\ UNCHANGED <<db, snapshot>>
  BY DEF Clear, Writing
<1>2. CASE /\ protected' = FALSE /\ Goes(p, "rename")
           /\ UNCHANGED <<lock, memory, standing, count>>
  <2> DEFINE r == [proc[p] EXCEPT !.at = "rename"]
  <2>1. /\ r \in Activities /\ r.at = "rename" /\ r.doing = proc[p].doing
        /\ r.policy = proc[p].policy /\ r.next = proc[p].next
        /\ r.old = proc[p].old /\ r.fresh = proc[p].fresh
    BY <1>0 DEF PersistenceTypeOK, Activities, Points
  <2>2. proc' = [proc EXCEPT ![p] = r]
    BY <1>2 DEF Goes
  <2> HIDE DEF r
  <2>3. LaterCount
    BY <1>0, <1>2 DEF LaterCount, PersistenceTypeOK
  <2> QED
    BY <1>1, <1>2, <2>1, <2>2, <2>3, WriteMoves
<1>3. CASE /\ Counted("file", MaxFileFailures) /\ WriteFails(p)
           /\ UNCHANGED protected
  <2>1. LaterCount /\ count'.file # 0
    BY <1>0, <1>3, CountedLater
  <2> QED
    BY <1>0, <1>1, <1>3, <2>1, WriteFailsKept DEF PersistenceTypeOK
<1> QED
  BY <1>2, <1>3 DEF Clear

LEMMA RenameStep ==
    ASSUME PersistenceKept, NEW p \in Processes, Rename(p)
    PROVE  PersistenceKept'
<1> USE PersistenceAssumption
<1>0. PersistenceTypeOK
  BY DEF PersistenceKept
<1>0a. proc[p] \in Activities
  BY <1>0 DEF PersistenceTypeOK
<1>1. /\ proc[p].at \in Writing /\ UNCHANGED <<db, protected>>
      /\ protected' \in BOOLEAN
  BY <1>0 DEF Rename, Writing, PersistenceTypeOK
<1>2. CASE /\ snapshot' = proc[p].policy
           /\ proc' = [proc EXCEPT ![p].at = "protect", ![p].renamed = TRUE]
           /\ UNCHANGED <<lock, memory, standing, count>>
  <2>1. LaterCount
    BY <1>0, <1>2 DEF LaterCount, PersistenceTypeOK
  <2>2. PersistenceKept'
    <3> DEFINE r == [proc[p] EXCEPT !.at = "protect", !.renamed = TRUE]
    <3>1. /\ r \in Activities /\ r.at = "protect" /\ r.doing = proc[p].doing
          /\ r.policy = proc[p].policy /\ r.next = proc[p].next
          /\ r.old = proc[p].old /\ r.fresh = proc[p].fresh
          /\ r.renamed
      BY <1>0a DEF Activities, Points
    <3>2. proc' = [proc EXCEPT ![p] = r]
      BY <1>2
    <3> HIDE DEF r
    <3> QED
      BY <1>1, <1>2, <2>1, <3>1, <3>2, WriteMoves
  <2> QED
    BY <2>2
<1>3. CASE Counted("file", MaxFileFailures) /\ UNCHANGED snapshot
  <2>1. LaterCount /\ count'.file # 0
    BY <1>0, <1>3, CountedLater
  <2>2. CASE WriteFails(p)
    BY <1>1, <1>3, <2>1, <2>2, WriteFailsKept
  <2>3. CASE /\ proc' = [proc EXCEPT ![p].at = "protect", ![p].renamed = FALSE]
             /\ UNCHANGED <<lock, memory, standing>>
    <3> DEFINE r == [proc[p] EXCEPT !.at = "protect", !.renamed = FALSE]
    <3>1. /\ r \in Activities /\ r.at = "protect" /\ r.doing = proc[p].doing
          /\ r.policy = proc[p].policy /\ r.next = proc[p].next
          /\ r.old = proc[p].old /\ r.fresh = proc[p].fresh
          /\ ~r.renamed
      BY <1>0a DEF Activities, Points
    <3>2. proc' = [proc EXCEPT ![p] = r]
      BY <2>3
    <3> HIDE DEF r
    <3> QED
      BY <1>1, <1>3, <2>1, <2>3, <3>1, <3>2, WriteMoves
  <2> QED
    BY <1>2, <1>3, <2>2, <2>3 DEF Rename
<1> QED
  BY <1>2, <1>3 DEF Rename

LEMMA ProtectStep ==
    ASSUME PersistenceKept, NEW p \in Processes, Protect(p)
    PROVE  PersistenceKept'
<1> USE PersistenceAssumption
<1>0. PersistenceTypeOK /\ ServingKept /\ StartKept(p) /\ FoundKept
  BY DEF PersistenceKept
<1>1. /\ proc[p].at = "protect" /\ proc[p].at \in Writing
      /\ UNCHANGED <<db, snapshot>> /\ protected' \in BOOLEAN
  BY DEF Protect, Writing
<1>2. CASE proc[p].renamed /\ protected' = Immutable /\ WriteDone(p) /\ UNCHANGED count
  <2>1. LaterCount
    BY <1>0, <1>2 DEF LaterCount, PersistenceTypeOK
  <2>2. snapshot = proc[p].policy /\ proc[p].policy \in Policies
    BY <1>1, <1>2, Writer
  <2>3. ASSUME NEW at \in {"loaded", "commit"}, Goes(p, at)
        PROVE  /\ [proc[p] EXCEPT !.at = at] \in Activities
               /\ proc'[p] = [proc[p] EXCEPT !.at = at]
               /\ proc'[p].at = at /\ proc'[p].at \notin Unlocked
               /\ proc'[p].doing = proc[p].doing /\ proc'[p].policy = proc[p].policy
               /\ proc'[p].next = proc[p].next /\ proc'[p].old = proc[p].old
               /\ proc'[p].fresh = proc[p].fresh
               /\ proc' = [proc EXCEPT ![p] = proc'[p]]
    BY <1>0, <2>3 DEF PersistenceTypeOK, Activities, Points, Goes, Unlocked
  <2>4. UNCHANGED standing => FoundKept'
    BY <1>0, <1>1, <1>2 DEF FoundKept, Stood
  <2>5. CASE proc[p].doing = "start"
    <3>1. Goes(p, "loaded") /\ UNCHANGED <<lock, memory, standing>>
      BY <1>2, <2>5 DEF WriteDone
    <3>2. StartKept(p)'
      BY <1>0, <1>1, <1>2, <2>2, <2>3, <2>5, <3>1, Writer DEF StartKept, Opened,
         Writing, Persists
    <3>3. p # Daemon => memory = None
      BY <1>1, <2>5, Writer, WritingTool DEF Processes
    <3> QED
      BY <1>0, <1>1, <2>1, <2>3, <2>4, <2>5, <3>1, <3>2, <3>3, Writer, StartMoves
         DEF PersistenceTypeOK
  <2>6. CASE proc[p].doing = "edit"
    <3>1. Goes(p, "commit") /\ UNCHANGED <<lock, memory, standing, count>>
      BY <1>2, <2>6 DEF WriteDone
    <3>2. p = Daemon /\ Serves /\ lock = p
      BY <1>1, <2>6, Writer
    <3>3. memory \in Policies /\ db \in Policies /\ snapshot' \in Policies
      BY <1>0, <1>1, <2>2, <3>2 DEF ServingKept
    <3>4. ServingKept'
      BY <1>0, <1>1, <1>2, <2>2, <2>3, <2>6, <3>1, <3>2 DEF ServingKept, Serves, Writing
    <3> QED
      BY <1>0, <1>1, <2>1, <2>3, <2>4, <2>6, <3>1, <3>2, <3>3, <3>4, EditMoves
  <2>7. CASE proc[p].doing = "rollback"
    <3>1. p = Daemon /\ Serves /\ lock = p
      BY <1>1, <2>7, Writer
    <3>2. proc[p].policy = memory
      BY <1>0, <2>7, <3>1 DEF ServingKept
    <3>3. Answers(memory)
      BY <1>2, <2>7 DEF WriteDone
    <3> QED
      BY <1>1, <1>2, <2>1, <2>2, <3>1, <3>2, <3>3, AnswersKept
  <2> QED
    BY <1>0, <2>5, <2>6, <2>7 DEF PersistenceTypeOK, Activities
<1>3. CASE ~proc[p].renamed /\ WriteFails(p) /\ UNCHANGED count
  <2>1. LaterCount /\ count'.file # 0
    BY <1>0, <1>1, <1>3, Writer DEF LaterCount, PersistenceTypeOK
  <2> QED
    BY <1>1, <1>3, <2>1, WriteFailsKept
<1>4. CASE Counted("file", MaxFileFailures) /\ WriteFails(p)
  <2>1. LaterCount /\ count'.file # 0
    BY <1>0, <1>4, CountedLater
  <2> QED
    BY <1>1, <1>4, <2>1, WriteFailsKept
<1> QED
  BY <1>2, <1>3, <1>4 DEF Protect

-----------------------------------------------------------------------------
(* An edit.                                                                 *)

LEMMA AskStep ==
    ASSUME PersistenceKept, AskEdit
    PROVE  PersistenceKept'
<1> USE PersistenceAssumption
<1>0. PersistenceTypeOK /\ ToolsKept /\ ServingKept /\ FoundKept
      /\ Daemon \in Processes
  BY DEF PersistenceKept, Processes
<1>1. PICK q \in Policies \ {memory} :
        /\ proc' = [proc EXCEPT ![Daemon] =
               [Off EXCEPT !.at = "asked", !.doing = "edit", !.policy = q,
                           !.next = q, !.old = memory]]
        /\ standing' = standing \cup {q}
  BY DEF AskEdit
<1> DEFINE r == [Off EXCEPT !.at = "asked", !.doing = "edit", !.policy = q,
                            !.next = q, !.old = memory]
<1>2. /\ proc[Daemon].at = "serving" /\ LaterCount /\ count'.file = count.file
      /\ UNCHANGED <<db, snapshot, protected, lock, memory>>
  BY <1>0, CountedLater DEF AskEdit
<1>3. /\ r \in Activities /\ r.at = "asked" /\ r.doing = "edit"
      /\ r.policy = q /\ r.next = q /\ r.old = memory
  BY <1>0 DEF PersistenceTypeOK, Off, Activities, Points
<1>4. proc' = [proc EXCEPT ![Daemon] = r]
  BY <1>1
<1> HIDE DEF r
<1>5. proc'[Daemon] = r /\ \A p \in Processes \ {Daemon} : proc'[p] = proc[p]
  BY <1>0, <1>4 DEF PersistenceTypeOK
<1>6. PersistenceTypeOK'
  BY <1>0, <1>1, <1>2, <1>3, <1>4, <1>5 DEF PersistenceTypeOK, LaterCount, Unlocked
<1>7. ASSUME NEW p \in Processes PROVE StartKept(p)'
  <2>1. CASE p = Daemon
    BY <1>3, <1>5, <2>1 DEF StartKept
  <2> QED
    BY <1>2, <1>5, <2>1, FilesKept
<1>8. ToolsKept'
  BY <1>0, <1>2, <1>5 DEF ToolsKept, Processes
<1>9. ServingKept'
  BY <1>0, <1>1, <1>2, <1>3, <1>5 DEF ServingKept, Serves, Current
<1>10. FoundKept'
  <2>1. snapshot # None
    BY <1>0, <1>2 DEF ServingKept, Serves
  <2> QED
    BY <1>0, <1>1, <1>2, <2>1 DEF FoundKept, Stood, LaterCount
<1> QED
  BY <1>6, <1>7, <1>8, <1>9, <1>10 DEF PersistenceKept

LEMMA SyncTotalsStep == ASSUME PersistenceKept, SyncTotals PROVE PersistenceKept'
<1> USE PersistenceAssumption
<1>0. PersistenceTypeOK /\ ServingKept /\ FoundKept /\ Daemon \in Processes
      /\ StartKept(Daemon)
  BY DEF PersistenceKept, Processes
<1>1. proc[Daemon].at = "totals" /\ UNCHANGED <<db, snapshot, protected>>
  BY DEF SyncTotals
<1>2. /\ lock = Daemon /\ proc[Daemon] \in Activities /\ proc[Daemon].doing = "edit"
      /\ Serves /\ Current
  BY <1>0, <1>1, Exclusive DEF Unlocked, StartKept, Opened, ServingKept, Serves,
     Writing, PersistenceTypeOK, Activities
<1>3. memory \in Policies /\ db = memory /\ snapshot \in Policies
      /\ protected \in BOOLEAN
  BY <1>0, <1>2 DEF ServingKept, PersistenceTypeOK
<1>4. CASE Goes(Daemon, "clear") /\ UNCHANGED <<lock, memory, standing, count>>
  <2> DEFINE r == [proc[Daemon] EXCEPT !.at = "clear"]
  <2>1. /\ r \in Activities /\ r.at = "clear" /\ r.doing = "edit"
        /\ r.policy = proc[Daemon].policy /\ r.next = proc[Daemon].next
        /\ r.old = proc[Daemon].old
    BY <1>2 DEF Activities, Points
  <2>2. proc' = [proc EXCEPT ![Daemon] = r]
    BY <1>4 DEF Goes
  <2> HIDE DEF r
  <2>3. proc'[Daemon] = r /\ LaterCount
    BY <1>0, <1>4, <2>2 DEF PersistenceTypeOK, LaterCount
  <2>4. ServingKept'
    BY <1>0, <1>1, <1>2, <1>4, <2>1, <2>3 DEF ServingKept, Serves, Writing
  <2>5. FoundKept'
    BY <1>0, <1>1, <1>4 DEF FoundKept, Stood
  <2>6. r.at \notin Unlocked
    BY <2>1 DEF Unlocked
  <2> QED
    BY <1>1, <1>2, <1>3, <1>4, <2>1, <2>2, <2>3, <2>4, <2>5, <2>6, EditMoves
<1>5. CASE Counted("db", MaxDbFailures) /\ Answers(memory)
  <2>1. LaterCount /\ count'.file = count.file
    BY <1>0, <1>5, CountedLater
  <2> QED
    BY <1>1, <1>2, <1>3, <1>5, <2>1, AnswersKept DEF Current
<1> QED
  BY <1>4, <1>5 DEF SyncTotals

LEMMA CommitStep == ASSUME PersistenceKept, Commit PROVE PersistenceKept'
<1> USE PersistenceAssumption
<1>0. PersistenceTypeOK /\ ServingKept /\ FoundKept /\ Daemon \in Processes
      /\ StartKept(Daemon)
  BY DEF PersistenceKept, Processes
<1>1. proc[Daemon].at = "commit" /\ UNCHANGED <<snapshot, protected>>
  BY DEF Commit
<1>2. /\ lock = Daemon /\ proc[Daemon] \in Activities /\ proc[Daemon].doing = "edit"
      /\ Serves
  BY <1>0, <1>1, Exclusive DEF Unlocked, StartKept, Opened, ServingKept, Serves,
     Writing, PersistenceTypeOK, Activities
<1>3. /\ memory \in Policies /\ db = memory /\ snapshot \in Policies
      /\ snapshot = proc[Daemon].next /\ proc[Daemon].next \in standing
      /\ proc[Daemon].policy = proc[Daemon].next /\ proc[Daemon].old = memory
      /\ protected \in BOOLEAN
      /\ count.file = 0 => protected = Immutable
  BY <1>0, <1>1, <1>2 DEF ServingKept, PersistenceTypeOK
<1>4. CASE CommitDone
  <2> DEFINE r == [proc[Daemon] EXCEPT !.at = "totalsAfter"]
  <2>1. /\ r \in Activities /\ r.at = "totalsAfter" /\ r.doing = "edit"
        /\ r.policy = proc[Daemon].policy /\ r.next = proc[Daemon].next
    BY <1>2 DEF Activities, Points
  <2>2. /\ proc' = [proc EXCEPT ![Daemon] = r]
        /\ db' = proc[Daemon].next /\ memory' = proc[Daemon].next
        /\ UNCHANGED <<lock, standing, count>>
    BY <1>4 DEF CommitDone, Goes
  <2> HIDE DEF r
  <2>3. proc'[Daemon] = r /\ LaterCount
    BY <1>0, <2>2 DEF PersistenceTypeOK, LaterCount
  <2>4. ServingKept'
    BY <1>1, <1>3, <2>1, <2>2, <2>3 DEF ServingKept, Serves, Writing
  <2>5. FoundKept'
    BY <1>0, <1>1, <1>3, <2>2 DEF FoundKept, Stood
  <2>6. r.at \notin Unlocked
    BY <2>1 DEF Unlocked
  <2> QED
    BY <1>1, <1>2, <1>3, <2>1, <2>2, <2>3, <2>4, <2>5, <2>6, EditMoves
<1>5. CASE /\ Counted("db", MaxDbFailures)
           /\ proc' = [proc EXCEPT ![Daemon].at = "clear", ![Daemon].doing = "rollback",
                                   ![Daemon].policy = proc[Daemon].old]
           /\ UNCHANGED <<db, lock, memory, standing>>
  <2> DEFINE r == [proc[Daemon] EXCEPT !.at = "clear", !.doing = "rollback",
                                       !.policy = proc[Daemon].old]
  <2>1. /\ r \in Activities /\ r.at = "clear" /\ r.doing = "rollback"
        /\ r.policy = memory
    BY <1>2, <1>3 DEF Activities, Points
  <2>2. proc' = [proc EXCEPT ![Daemon] = r]
    BY <1>5
  <2> HIDE DEF r
  <2>3. proc'[Daemon] = r /\ LaterCount /\ count'.file = count.file
    BY <1>0, <1>5, <2>2, CountedLater DEF PersistenceTypeOK
  <2>4. ServingKept'
    BY <1>0, <1>1, <1>2, <1>5, <2>1, <2>3 DEF ServingKept, Serves, Writing
  <2>5. FoundKept'
    BY <1>0, <1>1, <1>5, <2>3 DEF FoundKept, Stood, LaterCount
  <2>6. r.at \notin Unlocked
    BY <2>1 DEF Unlocked
  <2> QED
    BY <1>1, <1>2, <1>3, <1>5, <2>1, <2>2, <2>3, <2>4, <2>5, <2>6, EditMoves
<1> QED
  BY <1>4, <1>5 DEF Commit

LEMMA SyncAfterStep == ASSUME PersistenceKept, SyncAfter PROVE PersistenceKept'
<1>0. PersistenceTypeOK /\ ServingKept /\ Daemon \in Processes /\ StartKept(Daemon)
  BY DEF PersistenceKept, Processes
<1>1. /\ proc[Daemon].at = "totalsAfter" /\ Answers(memory)
      /\ UNCHANGED <<db, snapshot, protected>>
      /\ UNCHANGED count \/ Counted("db", MaxDbFailures)
  BY DEF SyncAfter
<1>2. lock = Daemon /\ proc[Daemon].doing = "edit" /\ Serves
  BY <1>0, <1>1, Exclusive DEF Unlocked, StartKept, Opened, ServingKept, Serves,
     Writing, PersistenceTypeOK, Activities
<1>3. /\ snapshot = memory /\ protected \in BOOLEAN
      /\ count.file = 0 => protected = Immutable
  BY <1>0, <1>1, <1>2 DEF ServingKept, PersistenceTypeOK
<1>4. LaterCount /\ count'.file = count.file
  BY <1>0, <1>1, CountedLater
<1> QED
  BY <1>1, <1>2, <1>3, <1>4, AnswersKept

-----------------------------------------------------------------------------
(* Crashes and losses.                                                      *)

LEMMA CrashStep ==
    ASSUME PersistenceKept, NEW p \in Processes, Crash(p)
    PROVE  PersistenceKept'
<1> USE PersistenceAssumption
<1>0. PersistenceTypeOK /\ ToolsKept /\ ServingKept /\ FoundKept
      /\ Daemon \in Processes
  BY DEF PersistenceKept, Processes
<1>1. Off \in Activities /\ Off.at = "off" /\ Off.doing = "start" /\ ~Off.fresh
  BY DEF Off, Activities, Points
<1>2. /\ proc' = [proc EXCEPT ![p] = Off] /\ Free(p)
      /\ memory' = IF p = Daemon THEN None ELSE memory
      /\ UNCHANGED <<db, snapshot, protected, standing>>
      /\ LaterCount /\ count'.file = count.file
  BY <1>0, CountedLater DEF Crash
<1>3. proc'[p] = Off /\ \A q \in Processes \ {p} : proc'[q] = proc[q]
  BY <1>0, <1>2 DEF PersistenceTypeOK
<1>4. PersistenceTypeOK'
  <2>1. \A q \in Processes : proc'[q].at \notin Unlocked <=> lock' = q
    BY <1>0, <1>1, <1>2, <1>3 DEF PersistenceTypeOK, Free, Unlocked
  <2> QED
    BY <1>0, <1>1, <1>2, <2>1 DEF PersistenceTypeOK, Free, LaterCount
<1>5. ASSUME NEW q \in Processes PROVE StartKept(q)'
  <2>1. CASE q = p
    BY <1>1, <1>3, <2>1 DEF StartKept, Opened, Writing
  <2> QED
    BY <1>2, <1>3, <2>1, FilesKept
<1>6. ToolsKept'
  BY <1>0, <1>1, <1>2, <1>3 DEF ToolsKept, Processes
<1>7. ServingKept'
  <2>1. CASE p = Daemon
    BY <1>1, <1>2, <1>3, <2>1 DEF ServingKept, Serves
  <2>2. CASE p # Daemon
    BY <1>0, <1>2, <1>3, <2>2, ToolMoves
  <2> QED
    BY <2>1, <2>2
<1>8. FoundKept'
  BY <1>0, <1>2 DEF FoundKept, Stood, LaterCount
<1> QED
  BY <1>4, <1>5, <1>6, <1>7, <1>8 DEF PersistenceKept

LEMMA LoseStep == ASSUME PersistenceKept, LoseDatabase PROVE PersistenceKept'
<1> USE PersistenceAssumption
<1>0. PersistenceTypeOK /\ ToolsKept /\ ServingKept /\ FoundKept
      /\ Daemon \in Processes
  BY DEF PersistenceKept, Processes
<1>1. /\ db' = NoFile
      /\ UNCHANGED <<snapshot, protected, lock, proc, memory, standing>>
      /\ \A p \in Processes : proc[p].at = "off"
      /\ count' \in [DOMAIN Zero -> Nat]
      /\ count'.losses # 0 /\ count'.file = count.file
  BY <1>0 DEF LoseDatabase, Counted, PersistenceTypeOK, Zero
<1>2. PersistenceTypeOK'
  BY <1>0, <1>1 DEF PersistenceTypeOK
<1>3. \A p \in Processes : StartKept(p)'
  BY <1>1 DEF PersistenceKept, StartKept, Opened, Writing
<1>4. ToolsKept'
  BY <1>0, <1>1 DEF ToolsKept
<1>5. ServingKept'
  <2>1. ~Serves /\ memory = None /\ proc[Daemon].doing = "start"
    BY <1>0, <1>1 DEF ServingKept, Serves, Writing, PersistenceTypeOK, Activities
  <2> QED
    BY <1>1, <2>1 DEF ServingKept, Serves
<1>6. FoundKept'
  BY <1>0, <1>1 DEF FoundKept, Stood
<1> QED
  BY <1>2, <1>3, <1>4, <1>5, <1>6 DEF PersistenceKept

LEMMA PersistenceStep ==
    PersistenceKept /\ [PersistenceNext]_policyVars => PersistenceKept'
<1> SUFFICES ASSUME PersistenceKept, [PersistenceNext]_policyVars
             PROVE  PersistenceKept'
  OBVIOUS
<1>1. ASSUME NEW p \in Processes, Start(p) \/ TakeLock(p) \/ Step(p) \/ Crash(p)
      PROVE  PersistenceKept'
  BY <1>1, StartStep, TakeLockStep, CrashStep, OpenStep, LoadStep, RuleStep,
     LoadedStep, ClearStep, RenameStep, ProtectStep DEF Step
<1>2. CASE AskEdit \/ Edit \/ LoseDatabase
  BY <1>2, AskStep, SyncTotalsStep, CommitStep, SyncAfterStep, LoseStep DEF Edit
<1>3. CASE UNCHANGED policyVars
  <2>1. \A q \in Processes : StartKept(q)'
    BY <1>3, FilesKept DEF policyVars
  <2>2. PersistenceTypeOK' /\ ToolsKept' /\ FoundKept'
    BY <1>3 DEF policyVars, PersistenceKept, PersistenceTypeOK, ToolsKept,
       FoundKept, Stood
  <2>3. ServingKept'
    BY <1>3, ToolMoves DEF policyVars
  <2> QED
    BY <2>1, <2>2, <2>3 DEF PersistenceKept
<1> QED
  BY <1>1, <1>2, <1>3 DEF PersistenceNext

LEMMA AlwaysKept == PersistenceSpec => []PersistenceKept
  BY InitKept, PersistenceStep, PTL DEF PersistenceSpec

-----------------------------------------------------------------------------
(* What follows from it.                                                    *)

\* Between edits, while no step on the snapshot has failed, the snapshot, the
\* database and the daemon have one policy and the snapshot is protected,
\* whatever failed in the database, crashed or was lost before.
THEOREM SnapshotStaysCurrent == PersistenceSpec => []PersistenceInvariant
<1>1. PersistenceKept => PersistenceInvariant
  <2> SUFFICES ASSUME PersistenceKept, proc[Daemon].at = "serving", count.file = 0
               PROVE  snapshot = db /\ db = memory /\ protected = Immutable
    BY DEF PersistenceKept, PersistenceInvariant, SnapshotIsCurrent
  <2> QED
    BY DEF PersistenceKept, ServingKept, Serves, Current
<1> QED
  BY <1>1, AlwaysKept, PTL

\* A daemon that starts enforces a policy a client may expect, through every
\* number of failures, crashes, tools and losses of the database, unless a
\* failing step on the snapshot and a loss come together.
THEOREM RestartsAreFaithful == PersistenceSpec => RestartsWhereItStood
<1>1. PersistenceKept /\ [PersistenceNext]_policyVars => [RestartStep]_policyVars
  <2> SUFFICES ASSUME PersistenceKept, PersistenceNext, memory = None,
                      memory' # None, count.file = 0 \/ count.losses = 0
               PROVE  memory' \in {WithBrowserRule[q] : q \in standing}
    BY DEF RestartStep
  <2>0. PersistenceTypeOK /\ FoundKept /\ ServingKept /\ Daemon \in Processes
        /\ StartKept(Daemon)
    BY DEF PersistenceKept, Processes
  <2>1. ~Serves
    BY <2>0 DEF ServingKept
  <2>2. CASE Loaded(Daemon)
    <3>1. memory' = proc[Daemon].policy /\ proc[Daemon].at = "loaded"
      BY <2>2 DEF Loaded
    <3>2. /\ proc[Daemon].doing = "start" /\ db = memory' /\ memory' \in Policies
          /\ WithBrowserRule[memory'] = memory'
      BY <2>0, <2>1, <3>1 DEF Serves, StartKept, Opened, Persists
    <3>3. memory' \in Stood
      BY <2>0, <3>2 DEF FoundKept
    <3> QED
      BY <3>2, <3>3 DEF Stood
  <2>3. CASE \E p \in Processes : Start(p) \/ TakeLock(p) \/ Open(p) \/ AddBrowserRule(p)
    <3>1. memory' = memory
      BY <2>3 DEF Start, TakeLock, Open, AddBrowserRule
    <3> QED
      BY <3>1
  <2>4. CASE \E p \in Processes : LoadPolicy(p)
    <3>1. memory' = memory
      BY <2>4 DEF LoadPolicy, Exits
    <3> QED
      BY <3>1
  <2>5. CASE \E p \in Processes : Crash(p)
    <3>1. memory' \in {None, memory}
      BY <2>5 DEF Crash
    <3> QED
      BY <3>1
  <2>6. CASE \E p \in Processes : p # Daemon /\ Loaded(p)
    <3>1. memory' = memory
      BY <2>6 DEF Loaded
    <3> QED
      BY <3>1
  <2>7. CASE \E p \in Processes : Clear(p) \/ Rename(p) \/ Protect(p)
    <3>1. PICK p \in Processes : Clear(p) \/ Rename(p) \/ Protect(p)
      BY <2>7
    <3>2. proc[p].doing \in {"start", "edit", "rollback"}
      BY <2>0 DEF PersistenceTypeOK, Activities
    <3>3. WriteDone(p) \/ WriteFails(p) => memory' = memory
      BY <3>2 DEF WriteDone, WriteFails, Exits, Answers
    <3>4. memory' = memory
      BY <3>1, <3>3 DEF Clear, Rename, Protect
    <3> QED
      BY <3>4
  <2>8. CASE AskEdit \/ SyncTotals \/ SyncAfter \/ LoseDatabase
    BY <2>8 DEF AskEdit, SyncTotals, SyncAfter, LoseDatabase, Answers
  <2>9. CASE Commit
    <3>1. proc[Daemon].doing # "start"
      BY <2>0, <2>9 DEF Commit, StartKept, Opened
    <3> QED
      BY <2>1, <3>1 DEF Serves
  <2> QED
    BY <2>2, <2>3, <2>4, <2>5, <2>6, <2>7, <2>8, <2>9 DEF PersistenceNext, Step, Edit
<1> QED
  BY <1>1, AlwaysKept, PTL DEF PersistenceSpec, RestartsWhereItStood
=============================================================================
