-------------------------- MODULE BrowserPolicyProofs --------------------------
(***************************************************************************)
(* Theorems about what BlocKuntu writes for a browser: the merged Firefox   *)
(* policy (MergedPolicy) and the file of a Chromium browser                 *)
(* (PrivateBrowsing).                                                       *)
(***************************************************************************)
EXTENDS MergedPolicy, PrivateBrowsing, TLAPS

-----------------------------------------------------------------------------
(* The merged policy implements PolicyOverlay, for every set of settings,   *)
(* documents, repairs, removals and crashes of one task.                    *)

\* A managed setting that nobody but BlocKuntu gives its value: by it a document
\* that has our settings is told from one that has not.
Own == CHOOSE k \in Managed : Ours \notin UserMay[k]

\* Without a backup the document is the user's or an earlier version's, and
\* what a backup holds can all be put back.
Records(shown, b) ==
    /\ b = NoBackup => Includes(shown) \/ shown[Own] # Ours
    /\ b # NoBackup =>
          /\ b.values[Own] # Ours
          /\ b.missing => \A k \in Managed : b.values[k] = Absent
          /\ \A k \in Managed : b.values[k] # Absent => HasParent(shown, k)

RecordsKept == Records(Shown, backup)

\* What a task has read is what the files say, and a backup is forgotten only
\* when its values are back.
TaskKept(t) ==
    /\ task[t].at \in {"backup", "merge", "restore"} => task[t].read = document
    /\ task[t].at = "merge" => backup # NoBackup
    /\ task[t].at \in {"read", "restore", "forget"} => task[t].saved = backup
    /\ task[t].at = "forget" => \A k \in Managed : Shown[k] = backup.values[k]

MergedKept == MergedTypeOK /\ RecordsKept /\ \A t \in Tasks : TaskKept(t)

-----------------------------------------------------------------------------
(* What the operations on documents return.                                 *)

LEMMA OwnIsManaged ==
    ASSUME \E k \in Managed : Ours \notin UserMay[k]
    PROVE  Own \in Managed /\ Own \in Keys /\ Ours \notin UserMay[Own]
BY DocumentAssumption DEF Own

LEMMA DocumentValues == Absent \in Values /\ Ours \in Values /\ Empty \in Documents
<1>1. Absent \in Values /\ Ours \in Values
  BY DEF Values
<1> QED
  BY <1>1 DEF Documents, Empty

\* A setting that is there has its object.
LEMMA PresentHasParent ==
    \A d : \A k \in Keys : d[k] # Absent => HasParent(d, k)
BY DEF HasParent

LEMMA MergeGives ==
    ASSUME NEW d \in Documents
    PROVE  /\ MergeOurs(d) \in Documents
           /\ \A k \in Managed : MergeOurs(d)[k] = Ours
           /\ \A k \in Keys : k \notin Managed => MergeOurs(d)[k] = d[k]
<1>1. \A k \in Keys : d[k] \in Values
  BY DEF Documents
<1> QED
  BY <1>1, DocumentValues, DocumentAssumption DEF MergeOurs, Documents

LEMMA RestoreIsADocument ==
    ASSUME NEW d \in Documents, NEW b \in Backups
    PROVE  /\ Restore(d, b) \in Documents
           /\ \A k \in Keys :
                 Restore(d, b)[k] = IF k \in Managed /\ HasParent(d, k)
                                    THEN b.values[k] ELSE d[k]
<1>1. \A k \in Keys : d[k] \in Values
  BY DEF Documents
<1>2. \A k \in Managed : b.values[k] \in Values
  BY DEF Backups
<1> DEFINE value(k) == IF k \in Managed /\ HasParent(d, k) THEN b.values[k] ELSE d[k]
<1>3. \A k \in Keys : value(k) \in Values
  BY <1>1, <1>2
<1>4. Restore(d, b) = [k \in Keys |-> value(k)]
  BY DEF Restore
<1> HIDE DEF value
<1>5. Restore(d, b) \in Documents /\ \A k \in Keys : Restore(d, b)[k] = value(k)
  BY <1>3, <1>4 DEF Documents
<1> QED
  BY <1>5 DEF value

\* With its objects there, every managed setting is what the backup says.
LEMMA RestoreGives ==
    ASSUME NEW d \in Documents, NEW b \in Backups,
           \A k \in Managed : b.values[k] # Absent => HasParent(d, k)
    PROVE  /\ \A k \in Managed : Restore(d, b)[k] = b.values[k]
           /\ \A k \in Keys : k \notin Managed => Restore(d, b)[k] = d[k]
<1>1. ASSUME NEW k \in Managed PROVE Restore(d, b)[k] = b.values[k]
  <2>1. k \in Keys
    BY DocumentAssumption
  <2>2. CASE HasParent(d, k)
    BY <2>1, <2>2, RestoreIsADocument
  <2>3. CASE ~HasParent(d, k)
    <3>1. b.values[k] = Absent /\ d[k] = Absent
      BY <2>1, <2>3, PresentHasParent
    <3> QED
      BY <2>1, <2>3, <3>1, RestoreIsADocument
  <2> QED
    BY <2>2, <2>3
<1> QED
  BY <1>1, RestoreIsADocument

LEMMA NothingSavedIsABackup ==
    /\ NothingSaved \in Backups /\ NothingSaved.missing
    /\ \A k \in Managed : NothingSaved.values[k] = Absent
BY DocumentValues DEF NothingSaved, Backups

\* What is recorded is what the user has under our settings.
LEMMA BackupOfGives ==
    ASSUME NEW d \in Documents \cup {Missing}, Managed # {}
    PROVE  LET shown == IF d = Missing THEN Empty ELSE d
               b == BackupOf(d)
           IN  /\ b \in Backups
               /\ \A k \in Managed :
                     b.values[k] = IF Includes(shown) THEN Absent ELSE shown[k]
               /\ b.missing => \A k \in Managed : b.values[k] = Absent
<1>1. CASE d = Missing
  <2>1. BackupOf(d) = NothingSaved
    BY <1>1 DEF BackupOf
  <2>2. \A k \in Managed : Empty[k] = Absent
    BY DocumentAssumption DEF Empty
  <2> QED
    BY <1>1, <2>1, <2>2, NothingSavedIsABackup
<1>2. CASE d # Missing
  <2> DEFINE original == IF Includes(d) THEN Restore(d, NothingSaved) ELSE d
             missing == Includes(d) /\ original = Empty
             values == [k \in Managed |-> original[k]]
  <2>1. d \in Documents
    BY <1>2
  <2>2. BackupOf(d) = [missing |-> missing, values |-> values]
    BY <1>2 DEF BackupOf
  <2>3. original \in Documents
    BY <2>1, RestoreIsADocument, NothingSavedIsABackup
  <2>4. ASSUME NEW k \in Managed
        PROVE  original[k] = IF Includes(d) THEN Absent ELSE d[k]
    <3>1. CASE Includes(d)
      <4>1. k \in Keys /\ HasParent(d, k)
        BY <3>1, DocumentAssumption, PresentHasParent DEF Includes
      <4>2. Restore(d, NothingSaved)[k] = Absent
        BY <2>1, <4>1, RestoreIsADocument, NothingSavedIsABackup
      <4> QED
        BY <3>1, <4>2
    <3>2. CASE ~Includes(d)
      BY <3>2
    <3> QED
      BY <3>1, <3>2
  <2>5. missing => \A k \in Managed : original[k] = Absent
    BY <2>4
  <2>6. missing \in BOOLEAN
    OBVIOUS
  <2>7. \A k \in Managed : original[k] \in Values
    BY <2>3, DocumentAssumption DEF Documents
  <2> HIDE DEF original, missing
  <2>8. values \in [Managed -> Values] /\ \A k \in Managed : values[k] = original[k]
    BY <2>7
  <2> HIDE DEF values
  <2>9. /\ BackupOf(d) \in Backups /\ BackupOf(d).missing = missing
        /\ BackupOf(d).values = values
    BY <2>2, <2>6, <2>8 DEF Backups
  <2> QED
    BY <1>2, <2>4, <2>5, <2>8, <2>9
<1> QED
  BY <1>1, <1>2

-----------------------------------------------------------------------------
(* Types, with any tasks.                                                   *)

LEMMA NoTaskIsAState ==
    NoTask \in TaskStates /\ NoTask.at = "idle" /\ NoTask.saved = NoBackup
BY DEF NoTask, TaskStates

LEMMA ShownIsADocument == MergedTypeOK => Shown \in Documents
BY DocumentValues DEF MergedTypeOK, Shown

StateFits(s) ==
    /\ s.at = "restore" => s.read # Missing
    /\ s.at \in {"read", "restore", "forget"} <=> s.saved # NoBackup

\* A step of one task.
LEMMA TaskMoves ==
    ASSUME MergedTypeOK, NEW t \in Tasks, NEW s \in TaskStates, StateFits(s),
           task' = [task EXCEPT ![t] = s],
           document' \in Documents \cup {Missing}, backup' \in Backups \cup {NoBackup},
           removals' \in Nat, UNCHANGED <<userEdits, crashes>>
    PROVE  MergedTypeOK' /\ task'[t] = s
<1>1. /\ task' \in [Tasks -> TaskStates] /\ task'[t] = s
      /\ \A q \in Tasks : q # t => task'[q] = task[q]
  BY DEF MergedTypeOK
<1> QED
  BY <1>1 DEF MergedTypeOK, StateFits

LEMMA BeginRepairMoves ==
    ASSUME MergedTypeOK, NEW t \in Tasks, BeginRepair(t)
    PROVE  MergedTypeOK' /\ task'[t].at = "backup" /\ task'[t].read = document
<1> DEFINE s == [at |-> "backup", read |-> document, saved |-> NoBackup]
<1>1. s \in TaskStates /\ StateFits(s) /\ s.at = "backup" /\ s.read = document
  BY DEF MergedTypeOK, TaskStates, StateFits
<1>2. task' = [task EXCEPT ![t] = s]
      /\ UNCHANGED <<document, backup, userEdits, removals, crashes>>
  BY DEF BeginRepair
<1> HIDE DEF s
<1>3. document' \in Documents \cup {Missing} /\ backup' \in Backups \cup {NoBackup}
      /\ removals' \in Nat
  BY <1>2 DEF MergedTypeOK
<1> QED
  BY <1>1, <1>2, <1>3, TaskMoves

LEMMA EnsureBackupMoves ==
    ASSUME MergedTypeOK, Managed # {}, NEW t \in Tasks, EnsureBackup(t)
    PROVE  /\ MergedTypeOK'
           /\ task[t].at = "backup" /\ backup' # NoBackup
           /\ backup' = IF backup = NoBackup THEN BackupOf(task[t].read) ELSE backup
           /\ \/ task'[t] = NoTask
              \/ task'[t].at = "merge" /\ task'[t].read = task[t].read
           /\ document' = document
<1> DEFINE r == task[t].read
           s == IF r # Missing /\ Includes(r) THEN NoTask ELSE [task[t] EXCEPT !.at = "merge"]
<1>1. task[t] \in TaskStates /\ r \in Documents \cup {Missing}
      /\ (task[t].at \in {"read", "restore", "forget"} <=> task[t].saved # NoBackup)
  BY DEF MergedTypeOK, TaskStates
<1>2. /\ task[t].at = "backup" /\ task' = [task EXCEPT ![t] = s]
      /\ backup' = IF backup = NoBackup THEN BackupOf(r) ELSE backup
      /\ UNCHANGED <<document, userEdits, removals, crashes>>
  BY DEF EnsureBackup, MergedTypeOK
<1>3. /\ s \in TaskStates /\ StateFits(s)
      /\ s = NoTask \/ (s.at = "merge" /\ s.read = r)
  <2>1. CASE r # Missing /\ Includes(r)
    BY <2>1, NoTaskIsAState DEF StateFits
  <2>2. CASE ~(r # Missing /\ Includes(r))
    <3>1. s = [task[t] EXCEPT !.at = "merge"]
      BY <2>2
    <3>2. s \in TaskStates /\ s.at = "merge" /\ s.read = r /\ s.saved = task[t].saved
      BY <1>1, <3>1 DEF TaskStates
    <3> HIDE DEF s
    <3> QED
      BY <1>1, <1>2, <3>2 DEF StateFits
  <2> QED
    BY <2>1, <2>2
<1>4. backup' \in Backups /\ backup' # NoBackup
  BY <1>1, <1>2, BackupOfGives, DocumentAssumption DEF MergedTypeOK
<1> HIDE DEF s, r
<1>5. MergedTypeOK' /\ task'[t] = s
  BY <1>2, <1>3, <1>4, TaskMoves DEF MergedTypeOK
<1> QED
  BY <1>2, <1>3, <1>4, <1>5 DEF r

LEMMA WriteMergedMoves ==
    ASSUME MergedTypeOK, NEW t \in Tasks, WriteMerged(t)
    PROVE  /\ MergedTypeOK'
           /\ task[t].at = "merge" /\ task'[t] = NoTask /\ backup' = backup
           /\ document' \in Documents
           /\ document' = MergeOurs(IF task[t].read = Missing THEN Empty ELSE task[t].read)
<1> DEFINE d == IF task[t].read = Missing THEN Empty ELSE task[t].read
<1>1. task[t].read \in Documents \cup {Missing}
  BY DEF MergedTypeOK, TaskStates
<1>2. d \in Documents
  BY <1>1, DocumentValues
<1>3. /\ task[t].at = "merge" /\ task' = [task EXCEPT ![t] = NoTask]
      /\ document' = MergeOurs(d) /\ UNCHANGED <<backup, userEdits, removals, crashes>>
  BY DEF WriteMerged
<1> HIDE DEF d
<1>4. document' \in Documents
  BY <1>2, <1>3, MergeGives
<1>5. StateFits(NoTask)
  BY NoTaskIsAState DEF StateFits
<1>6. MergedTypeOK' /\ task'[t] = NoTask
  BY <1>3, <1>4, <1>5, NoTaskIsAState, TaskMoves DEF MergedTypeOK
<1> QED
  BY <1>3, <1>4, <1>6 DEF d

LEMMA BeginRemovalMoves ==
    ASSUME MergedTypeOK, NEW t \in Tasks, BeginRemoval(t)
    PROVE  /\ MergedTypeOK' /\ UNCHANGED <<document, backup>>
           /\ task'[t] = NoTask \/ (task'[t].at = "read" /\ task'[t].saved = backup)
<1> DEFINE s == IF backup = NoBackup THEN NoTask
                ELSE [at |-> "read", read |-> Missing, saved |-> backup]
<1>1. /\ s \in TaskStates /\ StateFits(s)
      /\ s = NoTask \/ (s.at = "read" /\ s.saved = backup)
  <2>1. CASE backup = NoBackup
    BY <2>1, NoTaskIsAState DEF StateFits
  <2>2. CASE backup # NoBackup
    BY <2>2 DEF StateFits, TaskStates, MergedTypeOK
  <2> QED
    BY <2>1, <2>2
<1>2. task' = [task EXCEPT ![t] = s] /\ UNCHANGED <<document, backup, userEdits, crashes>>
      /\ removals' = removals + 1
  BY DEF BeginRemoval
<1> HIDE DEF s
<1>3. document' \in Documents \cup {Missing} /\ backup' \in Backups \cup {NoBackup}
      /\ removals' \in Nat
  BY <1>2 DEF MergedTypeOK
<1>4. MergedTypeOK' /\ task'[t] = s
  BY <1>1, <1>2, <1>3, TaskMoves
<1> QED
  BY <1>1, <1>2, <1>4

LEMMA ReadDocumentMoves ==
    ASSUME MergedTypeOK, NEW t \in Tasks, ReadDocument(t)
    PROVE  /\ MergedTypeOK' /\ UNCHANGED <<document, backup>>
           /\ task[t].at = "read"
           /\ \/ task'[t] = NoTask
              \/ /\ task'[t].at = "restore" /\ task'[t].read = document
                 /\ task'[t].saved = task[t].saved
              \/ /\ task'[t].at = "forget" /\ task'[t].saved = task[t].saved
                 /\ document = Missing /\ task[t].saved.missing
<1> DEFINE saved == task[t].saved
           s == CASE document # Missing -> [task[t] EXCEPT !.at = "restore", !.read = document]
                  [] document = Missing /\ saved.missing -> [task[t] EXCEPT !.at = "forget"]
                  [] OTHER -> NoTask
<1>1. task[t] \in TaskStates /\ document \in Documents \cup {Missing}
      /\ (task[t].at \in {"read", "restore", "forget"} <=> saved # NoBackup)
  BY DEF MergedTypeOK
<1>2. /\ task[t].at = "read" /\ task' = [task EXCEPT ![t] = s]
      /\ UNCHANGED <<document, backup, userEdits, removals, crashes>>
  BY DEF ReadDocument, MergedTypeOK
<1>3. /\ s \in TaskStates /\ StateFits(s)
      /\ \/ s = NoTask
         \/ s.at = "restore" /\ s.read = document /\ s.saved = saved
         \/ s.at = "forget" /\ s.saved = saved /\ document = Missing /\ saved.missing
  <2>1. CASE document # Missing
    <3>1. s = [task[t] EXCEPT !.at = "restore", !.read = document]
      BY <2>1
    <3>2. s \in TaskStates /\ s.at = "restore" /\ s.read = document /\ s.saved = saved
      BY <1>1, <3>1 DEF TaskStates
    <3> HIDE DEF s
    <3> QED
      BY <1>1, <1>2, <2>1, <3>2 DEF StateFits
  <2>2. CASE document = Missing /\ saved.missing
    <3>1. s = [task[t] EXCEPT !.at = "forget"]
      BY <2>2
    <3>2. s \in TaskStates /\ s.at = "forget" /\ s.saved = saved
      BY <1>1, <3>1 DEF TaskStates
    <3> HIDE DEF s
    <3> QED
      BY <1>1, <1>2, <2>2, <3>2 DEF StateFits
  <2>3. CASE document = Missing /\ ~saved.missing
    <3>1. s = NoTask
      BY <2>3
    <3> QED
      BY <3>1, NoTaskIsAState DEF StateFits
  <2> QED
    BY <2>1, <2>2, <2>3
<1> HIDE DEF s
<1>4. MergedTypeOK' /\ task'[t] = s
  BY <1>2, <1>3, TaskMoves DEF MergedTypeOK
<1> QED
  BY <1>2, <1>3, <1>4

LEMMA WriteRestoredMoves ==
    ASSUME MergedTypeOK, NEW t \in Tasks, WriteRestored(t)
    PROVE  LET restored == Restore(task[t].read, task[t].saved)
           IN  /\ MergedTypeOK' /\ backup' = backup
               /\ task[t].at = "restore" /\ task'[t].at = "forget"
               /\ task'[t].saved = task[t].saved
               /\ task[t].read \in Documents /\ task[t].saved \in Backups
               /\ restored \in Documents
               /\ document' \in Documents => document' = restored
               /\ document' = Missing => restored = Empty
<1> DEFINE restored == Restore(task[t].read, task[t].saved)
           s == [task[t] EXCEPT !.at = "forget"]
<1>1. task[t] \in TaskStates /\ task[t].at = "restore"
      /\ (task[t].at = "restore" => task[t].read # Missing)
      /\ (task[t].at \in {"read", "restore", "forget"} <=> task[t].saved # NoBackup)
  BY DEF MergedTypeOK, WriteRestored
<1>2. task[t].read \in Documents /\ task[t].saved \in Backups
  BY <1>1 DEF TaskStates
<1>3. restored \in Documents
  BY <1>2, RestoreIsADocument
<1>4. /\ task' = [task EXCEPT ![t] = s]
      /\ document' = IF task[t].saved.missing /\ restored = Empty THEN Missing ELSE restored
      /\ UNCHANGED <<backup, userEdits, removals, crashes>>
  BY DEF WriteRestored, MergedTypeOK
<1>5. /\ s \in TaskStates /\ s.at = "forget" /\ s.saved = task[t].saved /\ StateFits(s)
  BY <1>1 DEF TaskStates, StateFits
<1> HIDE DEF s, restored
<1>6. document' \in Documents \cup {Missing}
  BY <1>3, <1>4
<1>7. MergedTypeOK' /\ task'[t] = s
  BY <1>4, <1>5, <1>6, TaskMoves DEF MergedTypeOK
<1>8. /\ document' \in Documents => document' = restored
      /\ document' = Missing => restored = Empty
  BY <1>3, <1>4, DocumentAssumption
<1> QED
  BY <1>1, <1>2, <1>3, <1>4, <1>5, <1>7, <1>8 DEF restored

LEMMA ForgetBackupMoves ==
    ASSUME MergedTypeOK, NEW t \in Tasks, ForgetBackup(t)
    PROVE  /\ MergedTypeOK' /\ document' = document /\ backup' = NoBackup
           /\ task[t].at = "forget" /\ task[t].saved # NoBackup /\ task'[t] = NoTask
<1>1. /\ task[t].at = "forget" /\ task' = [task EXCEPT ![t] = NoTask] /\ backup' = NoBackup
      /\ UNCHANGED <<document, userEdits, removals, crashes>>
  BY DEF ForgetBackup
<1>2. StateFits(NoTask)
  BY NoTaskIsAState DEF StateFits
<1>3. MergedTypeOK' /\ task'[t] = NoTask
  BY <1>1, <1>2, NoTaskIsAState, TaskMoves DEF MergedTypeOK
<1> QED
  BY <1>1, <1>3 DEF MergedTypeOK

LEMMA UserEditsMoves ==
    ASSUME MergedTypeOK, UserEdits
    PROVE  MergedTypeOK'
<1>0. PICK k \in Keys : \E v \in UserMay[k] : document' = [Shown EXCEPT ![k] = v]
  BY DEF UserEdits
<1>1. PICK v \in UserMay[k] : document' = [Shown EXCEPT ![k] = v]
  BY <1>0
<1>2. v \in Values
  BY DEF Values
<1>3. document' \in Documents
  BY <1>1, <1>2, ShownIsADocument DEF Documents
<1> QED
  BY <1>3 DEF UserEdits, MergedTypeOK

LEMMA LoseTasksMoves ==
    ASSUME MergedTypeOK, LoseTasks
    PROVE  /\ MergedTypeOK' /\ UNCHANGED <<document, backup>>
           /\ \A t \in Tasks : task'[t] = NoTask
<1>1. /\ task' \in [Tasks -> TaskStates] /\ \A t \in Tasks : task'[t] = NoTask
  BY NoTaskIsAState DEF LoseTasks
<1> QED
  BY <1>1, NoTaskIsAState DEF LoseTasks, MergedTypeOK

LEMMA MergedTypesInit == MergedInit => MergedTypeOK
<1> SUFFICES ASSUME MergedInit PROVE MergedTypeOK
  OBVIOUS
<1>1. document \in Documents \cup {Missing}
  <2>1. MergeOurs(Empty) \in Documents
    BY DocumentValues, MergeGives
  <2> QED
    BY <2>1 DEF MergedInit
<1>2. task \in [Tasks -> TaskStates] /\ \A t \in Tasks : task[t] = NoTask
  BY NoTaskIsAState DEF MergedInit
<1> QED
  BY <1>1, <1>2, NoTaskIsAState DEF MergedInit, MergedTypeOK

LEMMA MergedTypesStep ==
    Managed # {} /\ MergedTypeOK /\ [MergedNext]_mergedVars => MergedTypeOK'
<1> SUFFICES ASSUME Managed # {}, MergedTypeOK, [MergedNext]_mergedVars
             PROVE  MergedTypeOK'
  OBVIOUS
<1>1. CASE UNCHANGED mergedVars
  BY <1>1 DEF mergedVars, MergedTypeOK
<1>2. CASE MergedNext
  BY <1>2, UserEditsMoves, LoseTasksMoves, BeginRepairMoves, EnsureBackupMoves,
     WriteMergedMoves, BeginRemovalMoves, ReadDocumentMoves, WriteRestoredMoves,
     ForgetBackupMoves DEF MergedNext
<1> QED
  BY <1>1, <1>2

-----------------------------------------------------------------------------
(* The user's settings, as a function of the files.                         *)

Settings(shown, b) ==
    IF b = NoBackup
    THEN IF Includes(shown) THEN [k \in Keys |-> IF k \in Managed THEN Absent ELSE shown[k]]
         ELSE shown
    ELSE [k \in Keys |-> IF k \in Managed THEN b.values[k] ELSE shown[k]]

LEMMA FilesDecide ==
    /\ UserSettings = Settings(Shown, backup)
    /\ UserSettings' = Settings(Shown', backup')
    /\ RecordsKept <=> Records(Shown, backup)
    /\ RecordsKept' <=> Records(Shown', backup')
BY DEF UserSettings, Settings, RecordsKept, Records, Includes, HasParent

\* What the user will have back of a managed setting.
Returned(shown, b, k) ==
    IF b # NoBackup THEN b.values[k] ELSE IF Includes(shown) THEN Absent ELSE shown[k]

LEMMA SettingsGive ==
    ASSUME NEW shown \in Documents, NEW b \in Backups \cup {NoBackup}
    PROVE  /\ Settings(shown, b) \in [Keys -> Values]
           /\ \A k \in Keys : Settings(shown, b)[k] =
                 IF k \in Managed THEN Returned(shown, b, k) ELSE shown[k]
<1>1. shown \in [Keys -> Values]
  BY DEF Documents
<1>2. CASE b = NoBackup /\ Includes(shown)
  BY <1>1, <1>2, DocumentValues DEF Settings, Returned
<1>3. CASE b = NoBackup /\ ~Includes(shown)
  BY <1>1, <1>3 DEF Settings, Returned
<1>4. CASE b # NoBackup
  <2>1. \A k \in Managed : b.values[k] \in Values
    BY <1>4 DEF Backups
  <2>2. Settings(shown, b) = [k \in Keys |-> IF k \in Managed THEN b.values[k] ELSE shown[k]]
    BY <1>4 DEF Settings
  <2> QED
    BY <1>1, <1>4, <2>1, <2>2 DEF Returned
<1> QED
  BY <1>2, <1>3, <1>4

LEMMA SameSettings ==
    ASSUME NEW shown \in Documents, NEW b \in Backups \cup {NoBackup},
           NEW other \in Documents, NEW c \in Backups \cup {NoBackup},
           \A k \in Keys : k \notin Managed => shown[k] = other[k],
           \A k \in Managed : Returned(shown, b, k) = Returned(other, c, k)
    PROVE  Settings(shown, b) = Settings(other, c)
<1>1. \A k \in Keys : Settings(shown, b)[k] = Settings(other, c)[k]
  BY SettingsGive
<1> QED
  BY <1>1, SettingsGive

Changed(d, k, v) == [d EXCEPT ![k] = v]

\* Under a backup an edit of the document is one of the user's settings, or of
\* none.
LEMMA EditedSettings ==
    ASSUME NEW shown \in Documents, NEW b \in Backups \cup {NoBackup}, b # NoBackup,
           NEW k \in Keys, NEW v \in Values,
           NEW edited \in Documents, edited = Changed(shown, k, v)
    PROVE  \/ Settings(edited, b) = Settings(shown, b)
           \/ /\ k \notin Managed
              /\ Settings(edited, b) = Changed(Settings(shown, b), k, v)
<1>1. edited[k] = v /\ \A j \in Keys : j # k => edited[j] = shown[j]
  BY DEF Documents, Changed
<1>2. CASE k \in Managed
  <2>1. \A j \in Managed : Returned(edited, b, j) = Returned(shown, b, j)
    BY DEF Returned
  <2>2. Settings(edited, b) = Settings(shown, b)
    BY <1>1, <1>2, <2>1, SameSettings
  <2> QED
    BY <2>2
<1>3. CASE k \notin Managed
  <2>1. ASSUME NEW j \in Keys
        PROVE  Settings(edited, b)[j] = IF j = k THEN v ELSE Settings(shown, b)[j]
    <3>1. Settings(edited, b)[j] = IF j \in Managed THEN b.values[j] ELSE edited[j]
      BY SettingsGive DEF Returned
    <3>2. Settings(shown, b)[j] = IF j \in Managed THEN b.values[j] ELSE shown[j]
      BY SettingsGive DEF Returned
    <3> QED
      BY <1>1, <1>3, <3>1, <3>2
  <2>2. Settings(edited, b) \in [Keys -> Values] /\ Settings(shown, b) \in [Keys -> Values]
    BY SettingsGive
  <2> QED
    BY <1>3, <2>1, <2>2 DEF Changed
<1> QED
  BY <1>2, <1>3

\* A setting that loses its value may leave the others of its object without.
LEMMA EditedParents ==
    ASSUME NEW shown \in Documents, NEW k \in Keys, NEW v \in Values,
           NEW edited, edited = Changed(shown, k, v),
           HasParent(shown, k) => HasParent(edited, k),
           NEW j \in Keys, HasParent(shown, j)
    PROVE  HasParent(edited, j)
<1>1. \A i \in Keys : i # k => edited[i] = shown[i]
  BY DEF Documents, Changed
<1>2. CASE Parent[j] = Parent[k]
  BY <1>2 DEF HasParent
<1>3. CASE Parent[j] # Parent[k]
  BY <1>1, <1>3 DEF HasParent
<1> QED
  BY <1>2, <1>3

-----------------------------------------------------------------------------
(* Each step of the one task leaves the records kept and changes no setting *)
(* the user will have back.                                                 *)

\* One task at a time, and nobody empties an object or installs all of ours.
Alone(t) ==
    /\ Tasks = {t} /\ EmptyObjects = FALSE
    /\ \E k \in Managed : Ours \notin UserMay[k]

LEMMA AloneFacts ==
    ASSUME NEW t, Alone(t), MergedKept
    PROVE  /\ MergedTypeOK /\ Shown \in Documents /\ backup \in Backups \cup {NoBackup}
           /\ document \in Documents \cup {Missing}
           /\ Own \in Managed /\ Own \in Keys /\ Ours \notin UserMay[Own]
           /\ Managed # {} /\ Managed \subseteq Keys /\ t \in Tasks
           /\ Records(Shown, backup) /\ TaskKept(t)
BY FilesDecide, OwnIsManaged, ShownIsADocument, DocumentAssumption
DEF Alone, MergedKept, MergedTypeOK

LEMMA UserEditsOverlay ==
    ASSUME NEW t, Alone(t), MergedKept, UserEdits
    PROVE  /\ RecordsKept' /\ TaskKept(t)' /\ backup' = backup
           /\ \/ UserSettings' = UserSettings
              \/ \E k \in (IF backup # NoBackup THEN Keys \ Managed ELSE Keys), v \in Values :
                     UserSettings' = Changed(UserSettings, k, v)
<1>0. /\ Shown \in Documents /\ backup \in Backups \cup {NoBackup} /\ Own \in Managed
      /\ Own \in Keys /\ Ours \notin UserMay[Own] /\ Managed \subseteq Keys /\ t \in Tasks
      /\ Records(Shown, backup)
  BY AloneFacts
<1>1. PICK k \in Keys : \E v \in UserMay[k] :
          /\ document' = Changed(Shown, k, v)
          /\ HasParent(Shown, k) => HasParent(Changed(Shown, k, v), k)
  BY DEF UserEdits, Alone, Changed
<1>2. PICK v \in UserMay[k] :
          /\ document' = Changed(Shown, k, v)
          /\ HasParent(Shown, k) => HasParent(Changed(Shown, k, v), k)
  BY <1>1
<1> DEFINE edited == Changed(Shown, k, v)
<1>3. v \in Values
  BY DEF Values
<1>4. edited \in Documents /\ edited[k] = v /\ \A j \in Keys : j # k => edited[j] = Shown[j]
  BY <1>0, <1>3 DEF Documents, Changed
<1>5. Shown' = edited /\ UNCHANGED <<backup, task>>
  BY <1>2, <1>4, DocumentAssumption DEF Shown, UserEdits
<1>6. backup = NoBackup => ~Includes(Shown) /\ Shown[Own] # Ours
  BY <1>0 DEF UserEdits, Records
<1>7. edited = Changed(Shown, k, v)
  OBVIOUS
<1>8. HasParent(Shown, k) => HasParent(edited, k)
  BY <1>2
<1> HIDE DEF edited
<1>9. backup = NoBackup => edited[Own] # Ours /\ ~Includes(edited)
  BY <1>0, <1>4, <1>6 DEF Includes
<1>10. Records(edited, backup)
  <2>1. CASE backup = NoBackup
    BY <1>9, <2>1 DEF Records
  <2>2. CASE backup # NoBackup
    <3>1. \A j \in Managed : HasParent(Shown, j) => HasParent(edited, j)
      BY <1>0, <1>3, <1>7, <1>8, EditedParents
    <3> QED
      BY <1>0, <2>2, <3>1 DEF Records
  <2> QED
    BY <2>1, <2>2
<1>11. RecordsKept'
  BY <1>5, <1>10, FilesDecide
<1>12. TaskKept(t)'
  <2>1. task'[t].at = "idle"
    BY <1>0, <1>5, NoTaskIsAState DEF UserEdits, Quiet
  <2> QED
    BY <2>1 DEF TaskKept
<1>13. \/ Settings(edited, backup) = Settings(Shown, backup)
       \/ /\ backup = NoBackup \/ k \notin Managed
          /\ Settings(edited, backup) = Changed(Settings(Shown, backup), k, v)
  <2>1. CASE backup = NoBackup
    BY <1>6, <1>7, <1>9, <2>1 DEF Settings
  <2>2. CASE backup # NoBackup
    BY <1>0, <1>3, <1>4, <1>7, <2>2, EditedSettings
  <2> QED
    BY <2>1, <2>2
<1>14. UserSettings = Settings(Shown, backup) /\ UserSettings' = Settings(edited, backup)
  BY <1>5, FilesDecide
<1>15. k \in (IF backup # NoBackup THEN Keys \ Managed ELSE Keys)
       \/ UserSettings' = UserSettings
  BY <1>13, <1>14
<1> QED
  BY <1>3, <1>5, <1>11, <1>12, <1>13, <1>14, <1>15

LEMMA EnsureBackupOverlays ==
    ASSUME NEW t, Alone(t), MergedKept, EnsureBackup(t)
    PROVE  RecordsKept' /\ TaskKept(t)' /\ UserSettings' = UserSettings
<1>0. /\ MergedTypeOK /\ Shown \in Documents /\ backup \in Backups \cup {NoBackup}
      /\ document \in Documents \cup {Missing} /\ Managed # {}
      /\ Own \in Managed /\ Own \in Keys /\ Managed \subseteq Keys /\ t \in Tasks
      /\ Records(Shown, backup) /\ TaskKept(t)
  BY AloneFacts
<1>1. /\ task[t].at = "backup" /\ backup' # NoBackup /\ document' = document
      /\ backup' = IF backup = NoBackup THEN BackupOf(task[t].read) ELSE backup
      /\ \/ task'[t] = NoTask
         \/ task'[t].at = "merge" /\ task'[t].read = task[t].read
  BY <1>0, EnsureBackupMoves
<1>2. task[t].read = document /\ Shown' = Shown
  BY <1>0, <1>1 DEF TaskKept, Shown
<1>3. TaskKept(t)'
  BY <1>1, <1>2, NoTaskIsAState DEF TaskKept
<1>4. CASE backup # NoBackup
  <2>1. backup' = backup
    BY <1>1, <1>4
  <2> QED
    BY <1>0, <1>2, <1>3, <2>1, FilesDecide
<1>5. CASE backup = NoBackup
  <2>1. backup' = BackupOf(document)
    BY <1>1, <1>2, <1>5
  <2>2. /\ backup' \in Backups
        /\ \A k \in Managed : backup'.values[k] = IF Includes(Shown) THEN Absent ELSE Shown[k]
        /\ backup'.missing => \A k \in Managed : backup'.values[k] = Absent
    BY <1>0, <2>1, BackupOfGives DEF Shown
  <2>3. Records(Shown, backup')
    <3>1. backup'.values[Own] # Ours
      BY <1>0, <1>5, <2>2, DocumentAssumption DEF Records
    <3>2. \A k \in Managed : backup'.values[k] # Absent => HasParent(Shown, k)
      BY <1>0, <2>2, PresentHasParent
    <3> QED
      BY <1>1, <2>2, <3>1, <3>2 DEF Records
  <2>4. \A k \in Managed : Returned(Shown, backup', k) = Returned(Shown, backup, k)
    BY <1>1, <1>5, <2>2 DEF Returned
  <2>5. Settings(Shown, backup') = Settings(Shown, backup)
    BY <1>0, <2>2, <2>4, SameSettings
  <2> QED
    BY <1>2, <1>3, <2>3, <2>5, FilesDecide
<1> QED
  BY <1>4, <1>5

LEMMA WriteMergedOverlays ==
    ASSUME NEW t, Alone(t), MergedKept, WriteMerged(t)
    PROVE  RecordsKept' /\ TaskKept(t)' /\ UserSettings' = UserSettings
<1>0. /\ MergedTypeOK /\ Shown \in Documents /\ backup \in Backups \cup {NoBackup}
      /\ Own \in Managed /\ Own \in Keys /\ Managed \subseteq Keys /\ t \in Tasks
      /\ Records(Shown, backup) /\ TaskKept(t)
  BY AloneFacts
<1>1. /\ task[t].at = "merge" /\ task'[t] = NoTask /\ backup' = backup
      /\ document' \in Documents
      /\ document' = MergeOurs(IF task[t].read = Missing THEN Empty ELSE task[t].read)
  BY <1>0, WriteMergedMoves
<1>2. task[t].read = document /\ backup # NoBackup
  BY <1>0, <1>1 DEF TaskKept
<1>3. Shown' = MergeOurs(Shown)
  BY <1>1, <1>2, DocumentAssumption DEF Shown
<1>4. /\ MergeOurs(Shown) \in Documents
      /\ \A k \in Managed : MergeOurs(Shown)[k] = Ours
      /\ \A k \in Keys : k \notin Managed => MergeOurs(Shown)[k] = Shown[k]
  BY <1>0, MergeGives
<1>5. \A k \in Managed : HasParent(MergeOurs(Shown), k)
  BY <1>0, <1>4, PresentHasParent, DocumentAssumption
<1>6. Records(MergeOurs(Shown), backup)
  BY <1>0, <1>2, <1>5 DEF Records
<1>7. \A k \in Managed : Returned(MergeOurs(Shown), backup, k) = Returned(Shown, backup, k)
  BY <1>2 DEF Returned
<1>8. Settings(MergeOurs(Shown), backup) = Settings(Shown, backup)
  BY <1>0, <1>4, <1>7, SameSettings
<1>9. TaskKept(t)'
  BY <1>1, NoTaskIsAState DEF TaskKept
<1> QED
  BY <1>1, <1>3, <1>6, <1>8, <1>9, FilesDecide

LEMMA WriteRestoredOverlays ==
    ASSUME NEW t, Alone(t), MergedKept, WriteRestored(t)
    PROVE  RecordsKept' /\ TaskKept(t)' /\ UserSettings' = UserSettings
<1>0. /\ MergedTypeOK /\ Shown \in Documents /\ backup \in Backups \cup {NoBackup}
      /\ Own \in Managed /\ Own \in Keys /\ Managed \subseteq Keys /\ t \in Tasks
      /\ Records(Shown, backup) /\ TaskKept(t)
  BY AloneFacts
<1> DEFINE restored == Restore(task[t].read, task[t].saved)
<1>1. /\ MergedTypeOK' /\ backup' = backup
      /\ task[t].at = "restore" /\ task'[t].at = "forget" /\ task'[t].saved = task[t].saved
      /\ task[t].read \in Documents /\ task[t].saved \in Backups
      /\ restored \in Documents
      /\ document' \in Documents => document' = restored
      /\ document' = Missing => restored = Empty
  BY <1>0, WriteRestoredMoves
<1>2. task[t].read = document /\ task[t].saved = backup /\ backup \in Backups
      /\ backup # NoBackup
  BY <1>0, <1>1, DocumentAssumption DEF TaskKept
<1>3. task[t].read = Shown
  BY <1>1, <1>2, DocumentAssumption DEF Shown
<1>4. /\ \A k \in Managed : restored[k] = backup.values[k]
      /\ \A k \in Keys : k \notin Managed => restored[k] = Shown[k]
  <2>1. \A k \in Managed : backup.values[k] # Absent => HasParent(Shown, k)
    BY <1>0, <1>2 DEF Records
  <2> QED
    BY <1>0, <1>2, <1>3, <2>1, RestoreGives
<1> HIDE DEF restored
<1>5. Shown' = restored
  <2>1. document' \in Documents \cup {Missing}
    BY <1>1 DEF MergedTypeOK
  <2> QED
    BY <1>1, <2>1, DocumentAssumption DEF Shown
<1>6. \A k \in Managed : backup.values[k] # Absent => HasParent(restored, k)
  BY <1>0, <1>4, PresentHasParent
<1>7. Records(restored, backup)
  BY <1>0, <1>2, <1>6 DEF Records
<1>8. \A k \in Managed : Returned(restored, backup, k) = Returned(Shown, backup, k)
  BY <1>2 DEF Returned
<1>9. Settings(restored, backup) = Settings(Shown, backup)
  BY <1>0, <1>1, <1>4, <1>8, SameSettings
<1>10. TaskKept(t)'
  BY <1>1, <1>2, <1>4, <1>5 DEF TaskKept
<1> QED
  BY <1>1, <1>5, <1>7, <1>9, <1>10, FilesDecide

LEMMA ForgetBackupOverlays ==
    ASSUME NEW t, Alone(t), MergedKept, ForgetBackup(t)
    PROVE  RecordsKept' /\ TaskKept(t)' /\ UserSettings' = UserSettings
<1>0. /\ MergedTypeOK /\ Shown \in Documents /\ backup \in Backups \cup {NoBackup}
      /\ Own \in Managed /\ Own \in Keys /\ Managed \subseteq Keys /\ t \in Tasks
      /\ Records(Shown, backup) /\ TaskKept(t)
  BY AloneFacts
<1>1. /\ document' = document /\ backup' = NoBackup
      /\ task[t].at = "forget" /\ task[t].saved # NoBackup /\ task'[t] = NoTask
  BY <1>0, ForgetBackupMoves
<1>2. /\ backup # NoBackup
      /\ \A k \in Managed : Shown[k] = backup.values[k]
  BY <1>0, <1>1 DEF TaskKept
<1>3. Shown' = Shown
  BY <1>1 DEF Shown
<1>4. Shown[Own] # Ours /\ ~Includes(Shown)
  BY <1>0, <1>2 DEF Records, Includes
<1>5. Records(Shown, NoBackup)
  BY <1>4 DEF Records
<1>6. \A k \in Managed : Returned(Shown, NoBackup, k) = Returned(Shown, backup, k)
  BY <1>2, <1>4 DEF Returned
<1>7. Settings(Shown, NoBackup) = Settings(Shown, backup)
  BY <1>0, <1>6, SameSettings
<1>8. TaskKept(t)'
  BY <1>1, NoTaskIsAState DEF TaskKept
<1> QED
  BY <1>1, <1>3, <1>5, <1>7, <1>8, FilesDecide

LEMMA ReadingOverlays ==
    ASSUME NEW t, Alone(t), MergedKept,
           \/ BeginRepair(t) \/ BeginRemoval(t) \/ ReadDocument(t) \/ LoseTasks
           \/ UNCHANGED mergedVars
    PROVE  RecordsKept' /\ TaskKept(t)' /\ UNCHANGED <<UserSettings, backup>>
<1>0. /\ MergedTypeOK /\ t \in Tasks /\ Records(Shown, backup) /\ TaskKept(t)
  BY AloneFacts
<1>1. UNCHANGED <<document, backup>>
  BY <1>0, LoseTasksMoves, BeginRemovalMoves, ReadDocumentMoves DEF BeginRepair, mergedVars
<1>2. Shown' = Shown
  BY <1>1 DEF Shown
<1>3. TaskKept(t)'
  <2>1. CASE BeginRepair(t)
    BY <1>0, <1>1, <2>1, BeginRepairMoves DEF TaskKept
  <2>2. CASE BeginRemoval(t)
    BY <1>0, <1>1, <2>2, BeginRemovalMoves, NoTaskIsAState DEF TaskKept
  <2>3. CASE ReadDocument(t)
    <3>1. /\ task[t].at = "read"
          /\ \/ task'[t] = NoTask
             \/ /\ task'[t].at = "restore" /\ task'[t].read = document
                /\ task'[t].saved = task[t].saved
             \/ /\ task'[t].at = "forget" /\ task'[t].saved = task[t].saved
                /\ document = Missing /\ task[t].saved.missing
      BY <1>0, <2>3, ReadDocumentMoves
    <3>2. task[t].saved = backup /\ backup # NoBackup
      BY <1>0, <3>1 DEF TaskKept, MergedTypeOK
    <3>3. CASE task'[t].at = "forget"
      <4>1. Shown = Empty /\ \A k \in Managed : backup.values[k] = Absent
        BY <1>0, <3>1, <3>2, <3>3, NoTaskIsAState DEF Records, Shown
      <4>2. \A k \in Managed : Shown[k] = backup.values[k]
        BY <4>1, DocumentAssumption DEF Empty
      <4> QED
        BY <1>1, <1>2, <3>1, <3>2, <3>3, <4>2, NoTaskIsAState DEF TaskKept
    <3>4. CASE task'[t].at # "forget"
      BY <1>1, <3>1, <3>2, <3>4, NoTaskIsAState DEF TaskKept
    <3> QED
      BY <3>3, <3>4
  <2>4. CASE LoseTasks
    BY <1>0, <2>4, LoseTasksMoves, NoTaskIsAState DEF TaskKept
  <2>5. CASE UNCHANGED mergedVars
    <3>1. task' = task
      BY <2>5 DEF mergedVars
    <3> QED
      BY <1>0, <1>1, <1>2, <3>1 DEF TaskKept
  <2> QED
    BY <2>1, <2>2, <2>3, <2>4, <2>5
<1> QED
  BY <1>0, <1>1, <1>2, <1>3, FilesDecide

-----------------------------------------------------------------------------
(* The refinement.                                                          *)

LEMMA MergedStart ==
    ASSUME NEW t, Alone(t), MergedInit
    PROVE  MergedKept /\ UserSettings \in [Keys -> Values] /\ backup = NoBackup
<1>1. /\ MergedTypeOK /\ backup = NoBackup /\ Shown \in Documents
      /\ Own \in Managed /\ Own \in Keys /\ Ours \notin UserMay[Own]
      /\ Managed \subseteq Keys /\ t \in Tasks /\ Tasks = {t}
  BY MergedTypesInit, ShownIsADocument, OwnIsManaged, DocumentAssumption DEF MergedInit, Alone
<1>2. Includes(Shown) \/ Shown[Own] # Ours
  <2>1. CASE document = Missing
    BY <1>1, <2>1, DocumentAssumption DEF Shown, Empty
  <2>2. CASE document \in Documents /\ \A k \in Keys : document[k] \in UserMay[k]
    BY <1>1, <2>2, DocumentAssumption DEF Shown
  <2>3. CASE document = MergeOurs(Empty)
    <3>1. /\ MergeOurs(Empty) \in Documents
          /\ \A k \in Managed : MergeOurs(Empty)[k] = Ours
      BY DocumentValues, MergeGives
    <3> QED
      BY <2>3, <3>1, DocumentAssumption DEF Shown, Includes
  <2> QED
    BY <2>1, <2>2, <2>3 DEF MergedInit
<1>3. RecordsKept
  BY <1>1, <1>2, FilesDecide DEF Records
<1>4. task[t] = NoTask
  BY <1>1 DEF MergedInit
<1>5. TaskKept(t)
  BY <1>4, NoTaskIsAState DEF TaskKept
<1>6. UserSettings \in [Keys -> Values]
  BY <1>1, FilesDecide, SettingsGive
<1> QED
  BY <1>1, <1>3, <1>5, <1>6 DEF MergedKept

\* Each step keeps the records; none but an edit, and by an edit only one of
\* the user's own settings, changes what the user will have back.
LEMMA MergedStep ==
    ASSUME NEW t, Alone(t), MergedKept, [MergedNext]_mergedVars
    PROVE  /\ MergedKept'
           /\ \/ UserSettings' = UserSettings
              \/ /\ backup' = backup
                 /\ \E k \in (IF backup # NoBackup THEN Keys \ Managed ELSE Keys),
                       v \in Values : UserSettings' = Changed(UserSettings, k, v)
<1>1. /\ RecordsKept' /\ TaskKept(t)'
      /\ \/ UserSettings' = UserSettings
         \/ /\ backup' = backup
            /\ \E k \in (IF backup # NoBackup THEN Keys \ Managed ELSE Keys),
                  v \in Values : UserSettings' = Changed(UserSettings, k, v)
  <2>1. CASE UserEdits
    BY <2>1, UserEditsOverlay
  <2>2. CASE EnsureBackup(t)
    BY <2>2, EnsureBackupOverlays
  <2>3. CASE WriteMerged(t)
    BY <2>3, WriteMergedOverlays
  <2>4. CASE WriteRestored(t)
    BY <2>4, WriteRestoredOverlays
  <2>5. CASE ForgetBackup(t)
    BY <2>5, ForgetBackupOverlays
  <2>6. CASE \/ BeginRepair(t) \/ BeginRemoval(t) \/ ReadDocument(t) \/ LoseTasks
             \/ UNCHANGED mergedVars
    BY <2>6, ReadingOverlays
  <2>7. MergedNext => \/ UserEdits \/ LoseTasks \/ BeginRepair(t) \/ EnsureBackup(t)
                      \/ WriteMerged(t) \/ BeginRemoval(t) \/ ReadDocument(t)
                      \/ WriteRestored(t) \/ ForgetBackup(t)
    BY DEF MergedNext, Alone
  <2> QED
    BY <2>1, <2>2, <2>3, <2>4, <2>5, <2>6, <2>7
<1>2. MergedTypeOK'
  BY AloneFacts, MergedTypesStep
<1> QED
  BY <1>1, <1>2 DEF MergedKept, Alone

\* The files keep their types, for any number of tasks at once, with emptied
\* objects and a user who installs our values too: a merge or a restore never
\* runs on a document it has not read (firefox_policy.rs, merge_and_repair and
\* remove_merged_policy).
THEOREM MergedTypeCorrect ==
    ASSUME Managed # {}
    PROVE  MergedSpec => []MergedTypeOK
<1>1. MergedInit => MergedTypeOK
  BY MergedTypesInit
<1>2. MergedTypeOK /\ [MergedNext]_mergedVars => MergedTypeOK'
  BY MergedTypesStep
<1> QED
  BY <1>1, <1>2, PTL DEF MergedSpec

\* What a repair recorded and a removal puts back is what the user had: with
\* one task at a time, crashes at any step, and edits between the passes, the
\* shared file implements the overlay (firefox_policy.rs, "records the prior
\* values so uninstall can restore them").  An object emptied under the backup
\* or a second task breaks it, and so does a user who has given every managed
\* setting our value: that document is taken for an earlier version's.
THEOREM MergedImplementsOverlay ==
    ASSUME NEW t, Alone(t)
    PROVE  MergedSpec => ImplementsOverlay
<1>1. MergedInit => MergedKept /\ Overlay!OverlayInit
  BY MergedStart DEF Overlay!OverlayInit
<1>2. MergedKept /\ [MergedNext]_mergedVars
      => MergedKept' /\ [Overlay!OverlayNext]_<<UserSettings, backup # NoBackup>>
  <2> SUFFICES ASSUME MergedKept, [MergedNext]_mergedVars
               PROVE  MergedKept' /\ [Overlay!OverlayNext]_<<UserSettings, backup # NoBackup>>
    OBVIOUS
  <2>1. CASE UserSettings' = UserSettings
    BY <2>1, MergedStep
       DEF Overlay!OverlayNext, Overlay!Engage, Overlay!Disengage
  <2>2. CASE UserSettings' # UserSettings
    BY <2>2, MergedStep DEF Changed, Overlay!OverlayNext, Overlay!UserEdits
  <2> QED
    BY <2>1, <2>2
<1> QED
  BY <1>1, <1>2, PTL DEF MergedSpec, ImplementsOverlay, Overlay!OverlaySpec

-----------------------------------------------------------------------------
(* Private browsing, for every set of clients, lists and browsers, and      *)
(* every number of requests, edits, turns and failures.                     *)

(* The inductive invariant.                                                 *)

\* Passes and the files they write: a pass without a browser left is over.
FilesKept ==
    /\ pass \in [Actors -> Passes] /\ holds \in [Actors -> {"none", "temp", "file", "gone"}]
    /\ temp \in [ManagedBrowsers -> Contents] /\ file \in [ManagedBrowsers -> Contents]
    /\ \A a \in Actors :
        /\ holds[a] # "none" <=> pass[a].step \in {"write", "rename"}
        /\ holds[a] = "temp" => temp[Current(a)] # NoPolicyFile
        /\ pass[a].left = <<>> => Idle(a)

WorldKept ==
    /\ setting \in [mode : PrivateModes, scope : DisableScopes, access : AccessModes]
    /\ enabled \subseteq Lists /\ moment \in [schedule : BOOLEAN, window : BOOLEAN]
    /\ session \in {"none", "running", "over"} /\ suspect \in BOOLEAN
    /\ heard \subseteq Deferred

\* A client that waits for an answer writes nothing, and what its request has
\* sampled is an instant since it came.
RequestsKept ==
    /\ asked \in [Clients -> Asked] /\ during \in [Clients -> SUBSET Samples]
    /\ \A c \in Clients :
        /\ asked[c] # NoAsk => Idle(c)
        /\ ForChange(c) => [at |-> asked[c].at, suspect |-> asked[c].suspect] \in during[c]

PrivateKept ==
    /\ life \in {"down", "starting", "serving"}
    /\ used \in [turns : Nat, asks : Nat, mishaps : Nat]
    /\ FilesKept /\ WorldKept /\ RequestsKept

-----------------------------------------------------------------------------
(* What passes and settings are.                                            *)

LEMMA NoPassIsPass ==
    /\ NoPass \in Passes /\ NoPass.step = "compare" /\ NoPass.left = <<>>
BY DEF NoPass, Passes, PrivateModes

LEMMA KindsDiffer ==
    /\ NoPolicyFile \in Contents /\ Torn \in Contents /\ Torn # NoPolicyFile
    /\ \A p \in Passes : Policy(p) \in Contents /\ Policy(p) # NoPolicyFile
<1>1. NoPolicyFile \in Contents /\ Torn \in Contents
  BY DEF Contents
<1>2. NoPolicyFile.kind = "missing" /\ Torn.kind = "torn"
  BY DEF NoPolicyFile, Torn
<1>3. ASSUME NEW p \in Passes PROVE Policy(p) \in Contents /\ Policy(p).kind = "policy"
  BY <1>3 DEF Policy, Passes, Contents
<1> QED
  BY <1>1, <1>2, <1>3

\* A pass with a browser left has one to write now, and a pass after it.
LEMMA PassHasBrowser ==
    ASSUME FilesKept, NEW a \in Actors, ~Idle(a)
    PROVE  /\ Current(a) \in ManagedBrowsers /\ pass[a] \in Passes
           /\ NextBrowser(pass[a]) \in Passes /\ NextBrowser(pass[a]).step = "compare"
           /\ NextBrowser(pass[a]).left = <<>> => NextBrowser(pass[a]) = NoPass
<1>1. pass[a] \in Passes /\ pass[a].left \in Seq(ManagedBrowsers) /\ pass[a].left # <<>>
  BY DEF FilesKept, Passes
<1>2. Current(a) \in ManagedBrowsers
  BY <1>1 DEF Current
<1>3. CASE Len(pass[a].left) = 1
  BY <1>1, <1>2, <1>3, NoPassIsPass DEF NextBrowser
<1>4. CASE Len(pass[a].left) # 1
  <2> DEFINE left == pass[a].left
  <2>3. left \in Seq(ManagedBrowsers) /\ left # <<>> /\ Len(left) # 1
    BY <1>1, <1>4
  <2> HIDE DEF left
  <2>4. Len(left) \in Nat /\ Len(left) > 1
    BY <2>3
  <2>5. Tail(left) \in Seq(ManagedBrowsers) /\ Len(Tail(left)) > 0
    BY <2>3, <2>4
  <2>6. \A s \in Seq(ManagedBrowsers) : Len(s) > 0 => s # <<>>
    OBVIOUS
  <2>1. Tail(left) \in Seq(ManagedBrowsers) /\ Tail(left) # <<>>
    BY <2>5, <2>6
  <2>2. NextBrowser(pass[a]) = [pass[a] EXCEPT !.left = Tail(@), !.step = "compare"]
    BY <1>4 DEF NextBrowser
  <2> QED
    BY <1>1, <1>2, <2>1, <2>2 DEF Passes, left
<1> QED
  BY <1>3, <1>4

LEMMA PassBegins ==
    ASSUME NEW settings \in [mode : PrivateModes, urls : SUBSET Lists],
           NEW browsers \in Seq(ManagedBrowsers), browsers # <<>>
    PROVE  /\ PassWith(settings, browsers) \in Passes
           /\ PassWith(settings, browsers).step = "compare"
           /\ PassWith(settings, browsers).left # <<>>
BY DEF PassWith, NoPass, Passes

LEMMA SettingsAreTyped ==
    ASSUME NEW set \in [mode : PrivateModes, scope : DisableScopes, access : AccessModes],
           NEW n, NEW t, enabled \subseteq Lists
    PROVE  PolicySettings(set, n, t) \in [mode : PrivateModes, urls : SUBSET Lists]
<1>1. EffectiveMode(set, n, t) \in PrivateModes
  BY DEF EffectiveMode, PrivateModes
<1>2. BlockedUrls(n, t) \subseteq Lists
  BY DEF BlockedUrls
<1> QED
  BY <1>1, <1>2 DEF PolicySettings

LEMMA CurrentIsTyped ==
    ASSUME WorldKept
    PROVE  /\ CurrentSettings \in [mode : PrivateModes, urls : SUBSET Lists]
           /\ Instant \in Instants /\ Sample \in Samples
BY SettingsAreTyped DEF WorldKept, CurrentSettings, Instant, Instants, Sample, Samples

-----------------------------------------------------------------------------
(* The files.                                                               *)

\* A pass that begins where none was under way.
LEMMA BeginKeeps ==
    ASSUME FilesKept, NEW a \in Actors, Idle(a), NEW new \in Passes,
           new.step = "compare", new.left # <<>>,
           pass' = [pass EXCEPT ![a] = new], UNCHANGED files
    PROVE  FilesKept'
<1>1. holds[a] = "none"
  BY NoPassIsPass DEF FilesKept, Idle
<1>2. UNCHANGED <<holds, temp, file>>
  BY DEF files
<1> QED
  BY <1>1, <1>2 DEF FilesKept, Current, Idle

\* A pass that goes on to its next browser, or ends, without a descriptor.
LEMMA LeaveKeeps ==
    ASSUME FilesKept, NEW a \in Actors, ~Idle(a), NEW next \in Passes,
           next.step = "compare", next.left = <<>> => next = NoPass,
           pass' = [pass EXCEPT ![a] = next],
           holds' \in [Actors -> {"none", "temp", "file", "gone"}], holds'[a] = "none",
           temp' \in [ManagedBrowsers -> Contents], file' \in [ManagedBrowsers -> Contents],
           \A x \in Actors \ {a} :
                /\ holds'[x] # "none" <=> holds[x] # "none"
                /\ holds'[x] = "temp" => temp'[Current(x)] # NoPolicyFile
    PROVE  FilesKept'
BY DEF FilesKept, Current, Idle

\* A step of a write.
LEMMA WriteKeeps ==
    ASSUME FilesKept, NEW a \in Actors, ~Idle(a),
           NEW step \in {"write", "rename", "tidy"},
           pass' = [pass EXCEPT ![a].step = step],
           holds' \in [Actors -> {"none", "temp", "file", "gone"}],
           holds'[a] # "none" <=> step # "tidy",
           temp' \in [ManagedBrowsers -> Contents], file' \in [ManagedBrowsers -> Contents],
           \A x \in Actors \ {a} : holds'[x] = holds[x],
           \A x \in Actors : holds'[x] = "temp" => temp'[Current(x)] # NoPolicyFile
    PROVE  FilesKept'
<1>0. /\ pass \in [Actors -> Passes] /\ pass[a].left # <<>>
      /\ pass' = [pass EXCEPT ![a] = [pass[a] EXCEPT !.step = step]]
  BY DEF FilesKept
<1>3. ASSUME NEW p \in Passes
      PROVE  /\ [p EXCEPT !.step = step] \in Passes
             /\ [p EXCEPT !.step = step].step = step
             /\ [p EXCEPT !.step = step].left = p.left
  BY <1>3 DEF Passes
<1>1. /\ pass[a].left # <<>> /\ pass'[a].left = pass[a].left
      /\ pass'[a].step = step /\ pass'[a] \in Passes
      /\ \A x \in Actors \ {a} : pass'[x] = pass[x]
      /\ pass' \in [Actors -> Passes]
  BY <1>0, <1>3
<1>2. \A x \in Actors : Current(x)' = Current(x)
  BY <1>1 DEF Current
<1>4. \A x \in Actors : /\ holds'[x] # "none" <=> pass'[x].step \in {"write", "rename"}
                        /\ pass'[x].left = <<>> => pass'[x] = NoPass
  <2>1. ASSUME NEW x \in Actors, x # a
        PROVE  /\ holds'[x] # "none" <=> pass'[x].step \in {"write", "rename"}
               /\ pass'[x].left = <<>> => pass'[x] = NoPass
    BY <1>1, <2>1 DEF FilesKept, Idle
  <2>2. /\ holds'[a] # "none" <=> pass'[a].step \in {"write", "rename"}
        /\ pass'[a].left # <<>>
    BY <1>1
  <2> QED
    BY <2>1, <2>2
<1> QED
  BY <1>1, <1>2, <1>4 DEF FilesKept, Idle

\* Another task's descriptor becomes what a rename or a removal makes of its file.
LEMMA MovedGives ==
    ASSUME FilesKept, NEW a \in Actors, ~Idle(a),
           NEW moves \in {[temp |-> "file", file |-> "gone"], [temp |-> "gone"]}
    PROVE  /\ Moved(a, moves) \in [Actors -> {"none", "temp", "file", "gone"}]
           /\ Moved(a, moves)[a] = "none"
           /\ \A x \in Actors \ {a} :
                 /\ Moved(a, moves)[x] # "none" <=> holds[x] # "none"
                 /\ Moved(a, moves)[x] = "temp" =>
                       holds[x] = "temp" /\ Current(x) # Current(a)
<1>1. ASSUME NEW x \in Actors \ {a}
      PROVE  /\ Moved(a, moves)[x] \in {"none", "temp", "file", "gone"}
             /\ Moved(a, moves)[x] # "none" <=> holds[x] # "none"
             /\ Moved(a, moves)[x] = "temp" =>
                   holds[x] = "temp" /\ Current(x) # Current(a)
  <2>1. holds[x] \in {"none", "temp", "file", "gone"}
    BY DEF FilesKept
  <2>2. holds[x] # "none" => ~Idle(x)
    BY NoPassIsPass DEF FilesKept, Idle
  <2>3. CASE moves = [temp |-> "file", file |-> "gone"]
    BY <2>1, <2>2, <2>3 DEF Moved
  <2>4. CASE moves = [temp |-> "gone"]
    BY <2>1, <2>2, <2>4 DEF Moved
  <2> QED
    BY <2>3, <2>4
<1> QED
  BY <1>1 DEF Moved

\* The steps of one task's pass.
PassStep(a) ==
    \/ SkipDeferred(a) \/ KeepFile(a) \/ RefuseFile(a) \/ OpenTemporary(a)
    \/ WriteTemporary(a) \/ RenameTemporary(a) \/ TemporaryFails(a) \/ RenameFails(a)
    \/ Tidy(a)

LEMMA PassStepKeepsFiles ==
    ASSUME FilesKept, NEW a \in Actors, PassStep(a)
    PROVE  FilesKept'
<1>1. ~Idle(a)
  BY DEF PassStep, SkipDeferred, KeepFile, RefuseFile, OpenTemporary, WriteTemporary,
         RenameTemporary, TemporaryFails, RenameFails, Tidy
<1>2. /\ Current(a) \in ManagedBrowsers /\ pass[a] \in Passes
      /\ NextBrowser(pass[a]) \in Passes /\ NextBrowser(pass[a]).step = "compare"
      /\ NextBrowser(pass[a]).left = <<>> => NextBrowser(pass[a]) = NoPass
  BY <1>1, PassHasBrowser
<1>3. CASE SkipDeferred(a) \/ KeepFile(a) \/ RefuseFile(a)
  <2>1. /\ pass[a].step = "compare" /\ UNCHANGED <<holds, temp, file>>
        /\ \/ pass' = [pass EXCEPT ![a] = NextBrowser(pass[a])]
           \/ pass' = [pass EXCEPT ![a] = NoPass]
    BY <1>3 DEF SkipDeferred, KeepFile, RefuseFile, Advance, Abort, files
  <2>2. holds[a] = "none"
    BY <2>1 DEF FilesKept
  <2> QED
    BY <1>1, <1>2, <2>1, <2>2, NoPassIsPass, LeaveKeeps DEF FilesKept
<1>4. CASE OpenTemporary(a)
  <2>1. /\ pass' = [pass EXCEPT ![a].step = "write"]
        /\ temp' = [temp EXCEPT ![Current(a)] = Torn]
        /\ holds' = [holds EXCEPT ![a] = "temp"] /\ file' = file
    BY <1>4 DEF OpenTemporary
  <2>2. \A x \in Actors : holds'[x] = "temp" => temp'[Current(x)] # NoPolicyFile
    BY <1>2, <2>1, KindsDiffer DEF FilesKept
  <2> QED
    BY <1>1, <1>2, <2>1, <2>2, KindsDiffer, WriteKeeps DEF FilesKept
<1>5. CASE WriteTemporary(a) \/ TemporaryFails(a)
  <2>1. PICK content \in Contents \ {NoPolicyFile}, step \in {"rename", "tidy"} :
            /\ Lands(a, content) /\ pass' = [pass EXCEPT ![a].step = step]
            /\ holds' = IF step = "tidy" THEN [holds EXCEPT ![a] = "none"] ELSE holds
            /\ pass[a].step = "write"
    <3>1. CASE WriteTemporary(a)
      BY <1>2, <3>1, KindsDiffer DEF WriteTemporary
    <3>2. CASE TemporaryFails(a)
      BY <1>2, <3>2, KindsDiffer DEF TemporaryFails
    <3> QED
      BY <1>5, <3>1, <3>2
  <2>2. /\ temp' \in [ManagedBrowsers -> Contents] /\ file' \in [ManagedBrowsers -> Contents]
        /\ \A b \in ManagedBrowsers : temp[b] # NoPolicyFile => temp'[b] # NoPolicyFile
    BY <1>2, <2>1 DEF Lands, FilesKept
  <2>3. /\ holds' \in [Actors -> {"none", "temp", "file", "gone"}]
        /\ holds'[a] # "none" <=> step # "tidy"
        /\ \A x \in Actors \ {a} : holds'[x] = holds[x]
        /\ \A x \in Actors : holds'[x] = "temp" => holds[x] = "temp"
    BY <2>1 DEF FilesKept
  <2>4. ASSUME NEW x \in Actors, holds[x] = "temp" PROVE Current(x) \in ManagedBrowsers
    BY <2>4, PassHasBrowser, NoPassIsPass DEF FilesKept, Idle
  <2>5. \A x \in Actors : holds'[x] = "temp" => temp'[Current(x)] # NoPolicyFile
    BY <2>2, <2>3, <2>4 DEF FilesKept
  <2> QED
    BY <1>1, <2>1, <2>2, <2>3, <2>5, WriteKeeps
<1>6. CASE RenameTemporary(a)
  <2>1. /\ pass' = [pass EXCEPT ![a] = NextBrowser(pass[a])]
        /\ file' = [file EXCEPT ![Current(a)] = temp[Current(a)]]
        /\ temp' = [temp EXCEPT ![Current(a)] = NoPolicyFile]
        /\ holds' = Moved(a, [temp |-> "file", file |-> "gone"])
    BY <1>6 DEF RenameTemporary, Advance, Replaced
  <2>2. /\ temp' \in [ManagedBrowsers -> Contents] /\ file' \in [ManagedBrowsers -> Contents]
        /\ \A b \in ManagedBrowsers \ {Current(a)} : temp'[b] = temp[b]
    BY <1>2, <2>1, KindsDiffer DEF FilesKept
  <2>3. /\ holds' \in [Actors -> {"none", "temp", "file", "gone"}] /\ holds'[a] = "none"
        /\ \A x \in Actors \ {a} :
              /\ holds'[x] # "none" <=> holds[x] # "none"
              /\ holds'[x] = "temp" => holds[x] = "temp" /\ Current(x) # Current(a)
    BY <1>1, <2>1, MovedGives
  <2>4. ASSUME NEW x \in Actors, holds[x] = "temp" PROVE Current(x) \in ManagedBrowsers
    BY <2>4, PassHasBrowser, NoPassIsPass DEF FilesKept, Idle
  <2>5. \A x \in Actors \ {a} : holds'[x] = "temp" => temp'[Current(x)] # NoPolicyFile
    BY <2>2, <2>3, <2>4 DEF FilesKept
  <2> QED
    BY <1>1, <1>2, <2>1, <2>2, <2>3, <2>5, LeaveKeeps
<1>7. CASE RenameFails(a)
  <2>1. /\ pass' = [pass EXCEPT ![a].step = "tidy"] /\ holds' = [holds EXCEPT ![a] = "none"]
        /\ UNCHANGED <<temp, file>>
    BY <1>7 DEF RenameFails
  <2> QED
    BY <1>1, <2>1, WriteKeeps DEF FilesKept
<1>8. CASE Tidy(a)
  <2>1. /\ pass' = [pass EXCEPT ![a] = NoPass] /\ file' = file
        /\ temp' = [temp EXCEPT ![Current(a)] = NoPolicyFile]
        /\ holds' = Moved(a, [temp |-> "gone"])
    BY <1>8 DEF Tidy, Abort
  <2>2. /\ temp' \in [ManagedBrowsers -> Contents] /\ file' \in [ManagedBrowsers -> Contents]
        /\ \A b \in ManagedBrowsers \ {Current(a)} : temp'[b] = temp[b]
    BY <1>2, <2>1, KindsDiffer DEF FilesKept
  <2>3. /\ holds' \in [Actors -> {"none", "temp", "file", "gone"}] /\ holds'[a] = "none"
        /\ \A x \in Actors \ {a} :
              /\ holds'[x] # "none" <=> holds[x] # "none"
              /\ holds'[x] = "temp" => holds[x] = "temp" /\ Current(x) # Current(a)
    BY <1>1, <2>1, MovedGives
  <2>4. ASSUME NEW x \in Actors, holds[x] = "temp" PROVE Current(x) \in ManagedBrowsers
    BY <2>4, PassHasBrowser, NoPassIsPass DEF FilesKept, Idle
  <2>5. \A x \in Actors \ {a} : holds'[x] = "temp" => temp'[Current(x)] # NoPolicyFile
    BY <2>2, <2>3, <2>4 DEF FilesKept
  <2> QED
    BY <1>1, <2>1, <2>2, <2>3, <2>5, NoPassIsPass, LeaveKeeps
<1> QED
  BY <1>3, <1>4, <1>5, <1>6, <1>7, <1>8 DEF PassStep

-----------------------------------------------------------------------------
(* Each action.                                                             *)

\* What no pass touches stays, and a task that writes waits for no answer.
LEMMA PassStepKeeps ==
    ASSUME PrivateKept, NEW a \in Actors, PassStep(a)
    PROVE  PrivateKept'
<1>1. FilesKept'
  BY PassStepKeepsFiles DEF PrivateKept
<1>2. /\ ~Idle(a) /\ life' \in {"down", "starting", "serving"}
      /\ used' \in [turns : Nat, asks : Nat, mishaps : Nat]
      /\ UNCHANGED <<setting, enabled, moment, session, suspect, heard, asked, during>>
      /\ \A x \in Actors \ {a} : pass'[x] = pass[x]
  <2>1. CASE SkipDeferred(a) \/ KeepFile(a) \/ RefuseFile(a)
    BY <2>1 DEF PrivateKept, FilesKept, SkipDeferred, KeepFile, RefuseFile, Advance, Abort,
                world, files
  <2>2. CASE OpenTemporary(a) \/ WriteTemporary(a) \/ RenameFails(a)
    BY <2>2 DEF PrivateKept, FilesKept, OpenTemporary, WriteTemporary, RenameFails, world
  <2>3. CASE TemporaryFails(a)
    BY <2>3 DEF PrivateKept, FilesKept, TemporaryFails, world
  <2>4. CASE RenameTemporary(a) \/ Tidy(a)
    BY <2>4 DEF PrivateKept, FilesKept, RenameTemporary, Tidy, Advance, Abort, world
  <2> QED
    BY <2>1, <2>2, <2>3, <2>4 DEF PassStep
<1>3. RequestsKept'
  <2>1. \A c \in Clients : asked[c] # NoAsk => c \in Actors \ {a}
    BY <1>2 DEF PrivateKept, RequestsKept, Actors
  <2> QED
    BY <1>2, <2>1 DEF PrivateKept, RequestsKept, Idle, ForChange
<1> QED
  BY <1>1, <1>2, <1>3 DEF PrivateKept, WorldKept

LEMMA LoopBeginsKeeps ==
    ASSUME PrivateKept, LoopBegins
    PROVE  PrivateKept'
<1> DEFINE new == PassWith(CurrentSettings, Browsers)
<1>1. new \in Passes /\ new.step = "compare" /\ new.left # <<>>
  BY CurrentIsTyped, PassBegins, PrivateAssumption DEF PrivateKept
<1> HIDE DEF new
<1>2. /\ Idle(Loop) /\ pass' = [pass EXCEPT ![Loop] = new]
      /\ UNCHANGED <<life, setting, enabled, moment, session, suspect, heard, asked, during,
                     used>>
      /\ UNCHANGED files
  BY DEF LoopBegins, world, new
<1>3. FilesKept'
  BY <1>1, <1>2, BeginKeeps DEF PrivateKept, Actors
<1>4. \A c \in Clients : pass'[c] = pass[c]
  BY <1>2, PrivateAssumption DEF PrivateKept, FilesKept, Actors
<1> QED
  BY <1>2, <1>3, <1>4 DEF PrivateKept, WorldKept, RequestsKept, Idle, ForChange

\* An answer, with a pass that begins or none.
LEMMA AnswerKeeps ==
    ASSUME PrivateKept, NEW c \in Clients, Idle(c), Closed(c),
           UNCHANGED <<life, enabled, moment, session, suspect, heard, used>>,
           setting' \in [mode : PrivateModes, scope : DisableScopes, access : AccessModes],
           UNCHANGED files,
           pass' = pass \/ \E settings \in [mode : PrivateModes, urls : SUBSET Lists] :
                              pass' = [pass EXCEPT ![c] = PassWith(settings, Browsers)]
    PROVE  PrivateKept'
<1>1. FilesKept' /\ \A d \in Clients \ {c} : pass'[d] = pass[d]
  <2>1. CASE pass' = pass
    BY <2>1 DEF PrivateKept, FilesKept, files, Current, Idle
  <2>2. ASSUME NEW settings \in [mode : PrivateModes, urls : SUBSET Lists],
               pass' = [pass EXCEPT ![c] = PassWith(settings, Browsers)]
        PROVE  FilesKept' /\ \A d \in Clients \ {c} : pass'[d] = pass[d]
    BY <2>2, PassBegins, BeginKeeps, PrivateAssumption
       DEF PrivateKept, FilesKept, Actors
  <2> QED
    BY <2>1, <2>2
<1>2. /\ asked' = [asked EXCEPT ![c] = NoAsk] /\ during' = [during EXCEPT ![c] = {}]
  BY DEF Closed
<1>3. RequestsKept'
  <2>1. asked' \in [Clients -> Asked] /\ during' \in [Clients -> SUBSET Samples]
    BY <1>2 DEF PrivateKept, RequestsKept, Asked
  <2>2. asked'[c].kind = "none" /\ asked'[c] = NoAsk
    BY <1>2 DEF PrivateKept, RequestsKept, NoAsk
  <2>3. \A d \in Clients \ {c} : asked'[d] = asked[d] /\ during'[d] = during[d]
    BY <1>2 DEF PrivateKept, RequestsKept
  <2> QED
    BY <1>1, <2>1, <2>2, <2>3 DEF PrivateKept, RequestsKept, Idle, ForChange
<1> QED
  BY <1>1, <1>3 DEF PrivateKept, WorldKept

LEMMA AskKeeps ==
    ASSUME PrivateKept, NEW c \in Clients, NEW change \in Changes, Ask(c, change)
    PROVE  PrivateKept'
<1> DEFINE new == [kind |-> change.key, value |-> change.value,
                   at |-> Instant, suspect |-> suspect]
<1>1. /\ Idle(c) /\ asked' = [asked EXCEPT ![c] = new]
      /\ during' = [during EXCEPT ![c] = {Sample}]
      /\ used' = [used EXCEPT !.asks = @ + 1]
      /\ UNCHANGED <<life, setting, enabled, moment, session, suspect, heard, pass, holds,
                     temp, file>>
  BY DEF Ask, Serving, Asks, world, files
<1>2. new \in Asked /\ [at |-> new.at, suspect |-> new.suspect] = Sample
      /\ Sample \in Samples
  BY PrivateAssumption, CurrentIsTyped DEF PrivateKept, WorldKept, Asked, Sample
<1> HIDE DEF new
<1>3. RequestsKept'
  <2>1. asked' \in [Clients -> Asked] /\ during' \in [Clients -> SUBSET Samples]
    BY <1>1, <1>2 DEF PrivateKept, RequestsKept
  <2>2. asked'[c] = new /\ during'[c] = {Sample}
    BY <1>1 DEF PrivateKept, RequestsKept
  <2>3. \A d \in Clients \ {c} : asked'[d] = asked[d] /\ during'[d] = during[d]
    BY <1>1 DEF PrivateKept, RequestsKept
  <2> QED
    BY <1>1, <1>2, <2>1, <2>2, <2>3 DEF PrivateKept, RequestsKept, Idle, ForChange
<1>4. FilesKept' /\ used' \in [turns : Nat, asks : Nat, mishaps : Nat]
  BY <1>1 DEF PrivateKept, FilesKept, Current, Idle
<1> QED
  BY <1>1, <1>3, <1>4 DEF PrivateKept, WorldKept

\* A change that passes the check was sampled at an instant that allows it.
LEMMA StoredWasOpen ==
    ASSUME PrivateKept, NEW c \in Clients, ForChange(c),
           ChangeAllowed(asked[c].at, asked[c].suspect)
    PROVE  \E m \in during[c] : WasOpen(m)
<1> DEFINE m == [at |-> asked[c].at, suspect |-> asked[c].suspect]
<1>1. m \in during[c]
  BY DEF PrivateKept, RequestsKept
<1>2. WasOpen(m)
  BY DEF ChangeAllowed, WasOpen
<1> QED
  BY <1>1, <1>2

LEMMA StoreChangeKeeps ==
    ASSUME PrivateKept, NEW c \in Clients, StoreChange(c)
    PROVE  PrivateKept'
<1> DEFINE stored == Stored(asked[c])
           settings == PolicySettings(stored, asked[c].at, asked[c].suspect)
<1>1. /\ ForChange(c) /\ Closed(c) /\ setting' = stored
      /\ pass' = pass \/ pass' = [pass EXCEPT ![c] = PassWith(settings, Browsers)]
      /\ UNCHANGED <<life, enabled, moment, session, suspect, heard, used>>
      /\ UNCHANGED files
  BY DEF StoreChange, world
<1>2. stored \in [mode : PrivateModes, scope : DisableScopes, access : AccessModes]
  BY <1>1 DEF PrivateKept, WorldKept, RequestsKept, ForChange, Asked, NoAsk, Stored
<1>3. settings \in [mode : PrivateModes, urls : SUBSET Lists]
  BY <1>2, SettingsAreTyped DEF PrivateKept, WorldKept
<1>4. Idle(c)
  <2>1. asked[c] # NoAsk
    BY <1>1 DEF ForChange, NoAsk
  <2> QED
    BY <2>1 DEF PrivateKept, RequestsKept
<1> HIDE DEF stored, settings
<1> QED
  BY <1>1, <1>2, <1>3, <1>4, AnswerKeeps

LEMMA OtherAnswersKeep ==
    ASSUME PrivateKept, NEW c \in Clients, RefuseChange(c) \/ RepairAfterDetox(c)
    PROVE  PrivateKept'
<1>1. /\ Closed(c) /\ asked[c].kind # "none"
      /\ pass' = pass \/ pass' = [pass EXCEPT ![c] = PassWith(CurrentSettings, Browsers)]
      /\ UNCHANGED <<life, setting, enabled, moment, session, suspect, heard, used>>
      /\ UNCHANGED files
  BY DEF RefuseChange, RepairAfterDetox, world, ForChange
<1>2. Idle(c)
  <2>1. asked[c] # NoAsk
    BY <1>1 DEF NoAsk
  <2> QED
    BY <2>1 DEF PrivateKept, RequestsKept
<1> QED
  BY <1>1, <1>2, CurrentIsTyped, AnswerKeeps DEF PrivateKept, WorldKept

LEMMA SettingKeeps ==
    ASSUME PrivateKept, NEW c \in Clients, NEW access \in AccessModes, SetAccess(c, access)
    PROVE  PrivateKept'
<1>1. /\ setting' = [setting EXCEPT !.access = access]
      /\ used' = [used EXCEPT !.asks = @ + 1]
      /\ UNCHANGED <<life, enabled, moment, session, suspect, heard, asked, during, pass,
                     holds, temp, file>>
  BY DEF SetAccess, Asks, world, files
<1>2. /\ setting' \in [mode : PrivateModes, scope : DisableScopes, access : AccessModes]
      /\ used' \in [turns : Nat, asks : Nat, mishaps : Nat]
  BY <1>1 DEF PrivateKept, WorldKept
<1> QED
  BY <1>1, <1>2
     DEF PrivateKept, FilesKept, WorldKept, RequestsKept, Current, Idle, ForChange

LEMMA StartDetoxKeeps ==
    ASSUME PrivateKept, NEW c \in Clients, StartDetox(c)
    PROVE  PrivateKept'
<1> DEFINE new == [kind |-> "detox"]
<1>1. /\ Idle(c) /\ session' = "running" /\ asked' = [asked EXCEPT ![c] = new]
      /\ used' = [used EXCEPT !.asks = @ + 1]
      /\ UNCHANGED <<life, setting, enabled, moment, suspect, heard, during, pass, holds,
                     temp, file>>
  BY DEF StartDetox, Serving, Asks, files
<1>2. new \in Asked /\ new.kind \notin {"mode", "scope"}
  BY DEF Asked
<1> HIDE DEF new
<1>3. RequestsKept'
  <2>1. asked' \in [Clients -> Asked]
    BY <1>1, <1>2 DEF PrivateKept, RequestsKept
  <2>2. asked'[c] = new /\ \A d \in Clients \ {c} : asked'[d] = asked[d]
    BY <1>1 DEF PrivateKept, RequestsKept
  <2> QED
    BY <1>1, <1>2, <2>1, <2>2 DEF PrivateKept, RequestsKept, Idle, ForChange
<1>4. FilesKept' /\ used' \in [turns : Nat, asks : Nat, mishaps : Nat]
  BY <1>1 DEF PrivateKept, FilesKept, Current, Idle
<1> QED
  BY <1>1, <1>3, <1>4 DEF PrivateKept, WorldKept

LEMMA HeartbeatKeeps ==
    ASSUME PrivateKept, NEW c \in Clients, NEW b \in Deferred, Heartbeat(c, b)
    PROVE  PrivateKept'
<1> DEFINE new == PassWith(CurrentSettings, <<b>>)
<1>1. /\ Idle(c) /\ asked[c] = NoAsk /\ heard' = heard \cup {b}
      /\ used' = [used EXCEPT !.asks = @ + 1]
      /\ pass' = pass \/ pass' = [pass EXCEPT ![c] = new]
      /\ UNCHANGED <<life, setting, enabled, moment, session, suspect, asked, during>>
      /\ UNCHANGED files
  BY DEF Heartbeat, Serving, Asks, world
<1>2. <<b>> \in Seq(ManagedBrowsers) /\ <<b>> # <<>>
  BY PrivateAssumption
<1>3. new \in Passes /\ new.step = "compare" /\ new.left # <<>>
  BY <1>2, CurrentIsTyped, PassBegins DEF PrivateKept
<1> HIDE DEF new
<1>4. FilesKept'
  <2>1. CASE pass' = pass
    BY <1>1, <2>1 DEF PrivateKept, FilesKept, files, Current, Idle
  <2>2. CASE pass' = [pass EXCEPT ![c] = new]
    BY <1>1, <1>3, <2>2, BeginKeeps DEF PrivateKept, Actors
  <2> QED
    BY <1>1, <2>1, <2>2
<1>5. \A d \in Clients : asked[d] # NoAsk => pass'[d] = pass[d]
  BY <1>1 DEF PrivateKept, FilesKept, Actors
<1>6. used' \in [turns : Nat, asks : Nat, mishaps : Nat] /\ heard' \subseteq Deferred
  BY <1>1 DEF PrivateKept, WorldKept
<1> QED
  BY <1>1, <1>4, <1>5, <1>6 DEF PrivateKept, WorldKept, RequestsKept, Idle, ForChange

\* The world turns; every request under way has one more instant.
LEMMA TurnKeeps ==
    ASSUME PrivateKept, Turn, WorldKept'
    PROVE  PrivateKept'
<1>1. /\ used' = [used EXCEPT !.turns = @ + 1]
      /\ during' = [c \in Clients |-> IF ForChange(c) THEN during[c] \cup {Sample'} ELSE {}]
      /\ UNCHANGED <<life, asked, pass, holds, temp, file>>
  BY DEF Turn, files
<1>2. Sample' \in Samples
  BY DEF WorldKept, Sample, Samples, Instant, Instants
<1>3. RequestsKept'
  BY <1>1, <1>2 DEF PrivateKept, RequestsKept, Idle, ForChange
<1>4. FilesKept' /\ used' \in [turns : Nat, asks : Nat, mishaps : Nat]
  BY <1>1 DEF PrivateKept, FilesKept, Current, Idle
<1> QED
  BY <1>1, <1>3, <1>4 DEF PrivateKept

LEMMA WorldTurns ==
    ASSUME PrivateKept, MomentTurns \/ DetoxEnds \/ ClockSuspected \/ PolicyEdited
    PROVE  PrivateKept'
<1>1. Turn /\ UNCHANGED <<setting, heard>>
  BY DEF MomentTurns, DetoxEnds, ClockSuspected, PolicyEdited, Turn
<1>2. WorldKept'
  <2>1. CASE MomentTurns
    BY <1>1, <2>1 DEF MomentTurns, PrivateKept, WorldKept
  <2>2. CASE DetoxEnds \/ ClockSuspected
    BY <1>1, <2>2 DEF DetoxEnds, ClockSuspected, PrivateKept, WorldKept
  <2>3. CASE PolicyEdited
    BY <1>1, <2>3 DEF PolicyEdited, PrivateKept, WorldKept
  <2> QED
    BY <2>1, <2>2, <2>3
<1> QED
  BY <1>1, <1>2, TurnKeeps

LEMMA DisturbedKeeps ==
    ASSUME PrivateKept, NEW b \in ManagedBrowsers, FileDisturbed(b)
    PROVE  PrivateKept'
<1>1. PICK content \in {NoPolicyFile, Torn} : file' = [file EXCEPT ![b] = content]
  BY DEF FileDisturbed
<1>2. /\ used' = [used EXCEPT !.mishaps = @ + 1]
      /\ holds' = [a \in Actors |-> IF ~Idle(a) /\ Current(a) = b /\ holds[a] = "file"
                                    THEN "gone" ELSE holds[a]]
      /\ UNCHANGED <<life, setting, enabled, moment, session, suspect, heard, asked, during,
                     pass, temp>>
  BY DEF FileDisturbed, world
<1>3. file' \in [ManagedBrowsers -> Contents]
  BY <1>1, KindsDiffer DEF PrivateKept, FilesKept
<1>4. FilesKept' /\ used' \in [turns : Nat, asks : Nat, mishaps : Nat]
  BY <1>2, <1>3 DEF PrivateKept, FilesKept, Current, Idle
<1> QED
  BY <1>2, <1>4 DEF PrivateKept, WorldKept, RequestsKept, Idle, ForChange

LEMMA NothingUnderWay ==
    ASSUME pass = [a \in Actors |-> NoPass], holds = [a \in Actors |-> "none"],
           temp \in [ManagedBrowsers -> Contents], file \in [ManagedBrowsers -> Contents],
           asked = [c \in Clients |-> NoAsk], during = [c \in Clients |-> {}]
    PROVE  FilesKept /\ RequestsKept
<1>1. FilesKept
  BY NoPassIsPass DEF FilesKept, Idle
<1>2. RequestsKept
  BY DEF RequestsKept, Asked, NoAsk, ForChange
<1> QED
  BY <1>1, <1>2

LEMMA LifeKeeps ==
    ASSUME PrivateKept, DaemonDies \/ Restart
    PROVE  PrivateKept'
<1>1. CASE DaemonDies
  <2>1. /\ life' = "down" /\ used' = [used EXCEPT !.mishaps = @ + 1]
        /\ asked' = [c \in Clients |-> NoAsk] /\ during' = [c \in Clients |-> {}]
        /\ pass' = [a \in Actors |-> NoPass] /\ holds' = [a \in Actors |-> "none"]
        /\ temp' = [b \in ManagedBrowsers |-> NoPolicyFile] /\ file' = file
        /\ UNCHANGED <<setting, enabled, moment, session, suspect, heard>>
    BY <1>1 DEF DaemonDies, world
  <2>2. FilesKept'
    BY <2>1, NoPassIsPass, KindsDiffer DEF PrivateKept, FilesKept, Idle
  <2>3. RequestsKept'
    BY <2>1 DEF RequestsKept, Asked, NoAsk, ForChange
  <2>4. used' \in [turns : Nat, asks : Nat, mishaps : Nat]
    BY <2>1 DEF PrivateKept
  <2> QED
    BY <2>1, <2>2, <2>3, <2>4 DEF PrivateKept, WorldKept
<1>2. CASE Restart
  <2>1. /\ life' = "starting"
        /\ UNCHANGED <<setting, enabled, moment, session, suspect, heard, asked, during, pass,
                       holds, temp, file, used>>
    BY <1>2 DEF Restart, world, files
  <2> QED
    BY <2>1 DEF PrivateKept, FilesKept, WorldKept, RequestsKept, Current, Idle, ForChange
<1> QED
  BY <1>1, <1>2

-----------------------------------------------------------------------------
LEMMA PrivateStart == PrivateInit => PrivateKept
<1> SUFFICES ASSUME PrivateInit PROVE PrivateKept
  OBVIOUS
<1>1. WorldKept
  BY DEF PrivateInit, WorldKept, PrivateModes, DisableScopes, AccessModes
<1>2. Policy(CurrentSettings) \in Contents
  BY <1>1, CurrentIsTyped DEF Policy, Contents
<1>3. temp \in [ManagedBrowsers -> Contents] /\ file \in [ManagedBrowsers -> Contents]
  BY <1>2, KindsDiffer DEF PrivateInit
<1>4. FilesKept /\ RequestsKept
  BY <1>3, NothingUnderWay DEF PrivateInit
<1> QED
  BY <1>1, <1>4 DEF PrivateInit, PrivateKept

LEMMA PrivateStep == PrivateKept /\ [PrivateNext]_privateVars => PrivateKept'
<1> SUFFICES ASSUME PrivateKept, [PrivateNext]_privateVars PROVE PrivateKept'
  OBVIOUS
<1>1. CASE LoopWrites
  BY <1>1, LoopBeginsKeeps, PassStepKeeps DEF LoopWrites, PassStep, Actors
<1>2. ASSUME NEW c \in Clients, ClientNext(c) PROVE PrivateKept'
  <2>1. ASSUME NEW change \in Changes, Ask(c, change) PROVE PrivateKept'
    BY <2>1, AskKeeps
  <2>2. CASE RefuseChange(c) \/ RepairAfterDetox(c)
    BY <2>2, OtherAnswersKeep
  <2>3. CASE StoreChange(c) \/ StartDetox(c)
    BY <2>3, StoreChangeKeeps, StartDetoxKeeps
  <2>4. ASSUME NEW access \in AccessModes, SetAccess(c, access) PROVE PrivateKept'
    BY <2>4, SettingKeeps
  <2>5. ASSUME NEW b \in Deferred, Heartbeat(c, b) PROVE PrivateKept'
    BY <2>5, HeartbeatKeeps
  <2>6. CASE PassStep(c)
    BY <2>6, PassStepKeeps DEF Actors
  <2> QED
    BY <1>2, <2>1, <2>2, <2>3, <2>4, <2>5, <2>6 DEF ClientNext, PassStep
<1>3. CASE WorldNext
  <2>1. CASE MomentTurns \/ DetoxEnds \/ ClockSuspected \/ PolicyEdited
    BY <2>1, WorldTurns
  <2>2. ASSUME NEW b \in ManagedBrowsers, FileDisturbed(b) PROVE PrivateKept'
    BY <2>2, DisturbedKeeps
  <2>3. ASSUME NEW a \in Actors, TemporaryFails(a) PROVE PrivateKept'
    BY <2>3, PassStepKeeps DEF PassStep
  <2>4. CASE DaemonDies
    BY <2>4, LifeKeeps
  <2> QED
    BY <1>3, <2>1, <2>2, <2>3, <2>4 DEF WorldNext
<1>4. CASE Restart
  BY <1>4, LifeKeeps
<1>5. CASE UNCHANGED privateVars
  BY <1>5 DEF privateVars, PrivateKept, FilesKept, WorldKept, RequestsKept, Current, Idle,
              ForChange
<1> QED
  BY <1>1, <1>2, <1>3, <1>4, <1>5 DEF PrivateNext

LEMMA PrivateHolds == PrivateSpec => []PrivateKept
BY PrivateStart, PrivateStep, PTL DEF PrivateSpec

\* However many tasks write through one temporary name, and whatever fails, a
\* descriptor that is still on the temporary name has a file there, and no task
\* keeps a descriptor after its write (write_json_atomically, finish_atomic_write).
THEOREM PrivateTypeCorrect == PrivateSpec => []PrivateTypeOK
<1>1. PrivateKept => PrivateTypeOK
  BY DEF PrivateKept, FilesKept, WorldKept, RequestsKept, PrivateTypeOK
<1> QED
  BY <1>1, PrivateHolds, PTL

\* Only the answer to a request changes the mode or the scope.
LEMMA OnlyStoresChange ==
    ASSUME PrivateKept, [PrivateNext]_privateVars,
           setting'.mode # setting.mode \/ setting'.scope # setting.scope
    PROVE  \E c \in Clients : StoreChange(c)
<1> USE DEF world
<1>1. setting' # setting
  OBVIOUS
<1>2. ASSUME NEW c \in Clients, NEW access \in AccessModes, SetAccess(c, access) PROVE FALSE
  BY <1>2 DEF SetAccess, PrivateKept, WorldKept
<1>3. ASSUME NEW a \in Actors, PassStep(a) PROVE FALSE
  BY <1>1, <1>3 DEF PassStep, SkipDeferred, KeepFile, RefuseFile, OpenTemporary,
                    WriteTemporary, RenameTemporary, TemporaryFails, RenameFails, Tidy
<1>4. ~LoopWrites
  BY <1>1, <1>3 DEF LoopWrites, LoopBegins, PassStep, Actors
<1>5. ~WorldNext
  BY <1>1, <1>3 DEF WorldNext, MomentTurns, DetoxEnds, ClockSuspected, PolicyEdited, Turn,
                    FileDisturbed, DaemonDies, PassStep
<1>6. ~Restart /\ ~UNCHANGED privateVars
  BY <1>1 DEF Restart, privateVars
<1>7. PICK c \in Clients : ClientNext(c)
  BY <1>4, <1>5, <1>6 DEF PrivateNext
<1>8. ~PassStep(c)
  BY <1>3 DEF Actors
<1>9. StoreChange(c)
  BY <1>1, <1>2, <1>7, <1>8 DEF ClientNext, PassStep, Ask, RefuseChange, StartDetox,
                                RepairAfterDetox, Heartbeat
<1> QED
  BY <1>9

\* Whatever edits, turns and other clients come between a request's instant and its
\* answer, an instant during the request allowed the change (ensure_chromium_
\* incognito_settings_change_allowed, with the now of guarded_now_with_status).
THEOREM ChangesAreOpen == PrivateSpec => ChangesWereOpen
<1>1. ASSUME PrivateKept, [PrivateNext]_privateVars,
             setting'.mode # setting.mode \/ setting'.scope # setting.scope
      PROVE  \E c \in Clients : \E m \in during[c] : WasOpen(m)
  <2>1. PICK c \in Clients : StoreChange(c)
    BY <1>1, OnlyStoresChange
  <2>2. ForChange(c) /\ ChangeAllowed(asked[c].at, asked[c].suspect)
    BY <2>1 DEF StoreChange
  <2> QED
    BY <1>1, <2>2, StoredWasOpen
<1> QED
  BY <1>1, PrivateHolds, PTL DEF PrivateSpec, ChangesWereOpen
===============================================================================
