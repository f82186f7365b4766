----------------------------- MODULE MergedPolicy -----------------------------
(***************************************************************************)
(* The policy file BlocKuntu shares with its user and with other software   *)
(* (focusd/src/firefox_policy.rs, a manager made by                         *)
(* merging_existing_policy): a repair merges the managed settings into the  *)
(* document after recording what they were, and a removal puts that back.   *)
(*                                                                          *)
(* Nothing locks the file or the backup.  A repair reads the document,      *)
(* records the backup and writes; a removal reads the backup, reads the     *)
(* document, writes it and deletes the backup; a crash may come between.    *)
(* Each read, write and deletion is a step.                                 *)
(*                                                                          *)
(* A document is a function from settings to values.  Settings within       *)
(* ExtensionSettings and Preferences have that object for parent; an object *)
(* with nothing in it counts as none.                                       *)
(***************************************************************************)
EXTENDS Integers, FiniteSets

CONSTANTS
    Keys,           \* settings of the document
    Managed,        \* those BlocKuntu sets
    Parent,         \* the object each setting is in; Root for a policy key
    Root,
    UserMay,        \* the values a user may give each setting
    Ours,           \* the value of a managed setting in expected_policy
    Absent,         \* no such setting
    Missing,        \* no such document
    Legacy,         \* whether the document may be one an earlier version wrote
    NoBackup,       \* no such backup
    EmptyObjects,   \* whether an edit may empty an object
    Tasks,          \* tasks that may repair or remove at once
    MaxUserEdits,       \* bound: edits by the user
    MaxRemovals,    \* bound: removals begun
    MaxTaskLosses      \* bound: crashes

Values == (UNION {UserMay[k] : k \in Keys}) \cup {Ours, Absent}
Documents == [Keys -> Values]
Backups == [missing : BOOLEAN, values : [Managed -> Values]]

ASSUME DocumentAssumption ==
    /\ Managed \subseteq Keys
    /\ MaxUserEdits \in Nat /\ MaxRemovals \in Nat /\ MaxTaskLosses \in Nat
    /\ Legacy \in BOOLEAN /\ EmptyObjects \in BOOLEAN
    /\ Ours # Absent
    /\ Missing \notin Documents /\ NoBackup \notin Backups

VARIABLES
    document,   \* the policy file
    backup,     \* the backup file
    task,       \* where each task is, and what it has read
    userEdits, removals, crashes

mergedVars == <<document, backup, task, userEdits, removals, crashes>>

NoTask == [at |-> "idle", read |-> Missing, saved |-> NoBackup]

-----------------------------------------------------------------------------
(* Pure operations on documents.                                            *)

Empty == [k \in Keys |-> Absent]

Includes(d) == \A k \in Managed : d[k] = Ours

MergeOurs(d) == [k \in Keys |-> IF k \in Managed THEN Ours ELSE d[k]]

HasParent(d, k) ==
    Parent[k] = Root \/ \E j \in Keys : Parent[j] = Parent[k] /\ d[j] # Absent

\* Slip: a managed setting that was absent is left in place.
Restore_KeepsAbsent(d, b) ==
    [k \in Keys |->
        IF k \in Managed /\ HasParent(d, k) /\ b.values[k] # Absent
        THEN b.values[k] ELSE d[k]]

\* A setting whose object has gone is not put back.
Restore(d, b) ==
    [k \in Keys |-> IF k \in Managed /\ HasParent(d, k) THEN b.values[k] ELSE d[k]]

NothingSaved == [missing |-> TRUE, values |-> [k \in Managed |-> Absent]]

\* A document that includes all of ours and has no backup is one an earlier
\* version wrote: ours are taken out before it is recorded.
BackupOf(d) ==
    LET original == IF d # Missing /\ Includes(d) THEN Restore(d, NothingSaved) ELSE d
    IN  IF d = Missing THEN NothingSaved
        ELSE [missing |-> Includes(d) /\ original = Empty,
              values  |-> [k \in Managed |-> original[k]]]

-----------------------------------------------------------------------------
\* A document of the user's, none, or one written by an earlier version.
MergedInit ==
    /\ document \in {d \in Documents : \A k \in Keys : d[k] \in UserMay[k]}
                     \cup {Missing}
                     \cup (IF Legacy THEN {MergeOurs(Empty)} ELSE {})
    /\ backup = NoBackup
    /\ task = [t \in Tasks |-> NoTask]
    /\ userEdits = 0 /\ removals = 0 /\ crashes = 0

Shown == IF document = Missing THEN Empty ELSE document

Quiet == \A t \in Tasks : task[t] = NoTask

\* Other software rewrites the document whole, between the daemon's passes;
\* it may create the document.  An earlier version's document meets a repair
\* first: the daemon repairs as it starts.
UserEdits ==
    /\ Quiet /\ userEdits < MaxUserEdits
    /\ backup = NoBackup => ~Includes(Shown)
    /\ userEdits' = userEdits + 1
    /\ \E k \in Keys : \E v \in UserMay[k] :
          LET edited == [Shown EXCEPT ![k] = v]
          IN  /\ EmptyObjects \/ (HasParent(Shown, k) => HasParent(edited, k))
              /\ document' = edited
    /\ UNCHANGED <<backup, task, removals, crashes>>

(* merge_and_repair *)

BeginRepair(t) ==
    /\ task[t] = NoTask
    /\ task' = [task EXCEPT ![t] = [at |-> "backup", read |-> document, saved |-> NoBackup]]
    /\ UNCHANGED <<document, backup, userEdits, removals, crashes>>

\* Slip: the backup is recorded again by every repair.
EnsureBackup_Always(t) ==
    /\ task[t].at = "backup"
    /\ backup' = BackupOf(task[t].read)
    /\ task' = [task EXCEPT ![t] =
           IF task[t].read # Missing /\ Includes(task[t].read)
           THEN NoTask ELSE [@ EXCEPT !.at = "merge"]]
    /\ UNCHANGED <<document, userEdits, removals, crashes>>

EnsureBackup(t) ==
    LET read == task[t].read
    IN  /\ task[t].at = "backup"
        /\ backup' = IF backup = NoBackup THEN BackupOf(read) ELSE backup
        /\ task' = [task EXCEPT ![t] =
               IF read # Missing /\ Includes(read) THEN NoTask ELSE [@ EXCEPT !.at = "merge"]]
        /\ UNCHANGED <<document, userEdits, removals, crashes>>

WriteMerged(t) ==
    LET read == task[t].read
    IN  /\ task[t].at = "merge"
        /\ document' = MergeOurs(IF read = Missing THEN Empty ELSE read)
        /\ task' = [task EXCEPT ![t] = NoTask]
        /\ UNCHANGED <<backup, userEdits, removals, crashes>>

(* remove_merged_policy *)

BeginRemoval(t) ==
    /\ task[t] = NoTask /\ removals < MaxRemovals
    /\ removals' = removals + 1
    /\ task' = [task EXCEPT ![t] =
           IF backup = NoBackup THEN NoTask
           ELSE [at |-> "read", read |-> Missing, saved |-> backup]]
    /\ UNCHANGED <<document, backup, userEdits, crashes>>

\* A document that has gone is an error, unless there was none to begin with.
ReadDocument(t) ==
    LET saved == task[t].saved
    IN  /\ task[t].at = "read"
        /\ task' = [task EXCEPT ![t] =
               CASE document # Missing -> [@ EXCEPT !.at = "restore", !.read = document]
                 [] document = Missing /\ saved.missing -> [@ EXCEPT !.at = "forget"]
                 [] OTHER -> NoTask]
        /\ UNCHANGED <<document, backup, userEdits, removals, crashes>>

WriteRestored(t) ==
    LET saved == task[t].saved
        restored == Restore(task[t].read, saved)
    IN  /\ task[t].at = "restore"
        /\ document' = IF saved.missing /\ restored = Empty THEN Missing ELSE restored
        /\ task' = [task EXCEPT ![t].at = "forget"]
        /\ UNCHANGED <<backup, userEdits, removals, crashes>>

ForgetBackup(t) ==
    /\ task[t].at = "forget"
    /\ backup' = NoBackup
    /\ task' = [task EXCEPT ![t] = NoTask]
    /\ UNCHANGED <<document, userEdits, removals, crashes>>

LoseTasks ==
    /\ ~Quiet /\ crashes < MaxTaskLosses
    /\ crashes' = crashes + 1
    /\ task' = [t \in Tasks |-> NoTask]
    /\ UNCHANGED <<document, backup, userEdits, removals>>

MergedNext ==
    \/ UserEdits \/ LoseTasks
    \/ \E t \in Tasks :
          \/ BeginRepair(t) \/ EnsureBackup(t) \/ WriteMerged(t)
          \/ BeginRemoval(t) \/ ReadDocument(t) \/ WriteRestored(t) \/ ForgetBackup(t)

MergedSpec == MergedInit /\ [][MergedNext]_mergedVars

-----------------------------------------------------------------------------
TaskStates ==
    [at : {"idle", "backup", "merge", "read", "restore", "forget"},
     read : Documents \cup {Missing}, saved : Backups \cup {NoBackup}]

\* What is on disk is a document and a backup; a task that merges or restores
\* has read what that needs.
MergedTypeOK ==
    /\ document \in Documents \cup {Missing}
    /\ backup \in Backups \cup {NoBackup}
    /\ task \in [Tasks -> TaskStates]
    /\ \A t \in Tasks :
          /\ task[t].at = "restore" => task[t].read # Missing
          /\ task[t].at \in {"read", "restore", "forget"} <=> task[t].saved # NoBackup
    /\ userEdits \in Nat /\ removals \in Nat /\ crashes \in Nat

\* What the document holds of the user's, by the code's own records: under a
\* backup the managed settings are those recorded.
UserSettings ==
    IF backup = NoBackup
    THEN IF Includes(Shown) THEN [k \in Keys |-> IF k \in Managed THEN Absent ELSE Shown[k]]
         ELSE Shown
    ELSE [k \in Keys |-> IF k \in Managed THEN backup.values[k] ELSE Shown[k]]

Overlay == INSTANCE PolicyOverlay WITH
               user <- UserSettings, engaged <- backup # NoBackup

\* One task at a time, repairs, removals and crashes at any of their steps
\* only ever lay BlocKuntu's settings over the user's: no step but an edit
\* changes a setting the user will have back.
ImplementsOverlay == Overlay!OverlaySpec
=============================================================================
