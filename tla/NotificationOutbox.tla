-------------------------- MODULE NotificationOutbox --------------------------
(***************************************************************************)
(* The outbox of desktop notifications: tables of the database that the     *)
(* daemon fills (db.rs, rpc.rs, app.rs) and the desktop application empties *)
(* (deliver_pending_notifications of focus-gui/src-tauri/src/lib.rs).       *)
(*                                                                          *)
(* The daemon's handlers hold the core lock, but each statement commits by  *)
(* itself: a crash keeps a prefix of them.  The application polls, shows    *)
(* what it got one by one, and reports each result in a call of its own;    *)
(* calls are lost and the application is closed at any point.               *)
(*                                                                          *)
(* Ages are counted in ticks of a minute and saturate.                      *)
(***************************************************************************)
EXTENDS Integers, Sequences, FiniteSets, SequencesExt, Absent

CONSTANTS
    Scripts,      \* [sources, changes], see script; the sources are "block", "schedule",
                  \* "detox" and "allowance", changes bounds the turns of the facts and
                  \* of the preferences
    Savable,      \* the preferences a user may save, see preferences
    Thresholds,   \* allowance_warning_minutes, on the scale of facts.left
    Full,         \* the time left of an unused allowance, on that scale
    Cooldown,     \* [kind -> ticks]: within it an equal event is dropped
    Ttl,          \* [kind -> ticks]: time_to_live
    BlockAge, Retry, DeliveredRetention,   \* 60 s, a minute, 7 days
    Limit,        \* the rows of one poll
    MaxRows,      \* bound: rows queued
    MaxDay        \* bound: midnights

BlockKinds == {"website_blocked", "application_blocked"}
Lifecycle == [schedule |-> [started |-> "schedule_started", ended |-> "schedule_ended"],
              detox |-> [started |-> "detox_started", ended |-> "detox_ended"]]
Kinds == BlockKinds \cup {"allowance_warning"}
         \cup UNION {{Lifecycle[s].started, Lifecycle[s].ended} : s \in DOMAIN Lifecycle}

\* What was delivered is kept for longer than any cooldown.
ASSUME OutboxAssumption ==
    /\ \A kind \in Kinds : Cooldown[kind] \in Nat /\ Ttl[kind] \in Nat
    /\ {BlockAge, Retry, DeliveredRetention, Limit, MaxRows, MaxDay, Full} \subseteq Nat
    /\ \A kind \in Kinds : Cooldown[kind] < DeliveredRetention
    /\ Thresholds \subseteq Nat /\ None \notin Nat \cup BOOLEAN

VARIABLES
    outbox,       \* notification_outbox and its attempts: rows by id, and the next id
    preferences,  \* notification_preferences: [enabled, on]
    torn,         \* ghost: preferences were saved and what they turn off not discarded
    facts,        \* what is true: schedule and detox session active (None: there is none),
                  \* the day, and the allowance left
    known,        \* notification_lifecycle_state and notification_allowance_state
    client,       \* the delivery loop of the desktop application
    shown,        \* ghost: how often each id was shown, and whether a result got lost
    told,         \* ghost: age of the newest event of a key whose display was recorded
    script        \* what may still happen around it: [sources, changes]

outboxVars == <<outbox, preferences, torn, facts, known, client, shown, told, script>>

LongestQuiet == Max({Cooldown[k] : k \in Kinds})
RowHorizon == Max({LongestQuiet, BlockAge, Retry, Max({Ttl[k] : k \in Kinds})}) + 1
ToldHorizon == LongestQuiet + RowHorizon

Aged(n, horizon) == IF n = None \/ n = horizon THEN n ELSE n + 1

\* dedupe_key: the kind and what it is about.
AllowanceKey(day, minutes) == <<"allowance_warning", day, minutes>>
Keys == {<<kind>> : kind \in Kinds}
        \cup {AllowanceKey(day, minutes) : day \in 0..MaxDay, minutes \in Thresholds}
Kind(key) == key[1]
On(kind) == preferences.enabled /\ kind \in preferences.on

Off == [at |-> "off", age |-> 0, batch |-> <<>>, accepted |-> FALSE]

OutboxInit ==
    /\ outbox = [rows |-> <<>>, next |-> 1]
    /\ preferences = [enabled |-> TRUE, on |-> Kinds]
    /\ torn = FALSE
    /\ facts = [schedule |-> FALSE, detox |-> None, day |-> 0, left |-> Full]
    /\ known = [schedule |-> None, detox |-> None, day |-> None, left |-> Full]
    /\ client = Off
    /\ shown = [id \in 1..MaxRows |-> [times |-> 0, unrecorded |-> FALSE]]
    /\ told = [key \in Keys |-> None]
    /\ script \in Scripts
-------------------------------------------------------------------------------
(* The statements                                                           *)

Duplicate(box, key) ==
    \E id \in DOMAIN box.rows : /\ box.rows[id].key = key
                                /\ box.rows[id].age <= Cooldown[Kind(key)]

\* enqueue_notification
Enqueued(box, key) ==
    IF Duplicate(box, key) THEN box
    ELSE LET row == [key |-> key, age |-> 0, delivered |-> None, tried |-> None]
         IN  [rows |-> [id \in DOMAIN box.rows \cup {box.next} |->
                          IF id = box.next THEN row ELSE box.rows[id]],
              next |-> box.next + 1]

\* SET delivered_at = now WHERE delivered_at IS NULL
Delivered(rows, ids) ==
    [id \in DOMAIN rows |-> IF id \in ids /\ rows[id].delivered = None
                            THEN [rows[id] EXCEPT !.delivered = 0] ELSE rows[id]]

\* discard_historical_block_notifications
Historical(rows, age) ==
    {id \in DOMAIN rows : Kind(rows[id].key) \in BlockKinds /\ rows[id].age > age}

\* Slip: what expired is deleted, delivered or not.
PolledTidy(rows, since) ==
    LET marked == Delivered(rows, Historical(rows, since) \cup Historical(rows, BlockAge))
    IN  Restrict(marked, {id \in DOMAIN rows : marked[id].age < Ttl[Kind(rows[id].key)]})

\* pending_notifications deletes what expired and what was delivered long ago, and
\* marks block events that are old or older than the client as delivered.
Polled(rows, since) ==
    LET marked == Delivered(rows, Historical(rows, since) \cup Historical(rows, BlockAge))
        kept == {id \in DOMAIN rows :
                   IF marked[id].delivered = None
                   THEN marked[id].age < Ttl[Kind(rows[id].key)]
                   ELSE marked[id].delivered < DeliveredRetention}
    IN  Restrict(marked, kept)

Pending(rows) ==
    {id \in DOMAIN rows : /\ rows[id].delivered = None
                          /\ rows[id].tried = None \/ rows[id].tried >= Retry}

\* ORDER BY queued_at LIMIT
FirstOf(ids) ==
    LET earlier(id) == {other \in ids : other < id}
        count == IF Cardinality(ids) < Limit THEN Cardinality(ids) ELSE Limit
    IN  [n \in 1..count |-> CHOOSE id \in ids : Cardinality(earlier(id)) = n - 1]
-------------------------------------------------------------------------------
(* What fills the outbox                                                    *)

\* enqueue_website_block_notification, enqueue_application_block_notification
Block(kind) ==
    /\ "block" \in script.sources /\ On(kind)
    /\ outbox' = Enqueued(outbox, <<kind>>)
    /\ outbox'.next <= MaxRows + 1
    /\ UNCHANGED <<preferences, torn, facts, known, client, shown, told, script>>

\* The prefixes of a handler's statements, on the outbox and the known states: a crash
\* keeps any of them.
Enqueue(s, key) == [s EXCEPT !.box = Enqueued(s.box, key)]
Note(s, source) == [s EXCEPT !.known[source] = facts[source]]

Flipped(s, source) ==
    None \notin {s.known[source], facts[source]} /\ s.known[source] # facts[source]

QueueLifecycle(s, source) ==
    LET kind == IF facts[source] THEN Lifecycle[source].started ELSE Lifecycle[source].ended
    IN  IF On(kind) THEN Enqueue(s, <<kind>>) ELSE s

\* Slip: the state first, as for a detox.
ScheduleNoted(s) ==
    LET noted == Note(s, "schedule")
    IN  <<noted, IF Flipped(s, "schedule") THEN QueueLifecycle(noted, "schedule") ELSE noted>>

\* sync_schedule_notifications: the notification first, then the state.
ScheduleSynced(s) ==
    LET queued == IF Flipped(s, "schedule") THEN QueueLifecycle(s, "schedule") ELSE s
    IN  <<queued, Note(queued, "schedule")>>

\* enqueue_detox_notification: the state first, then the notification.
DetoxTold(s) ==
    LET noted == Note(s, "detox")
    IN  <<noted, QueueLifecycle(noted, "detox")>>

\* sync_detox_notifications
DetoxSynced(s) == IF Flipped(s, "detox") THEN DetoxTold(s) ELSE <<Note(s, "detox")>>

\* sync_allowance_notifications: the least threshold crossed since it last looked today.
Crossed(s) == {minutes \in Thresholds : /\ s.known.day = facts.day
                                        /\ s.known.left > minutes /\ facts.left <= minutes}

AllowanceSynced(s) ==
    LET least == CHOOSE minutes \in Crossed(s) : \A other \in Crossed(s) : minutes <= other
        queued == IF Crossed(s) # {} /\ On("allowance_warning")
                  THEN Enqueue(s, AllowanceKey(facts.day, least)) ELSE s
    IN  <<queued, [queued EXCEPT !.known = [@ EXCEPT !.day = facts.day, !.left = facts.left]]>>

LastNoted == [box |-> outbox, known |-> known]

Followed ==
    LET schedule == ScheduleSynced(LastNoted)
        detox == DetoxSynced(Last(schedule))
    IN  schedule \o detox \o AllowanceSynced(Last(detox))

Keep(prefixes) ==
    /\ \E n \in DOMAIN prefixes : outbox' = prefixes[n].box /\ known' = prefixes[n].known
    /\ outbox'.next <= MaxRows + 1

\* sync_notification_state_once; a clock that was tampered with stops it.
Sync == Keep(Followed) /\ UNCHANGED <<preferences, torn, facts, client, shown, told, script>>

\* start_detox tells at once; nothing ends a session but its time.
StartDetox ==
    /\ "detox" \in script.sources /\ facts.detox = None
    /\ facts' = [facts EXCEPT !.detox = TRUE]
    /\ LET noted == [LastNoted EXCEPT !.known.detox = TRUE]
       IN  Keep(<<LastNoted, noted, IF On("detox_started") THEN Enqueue(noted, <<"detox_started">>)
                              ELSE noted>>)
    /\ UNCHANGED <<preferences, torn, client, shown, told, script>>

Change == script.changes > 0 /\ script' = [script EXCEPT !.changes = @ - 1]

\* Every edit and import of the policy starts from the schedules it leaves:
\* rebaseline_schedule_notification_states.
EditPolicy ==
    /\ Change /\ "schedule" \in script.sources
    /\ \E active \in {TRUE, FALSE, None} :
         /\ facts' = [facts EXCEPT !.schedule = active]
         /\ known' \in {known, [known EXCEPT !.schedule = active]}
    /\ UNCHANGED <<outbox, preferences, torn, client, shown, told>>

\* set_notification_preferences saves, then discard_disabled_notifications.
SetPreferences ==
    \E choice \in Savable, cut \in BOOLEAN :
      /\ Change /\ preferences' = choice /\ torn' = cut
      /\ LET off == {id \in DOMAIN outbox.rows :
                       ~(choice.enabled /\ Kind(outbox.rows[id].key) \in choice.on)}
         IN  outbox' = IF cut THEN outbox
                       ELSE [outbox EXCEPT !.rows = Delivered(outbox.rows, off)]
      /\ UNCHANGED <<facts, known, client, shown, told>>

\* A window opens or closes, a detox ends, an allowance is used or raised, a day begins.
Turn ==
    /\ Change
    /\ \/ "schedule" \in script.sources /\ facts.schedule # None
          /\ facts' = [facts EXCEPT !.schedule = ~@]
       \/ facts.detox = TRUE /\ facts' = [facts EXCEPT !.detox = FALSE]
       \/ "allowance" \in script.sources
          /\ \/ \E n \in 0..Full : facts' = [facts EXCEPT !.left = n]
             \/ facts.day < MaxDay /\ facts' = [facts EXCEPT !.day = @ + 1, !.left = Full]
    /\ UNCHANGED <<outbox, preferences, torn, known, client, shown, told>>
-------------------------------------------------------------------------------
(* The desktop application                                                  *)

\* NOTIFICATION_CLIENT_STARTED_AT is set by the first poll of the process.
StartClient ==
    /\ client.at = "off"
    /\ client' = [Off EXCEPT !.at = "idle"]
    /\ UNCHANGED <<outbox, preferences, torn, facts, known, shown, told, script>>

\* It may be closed after it showed a notification and before it said so.
CloseClient ==
    /\ client.at # "off"
    /\ client' = Off
    /\ shown' = IF client.at = "record" /\ client.accepted
                THEN [shown EXCEPT ![Head(client.batch)].unrecorded = TRUE] ELSE shown
    /\ UNCHANGED <<outbox, preferences, torn, facts, known, told, script>>

\* pending_notifications; its answer may be lost.
Poll ==
    /\ client.at = "idle"
    /\ LET rows == Polled(outbox.rows, client.age)
       IN  /\ outbox' = [outbox EXCEPT !.rows = rows]
           /\ \E batch \in {FirstOf(Pending(rows)), <<>>} :
                client' = [client EXCEPT !.batch = batch,
                                         !.at = IF batch = <<>> THEN "idle" ELSE "show"]
    /\ UNCHANGED <<preferences, torn, facts, known, shown, told, script>>

\* The notification service accepts it or not.
Show ==
    /\ client.at = "show"
    /\ \E accepted \in BOOLEAN :
         /\ client' = [client EXCEPT !.at = "record", !.accepted = accepted]
         /\ shown' = IF accepted /\ shown[Head(client.batch)].times < 2
                     THEN [shown EXCEPT ![Head(client.batch)].times = @ + 1] ELSE shown
    /\ UNCHANGED <<outbox, preferences, torn, facts, known, told, script>>

\* record_notification_delivery_result; a row that is gone is an error.
WithResult(rows, id, delivered) ==
    IF id \notin DOMAIN rows THEN rows
    ELSE IF delivered THEN [Delivered(rows, {id}) EXCEPT ![id].tried = None]
    ELSE [rows EXCEPT ![id].tried = 0]

SinceEvent(row) == IF row.age = RowHorizon THEN ToldHorizon ELSE row.age
Newer(old, new) == IF old # None /\ old < new THEN old ELSE new

RecordResult ==
    /\ client.at = "record"
    /\ LET id == Head(client.batch)
           rest == Tail(client.batch)
       IN  /\ client' = [client EXCEPT !.batch = rest, !.accepted = FALSE,
                                       !.at = IF rest = <<>> THEN "idle" ELSE "show"]
           /\ \/ /\ outbox' = [outbox EXCEPT !.rows = WithResult(@, id, client.accepted)]
                 /\ told' = IF client.accepted /\ id \in DOMAIN outbox.rows
                            THEN [told EXCEPT ![outbox.rows[id].key] =
                                    Newer(@, SinceEvent(outbox.rows[id]))]
                            ELSE told
                 /\ UNCHANGED shown
              \/ /\ shown' = IF client.accepted
                             THEN [shown EXCEPT ![id].unrecorded = TRUE] ELSE shown
                 /\ UNCHANGED <<outbox, told>>
    /\ UNCHANGED <<preferences, torn, facts, known, script>>

Older(row) == [row EXCEPT !.age = Aged(@, RowHorizon), !.delivered = Aged(@, DeliveredRetention),
                          !.tried = Aged(@, Retry)]

OutboxTick ==
    /\ outbox' = [outbox EXCEPT !.rows = [id \in DOMAIN @ |-> Older(@[id])]]
    /\ client' = [client EXCEPT !.age = IF client.at = "off" THEN 0 ELSE Aged(@, RowHorizon)]
    /\ told' = [key \in Keys |-> Aged(told[key], ToldHorizon)]
    /\ UNCHANGED <<preferences, torn, facts, known, shown, script>>
-------------------------------------------------------------------------------
\* deliver_pending_notifications, again and again
Deliver == Poll \/ Show \/ RecordResult

OutboxNext ==
    \/ \E kind \in BlockKinds : Block(kind)
    \/ Sync \/ StartDetox \/ EditPolicy \/ SetPreferences \/ Turn
    \/ StartClient \/ CloseClient \/ Deliver \/ OutboxTick

OutboxSpec == OutboxInit /\ [][OutboxNext]_outboxVars
-------------------------------------------------------------------------------
(* Properties                                                               *)

\* Rows have ids that were given once, in order; a batch has at most Limit of
\* them, the first queued first.
OutboxTypeOK ==
    /\ DOMAIN outbox.rows \subseteq 1..(outbox.next - 1) /\ outbox.next \in 1..(MaxRows + 1)
    /\ \A id \in DOMAIN outbox.rows :
         /\ outbox.rows[id].key \in Keys
         /\ outbox.rows[id].age \in 0..RowHorizon
         /\ outbox.rows[id].delivered = None \/ outbox.rows[id].delivered \in 0..DeliveredRetention
         /\ outbox.rows[id].tried = None \/ outbox.rows[id].tried \in 0..Retry
    /\ Len(client.batch) <= Limit
    /\ \A i, j \in DOMAIN client.batch : i < j => client.batch[i] < client.batch[j]
    /\ client.at \in {"off", "idle", "show", "record"}
    /\ client.at \in {"show", "record"} => client.batch # <<>>

\* A notification is shown once, unless the report of its display was lost or the
\* application ended before it: neither a poll, a retry, an expiry nor a change of the
\* preferences brings back what was shown.
ShownOnce == \A id \in 1..MaxRows : shown[id].times > 1 => shown[id].unrecorded

\* What waits to be shown happened more than the cooldown after the newest equal event
\* the user was told of, or more than the cooldown before it, when its display failed at
\* first; though rows are deleted when they expire and when they are old.
NoRepetition ==
    \A id \in DOMAIN outbox.rows :
      LET row == outbox.rows[id]
          since == told[row.key]
          quiet == Cooldown[Kind(row.key)]
      IN  (row.delivered = None /\ since # None)
            => \/ since = ToldHorizon \/ row.age = RowHorizon
               \/ since - row.age > quiet \/ row.age - since > quiet

\* What a user turned off is not waiting to be shown, unless the daemon ended between
\* saving the preferences and discarding what they turn off.
OffMeansSilent ==
    torn \/ \A id \in DOMAIN outbox.rows :
              outbox.rows[id].delivered = None => On(Kind(outbox.rows[id].key))

\* Types, and what waits to be shown was not shown before, repeats nothing the user was
\* just told, and was not turned off.
OutboxInvariant == OutboxTypeOK /\ ShownOnce /\ NoRepetition /\ OffMeansSilent

\* The daemon never takes note of a schedule's turn without a notification of it that is
\* younger than the cooldown, whatever point it is ended at: a turn is told late or twice,
\* never forgotten.
TurnsAreTold ==
    [][Sync /\ None \notin {known.schedule, known'.schedule}
            /\ known'.schedule # known.schedule
         => LET kind == IF known'.schedule THEN "schedule_started" ELSE "schedule_ended"
            IN  ~On(kind) \/ Duplicate(outbox', <<kind>>)]_outboxVars
===============================================================================
