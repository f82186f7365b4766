---------------------------- MODULE PrivateBrowsing ----------------------------
(***************************************************************************)
(* Private windows of the Chromium browsers (focusd/src/rpc.rs, app.rs,     *)
(* chrome_policy.rs): which settings hold now, who may change them, and how *)
(* the repair loop and the requests of clients bring each browser's policy  *)
(* file in line.  Settings are computed under the core lock and written     *)
(* after it is released; a write goes through a temporary file whose name   *)
(* holds the process only, so that two tasks of the daemon share it.        *)
(*                                                                          *)
(* An uninstall handoff, which suspends the repairs, is UninstallHandoff's. *)
(***************************************************************************)
EXTENDS Naturals, Sequences, FiniteSets, FiniteSetsExt

CONSTANTS
    Loop,           \* the repair loop
    Clients,        \* tasks that serve one client's requests each
    Browsers,       \* the Chromium browsers, in SupportedBrowser::MANAGED order
    Deferred,       \* those repaired only after a first heartbeat
    Patterns,       \* per website list: the URL patterns a browser policy takes
    Allowlists,     \* the lists in allowlist mode; the others block
    Hard,           \* lists of the hard tier
    Scheduled,      \* lists attached to the schedule
    Detoxed,        \* lists a Detox session selects
    UrlLimit,       \* the patterns a browser applies, 1000 in the code
    Changes,        \* settings clients ask for: [key, value]
    MaxTurns,       \* bound: changes of the world around the settings
    MaxAsks,        \* bound: requests
    MaxTroubles     \* bound: crashes and failing writes

Lists == DOMAIN Patterns
Actors == Clients \cup {Loop}
ManagedBrowsers == {Browsers[i] : i \in DOMAIN Browsers}
PrivateModes == {"disabled", "manual_consent", "policy_url_blocking"}
DisableScopes == {"all_time", "active_schedule_or_detox"}
AccessModes == {"sunday", "no_active_schedule_or_detox", "all_time"}

ASSUME PrivateAssumption ==
    /\ Patterns \in [Lists -> Nat]
    /\ Allowlists \cup Hard \cup Scheduled \cup Detoxed \subseteq Lists
    /\ Loop \notin Clients /\ Browsers \in Seq(ManagedBrowsers) /\ Browsers # <<>>
    /\ Deferred \subseteq ManagedBrowsers
    /\ Changes \subseteq [key : {"mode"}, value : PrivateModes]
                    \cup [key : {"scope"}, value : DisableScopes]
    /\ {UrlLimit, MaxTurns, MaxAsks, MaxTroubles} \subseteq Nat

VARIABLES
    life,       \* "down", "starting" (serve, before the listener), "serving"
    setting,    \* service_state: mode, scope and access of the private windows
    enabled,    \* the lists switched on
    moment,     \* now: is the schedule active, is it the Sunday window
    session,    \* the Detox row: "none", "running", "over" (never cancelled)
    suspect,    \* the latched clock_guard status is "tampered"
    heard,      \* deferred browsers whose extension has sent a heartbeat
    asked,      \* per client: the request between its two locks
    during,     \* ghost, per client: the instants since its request
    pass,       \* per actor: settings to write, browsers left, step of the write
    holds,      \* per actor: which file its descriptor writes to
    temp, file, \* per browser: the temporary file and the policy file
    used        \* bounds: turns, requests, mishaps so far

privateVars == <<life, setting, enabled, moment, session, suspect, heard,
                 asked, during, pass, holds, temp, file, used>>
world == <<enabled, moment, session, suspect>>
files == <<holds, temp, file>>

NoPolicyFile == [kind |-> "missing"]
Torn == [kind |-> "torn"]
Policy(s) == [kind |-> "policy", mode |-> s.mode, urls |-> s.urls]

NoPass == [left |-> <<>>, step |-> "compare", mode |-> "disabled", urls |-> {}]
NoAsk == [kind |-> "none"]

-----------------------------------------------------------------------------
(* Settings of an instant n = [schedule, window, detox], under clock        *)
(* status t.                                                                *)

Instant == [schedule |-> moment.schedule, window |-> moment.window,
            detox |-> session = "running"]

Focus(n) == n.schedule \/ n.detox

OnSchedule(list, n, t) == list \in Scheduled /\ (t \/ n.schedule)

BlockedUrls(n, t) ==
    {l \in enabled \ Allowlists :
        l \in Hard \/ OnSchedule(l, n, t) \/ (l \in Detoxed /\ n.detox)}

EffectiveMode(set, n, t) ==
    IF set.mode = "disabled" /\ ~(t \/ set.scope = "all_time" \/ Focus(n))
    THEN "manual_consent" ELSE set.mode

PolicySettings(set, n, t) ==
    LET effective == EffectiveMode(set, n, t)
    IN  [mode |-> effective,
         urls |-> IF effective = "policy_url_blocking"
                  THEN BlockedUrls(n, t) ELSE {}]

\* What a request has sampled of the world.
Sample == [at |-> Instant, suspect |-> suspect]

CurrentSettings == PolicySettings(setting, Instant, suspect)

OverLimit(s) == MapThenSumSet(LAMBDA l : Patterns[l], s.urls) > UrlLimit

AllowlistActive(n, t) ==
    \E l \in enabled \cap Allowlists :
        \/ l \in Hard \/ OnSchedule(l, n, t)
        \/ l \in Detoxed /\ (IF t THEN session # "none" ELSE n.detox)

\* Slip: the clock is not asked.
ChangeAllowed_AnyClock(n, t) ==
    /\ ~AllowlistActive(n, FALSE)
    /\ CASE setting.access = "sunday" -> n.window
         [] setting.access = "no_active_schedule_or_detox" -> ~Focus(n)
         [] OTHER -> TRUE

ChangeAllowed(n, t) ==
    /\ ~t /\ ~AllowlistActive(n, t)
    /\ CASE setting.access = "sunday" -> n.window
         [] setting.access = "no_active_schedule_or_detox" -> ~Focus(n)
         [] OTHER -> TRUE

-----------------------------------------------------------------------------
(* Bringing the policy files in line: a pass writes its settings to each of *)
(* its browsers in turn.                                                    *)

Idle(a) == pass[a] = NoPass
Serving(c) == life = "serving" /\ asked[c] = NoAsk /\ Idle(c)
Current(a) == Head(pass[a].left)
PassWith(settings, browsers) ==
    [NoPass EXCEPT !.left = browsers, !.mode = settings.mode, !.urls = settings.urls]
NextBrowser(p) == IF Len(p.left) = 1 THEN NoPass ELSE [p EXCEPT !.left = Tail(@), !.step = "compare"]

\* The pass of a ends with an error; serve gives up with its first pass.
Abort(a) ==
    /\ pass' = [pass EXCEPT ![a] = NoPass]
    /\ life' = IF a = Loop /\ life = "starting" THEN "down" ELSE life

\* serve listens once its first pass is through.
Advance(a) ==
    /\ pass' = [pass EXCEPT ![a] = NextBrowser(@)]
    /\ life' = IF a = Loop /\ pass'[a] = NoPass /\ life = "starting"
               THEN "serving" ELSE life

\* The others who write through the temporary file of a's browser.
Sharing(a, where) ==
    {x \in Actors \ {a} : ~Idle(x) /\ Current(x) = Current(a) /\ holds[x] = where}

Moved(a, moves) ==
    [x \in Actors |->
        IF x = a THEN "none"
        ELSE IF ~Idle(x) /\ Current(x) = Current(a) /\ holds[x] \in DOMAIN moves
        THEN moves[holds[x]] ELSE holds[x]]

\* The loop computes the settings once for all its browsers, at each pass.
LoopBegins ==
    /\ life # "down" /\ Idle(Loop)
    /\ pass' = [pass EXCEPT ![Loop] = PassWith(CurrentSettings, Browsers)]
    /\ UNCHANGED <<life, setting, world, heard, asked, during, files, used>>

SkipDeferred(a) ==
    /\ ~Idle(a) /\ pass[a].step = "compare"
    /\ Current(a) \in Deferred \ heard
    /\ Advance(a)
    /\ UNCHANGED <<setting, world, heard, asked, during, files, used>>

\* Slip: only a missing file is written.
Compliant_IfThere(found, wanted) == found # NoPolicyFile

Compliant(found, wanted) == found = wanted

KeepFile(a) ==
    /\ ~Idle(a) /\ pass[a].step = "compare"
    /\ Current(a) \notin Deferred \ heard
    /\ ~OverLimit(pass[a]) /\ Compliant(file[Current(a)], Policy(pass[a]))
    /\ Advance(a)
    /\ UNCHANGED <<setting, world, heard, asked, during, files, used>>

\* Requests ask about the limit before their pass, the loop at each browser.
RefuseFile(a) ==
    /\ ~Idle(a) /\ pass[a].step = "compare"
    /\ Current(a) \notin Deferred \ heard /\ OverLimit(pass[a])
    /\ Abort(a)
    /\ UNCHANGED <<setting, world, heard, asked, during, files, used>>

\* A temporary file that is there is truncated and shared.
OpenTemporary(a) ==
    /\ ~Idle(a) /\ pass[a].step = "compare"
    /\ Current(a) \notin Deferred \ heard
    /\ ~OverLimit(pass[a]) /\ ~Compliant(file[Current(a)], Policy(pass[a]))
    /\ pass' = [pass EXCEPT ![a].step = "write"]
    /\ temp' = [temp EXCEPT ![Current(a)] = Torn]
    /\ holds' = [holds EXCEPT ![a] = "temp"]
    /\ UNCHANGED <<life, setting, world, heard, asked, during, file, used>>

Lands(a, content) ==
    /\ temp' = IF holds[a] = "temp" THEN [temp EXCEPT ![Current(a)] = content] ELSE temp
    /\ file' = IF holds[a] = "file" THEN [file EXCEPT ![Current(a)] = content] ELSE file

\* What two descriptors write into one file may mix.
WriteTemporary(a) ==
    /\ ~Idle(a) /\ pass[a].step = "write"
    /\ \/ Lands(a, Policy(pass[a]))
       \/ (holds[a] = "file" \/ Sharing(a, "temp") # {}) /\ Lands(a, Torn)
    /\ pass' = [pass EXCEPT ![a].step = "rename"]
    /\ UNCHANGED <<life, setting, world, heard, asked, during, holds, used>>

\* Whatever bears the temporary name becomes the policy file.
Replaced(a) == Moved(a, [temp |-> "file", file |-> "gone"])

RenameTemporary(a) ==
    /\ ~Idle(a) /\ pass[a].step = "rename" /\ temp[Current(a)] # NoPolicyFile
    /\ file' = [file EXCEPT ![Current(a)] = temp[Current(a)]]
    /\ temp' = [temp EXCEPT ![Current(a)] = NoPolicyFile]
    /\ holds' = Replaced(a)
    /\ Advance(a)
    /\ UNCHANGED <<setting, world, heard, asked, during, used>>

TemporaryFails(a) ==
    /\ ~Idle(a) /\ pass[a].step = "write" /\ used.mishaps < MaxTroubles
    /\ Lands(a, Torn)
    /\ holds' = [holds EXCEPT ![a] = "none"]
    /\ pass' = [pass EXCEPT ![a].step = "tidy"]
    /\ used' = [used EXCEPT !.mishaps = @ + 1]
    /\ UNCHANGED <<life, setting, world, heard, asked, during>>

\* Another's rename was first.
RenameFails(a) ==
    /\ ~Idle(a) /\ pass[a].step = "rename" /\ temp[Current(a)] = NoPolicyFile
    /\ holds' = [holds EXCEPT ![a] = "none"]
    /\ pass' = [pass EXCEPT ![a].step = "tidy"]
    /\ UNCHANGED <<life, setting, world, heard, asked, during, temp, file, used>>

\* A failed write removes the temporary name, whoever's file it is by then.
Tidy(a) ==
    /\ ~Idle(a) /\ pass[a].step = "tidy"
    /\ temp' = [temp EXCEPT ![Current(a)] = NoPolicyFile]
    /\ holds' = Moved(a, [temp |-> "gone"])
    /\ Abort(a)
    /\ UNCHANGED <<setting, world, heard, asked, during, file, used>>

-----------------------------------------------------------------------------
(* Requests.                                                                *)

MayAsk == used.asks < MaxAsks
Asks == used' = [used EXCEPT !.asks = @ + 1]

\* A change of mode or scope reads the clock, lets go of the lock, and then
\* checks and stores with what it read.
Ask(c, change) ==
    /\ Serving(c) /\ MayAsk /\ Asks
    /\ asked' = [asked EXCEPT ![c] =
                    [kind |-> change.key, value |-> change.value,
                     at |-> Instant, suspect |-> suspect]]
    /\ during' = [during EXCEPT ![c] = {Sample}]
    /\ UNCHANGED <<life, setting, world, heard, pass, files>>

Closed(c) ==
    /\ asked' = [asked EXCEPT ![c] = NoAsk]
    /\ during' = [during EXCEPT ![c] = {}]

ForChange(c) == asked[c].kind \in {"mode", "scope"}

\* The settings with the change a request asks for.
Stored(ask) ==
    IF ask.kind = "mode" THEN [setting EXCEPT !.mode = ask.value]
    ELSE [setting EXCEPT !.scope = ask.value]

RefuseChange(c) ==
    /\ ForChange(c)
    /\ \/ ~ChangeAllowed(asked[c].at, asked[c].suspect)
       \/ /\ asked[c].kind = "mode"
          /\ OverLimit(PolicySettings(Stored(asked[c]), asked[c].at, asked[c].suspect))
    /\ Closed(c)
    /\ UNCHANGED <<life, setting, world, heard, pass, files, used>>

\* A mode over the limit is refused; a scope is stored and then fails.
StoreChange(c) ==
    /\ ForChange(c) /\ ChangeAllowed(asked[c].at, asked[c].suspect)
    /\ LET stored == Stored(asked[c])
           settings == PolicySettings(stored, asked[c].at, asked[c].suspect)
       IN  /\ asked[c].kind = "mode" => ~OverLimit(settings)
           /\ setting' = stored
           /\ pass' = IF OverLimit(settings) THEN pass
                      ELSE [pass EXCEPT ![c] = PassWith(settings, Browsers)]
    /\ Closed(c)
    /\ UNCHANGED <<life, world, heard, files, used>>

\* The access mode has no guard and touches no file.
SetAccess(c, access) ==
    /\ Serving(c) /\ MayAsk /\ Asks
    /\ setting' = [setting EXCEPT !.access = access]
    /\ UNCHANGED <<life, world, heard, asked, during, pass, files>>

\* The session is stored under one lock, the settings are computed under the
\* next.
StartDetox(c) ==
    /\ Serving(c) /\ MayAsk /\ Asks /\ ~suspect /\ session # "running"
    /\ session' = "running"
    /\ asked' = [asked EXCEPT ![c] = [kind |-> "detox"]]
    /\ UNCHANGED <<life, setting, enabled, moment, suspect, heard, during, pass, files>>

RepairAfterDetox(c) ==
    /\ asked[c].kind = "detox"
    /\ pass' = IF OverLimit(CurrentSettings) THEN pass
               ELSE [pass EXCEPT ![c] = PassWith(CurrentSettings, Browsers)]
    /\ Closed(c)
    /\ UNCHANGED <<life, setting, world, heard, files, used>>

\* The first heartbeat of an extension ends the wait for its browser.
Heartbeat(c, b) ==
    /\ Serving(c) /\ MayAsk /\ Asks /\ b \in Deferred
    /\ heard' = heard \cup {b}
    /\ pass' = IF OverLimit(CurrentSettings) THEN pass
               ELSE [pass EXCEPT ![c] = PassWith(CurrentSettings, <<b>>)]
    /\ UNCHANGED <<life, setting, world, asked, during, files>>

-----------------------------------------------------------------------------
(* The world around.                                                        *)

Turn ==
    /\ used.turns < MaxTurns
    /\ used' = [used EXCEPT !.turns = @ + 1]
    /\ during' = [c \in Clients |-> IF ForChange(c) THEN during[c] \cup {Sample'} ELSE {}]
    /\ UNCHANGED <<life, setting, heard, asked, pass, files>>

MomentTurns ==
    /\ \/ moment' = [moment EXCEPT !.schedule = ~@]
       \/ moment' = [moment EXCEPT !.window = ~@]
    /\ UNCHANGED <<enabled, session, suspect>>
    /\ Turn

DetoxEnds ==
    /\ session = "running" /\ session' = "over"
    /\ UNCHANGED <<enabled, moment, suspect>>
    /\ Turn

ClockSuspected ==
    /\ ~suspect /\ suspect' = TRUE
    /\ UNCHANGED <<enabled, moment, session>>
    /\ Turn

\* An edit of the policy (PolicyGuard) repairs no Chromium policy itself.
PolicyEdited ==
    /\ \E l \in Lists :
        /\ l \in enabled => ~(l \in Detoxed /\ session = "running")
        /\ enabled' = (enabled \ {l}) \cup ({l} \ enabled)
    /\ UNCHANGED <<moment, session, suspect>>
    /\ Turn

\* Another user or program changes or removes a policy file.
FileDisturbed(b) ==
    /\ used.mishaps < MaxTroubles /\ used' = [used EXCEPT !.mishaps = @ + 1]
    /\ \E content \in {NoPolicyFile, Torn} : file' = [file EXCEPT ![b] = content]
    /\ holds' = [a \in Actors |->
                    IF ~Idle(a) /\ Current(a) = b /\ holds[a] = "file"
                    THEN "gone" ELSE holds[a]]
    /\ UNCHANGED <<life, setting, world, heard, asked, during, pass, temp>>

\* The next process has another temporary name.
DaemonDies ==
    /\ life # "down" /\ used.mishaps < MaxTroubles
    /\ used' = [used EXCEPT !.mishaps = @ + 1]
    /\ life' = "down"
    /\ asked' = [c \in Clients |-> NoAsk] /\ during' = [c \in Clients |-> {}]
    /\ pass' = [a \in Actors |-> NoPass] /\ holds' = [a \in Actors |-> "none"]
    /\ temp' = [b \in ManagedBrowsers |-> NoPolicyFile]
    /\ UNCHANGED <<setting, world, heard, file>>

Restart ==
    /\ life = "down" /\ life' = "starting"
    /\ UNCHANGED <<setting, world, heard, asked, during, pass, files, used>>

-----------------------------------------------------------------------------
\* An installation that has served for some time.
PrivateInit ==
    /\ life = "serving"
    /\ setting = [mode |-> "disabled", scope |-> "active_schedule_or_detox",
                  access |-> "no_active_schedule_or_detox"]
    /\ enabled = Lists /\ moment = [schedule |-> FALSE, window |-> FALSE]
    /\ session = "none" /\ suspect = FALSE /\ heard = {}
    /\ asked = [c \in Clients |-> NoAsk] /\ during = [c \in Clients |-> {}]
    /\ pass = [a \in Actors |-> NoPass] /\ holds = [a \in Actors |-> "none"]
    /\ temp = [b \in ManagedBrowsers |-> NoPolicyFile]
    /\ file = [b \in ManagedBrowsers |->
                IF b \in Deferred THEN NoPolicyFile ELSE Policy(CurrentSettings)]
    /\ used = [turns |-> 0, asks |-> 0, mishaps |-> 0]

LoopWrites ==
    \/ LoopBegins \/ SkipDeferred(Loop) \/ KeepFile(Loop) \/ RefuseFile(Loop)
    \/ OpenTemporary(Loop) \/ WriteTemporary(Loop)
    \/ RenameTemporary(Loop) \/ RenameFails(Loop) \/ Tidy(Loop)

ClientNext(c) ==
    \/ \E change \in Changes : Ask(c, change)
    \/ RefuseChange(c) \/ StoreChange(c) \/ StartDetox(c) \/ RepairAfterDetox(c)
    \/ \E access \in AccessModes : SetAccess(c, access)
    \/ \E b \in Deferred : Heartbeat(c, b)
    \/ SkipDeferred(c) \/ KeepFile(c) \/ OpenTemporary(c) \/ WriteTemporary(c)
    \/ RenameTemporary(c) \/ RenameFails(c) \/ Tidy(c)

WorldNext ==
    \/ MomentTurns \/ DetoxEnds \/ ClockSuspected \/ PolicyEdited
    \/ \E b \in ManagedBrowsers : FileDisturbed(b)
    \/ \E a \in Actors : TemporaryFails(a)
    \/ DaemonDies

PrivateNext == LoopWrites \/ (\E c \in Clients : ClientNext(c)) \/ WorldNext \/ Restart

\* The repair loop runs for ever and the service manager restarts the daemon.
PrivateFairness == WF_privateVars(LoopWrites) /\ WF_privateVars(Restart)

PrivateSpec == PrivateInit /\ [][PrivateNext]_privateVars /\ PrivateFairness

-----------------------------------------------------------------------------
WasOpen(m) == ~m.suspect /\ ~AllowlistActive(m.at, m.suspect)

Instants == [schedule : BOOLEAN, window : BOOLEAN, detox : BOOLEAN]
Samples == [at : Instants, suspect : BOOLEAN]
Asked == [kind : {"mode"}, value : PrivateModes, at : Instants, suspect : BOOLEAN]
         \cup [kind : {"scope"}, value : DisableScopes, at : Instants, suspect : BOOLEAN]
         \cup {NoAsk, [kind |-> "detox"]}
Passes == [left : Seq(ManagedBrowsers), step : {"compare", "write", "rename", "tidy"},
           mode : PrivateModes, urls : SUBSET Lists]
Contents == [kind : {"policy"}, mode : PrivateModes, urls : SUBSET Lists]
            \cup {NoPolicyFile, Torn}

\* Types.  A descriptor on the temporary name has a file there to write to,
\* and only a task in the middle of a write has a descriptor.
PrivateTypeOK ==
    /\ life \in {"down", "starting", "serving"}
    /\ setting \in [mode : PrivateModes, scope : DisableScopes, access : AccessModes]
    /\ enabled \subseteq Lists /\ moment \in [schedule : BOOLEAN, window : BOOLEAN]
    /\ session \in {"none", "running", "over"} /\ suspect \in BOOLEAN
    /\ heard \subseteq Deferred
    /\ asked \in [Clients -> Asked] /\ during \in [Clients -> SUBSET Samples]
    /\ pass \in [Actors -> Passes] /\ holds \in [Actors -> {"none", "temp", "file", "gone"}]
    /\ temp \in [ManagedBrowsers -> Contents] /\ file \in [ManagedBrowsers -> Contents]
    /\ used \in [turns : Nat, asks : Nat, mishaps : Nat]
    /\ \A a \in Actors :
        /\ holds[a] # "none" <=> pass[a].step \in {"write", "rename"}
        /\ holds[a] = "temp" => temp[Current(a)] # NoPolicyFile

\* The mode and the scope of private browsing change only in answer to a
\* request during which there was an instant at which the clock was trusted and
\* no website allowlist, as the policy is when the setting is stored, was active:
\* the check is of the instant the request came in, and comes later, with whatever
\* edits and turns in between (set_chromium_incognito_mode_method,
\* set_chromium_incognito_disable_scope_method).
ChangesWereOpen ==
    [][setting'.mode # setting.mode \/ setting'.scope # setting.scope
        => \E c \in Clients : \E m \in during[c] : WasOpen(m)]_privateVars

\* Whatever writes passes of other tasks, with older settings, mix into the
\* files or put in their place, and whatever fails, the policy of every
\* browser that is not waiting for its extension comes back to what the
\* settings, the lists and the clock ask for, unless that is more than a
\* browser applies (spawn_repair_loop, verify_and_repair_with).
PolicyCatchesUp ==
    []<>(\/ OverLimit(CurrentSettings)
         \/ \A b \in ManagedBrowsers \ (Deferred \ heard) : file[b] = Policy(CurrentSettings))

\* Testing/layers/04-destructive-and-soak.md:110, a daemon that is killed and
\* restarted "returns to current-session healthy state".  It does not hold while the
\* active lists have more patterns than a browser applies: serve repairs the policy
\* files before it listens, and leaves with the error at every start.
DaemonReturns == []<>(life = "serving")

=============================================================================
