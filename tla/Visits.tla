-------------------------------- MODULE Visits --------------------------------
(***************************************************************************)
(* How the time on a metered website is measured: the visits that the       *)
(* extension of a browser starts, confirms and ends                         *)
(* (browser-extension-chrome/src/background.ts) and the rows the daemon     *)
(* keeps of them (record_visit_* in rpc.rs, visits in db.rs), from which    *)
(* allowances are charged.                                                  *)
(*                                                                          *)
(* The extension's calls pass the native host in order; it acts on each     *)
(* answer with what it knows by then.  A tick of the clock is the interval  *)
(* of a heartbeat, much longer than a call.                                 *)
(***************************************************************************)
EXTENDS Integers, Sequences, FiniteSets, SequencesExt, FiniteSetsExt, Absent, Sums

CONSTANTS
    Tabs,       \* ids of tabs; a browser that is started again gives them again
    Metered,    \* pages of lists with an allowance
    Plain,      \* a page of no list
    Blocked,    \* the extension's own page
    Failed,     \* the answer to a call that timed out or lost its connection
    MaxClock,   \* bound: ticks
    MaxMoves,   \* bound: what the user does
    MaxFaults   \* bound: failing calls, and restarts of the extension and the browser

ASSUME VisitsAssumption ==
    /\ {None, Plain, Blocked, Failed} \cap Metered = {} /\ {None, Failed} \cap Nat = {}
    /\ None # Failed /\ None \notin [visit : Nat, page : Metered]
    /\ IsFiniteSet(Tabs) /\ {MaxClock, MaxMoves, MaxFaults} \subseteq Nat

VARIABLES
    clock,
    shows,      \* the page of each tab, None when it is closed
    front,      \* the active tab
    extension,  \* active: the visit of each tab and its page; pending: pendingVisitStarts;
                \* token: navigationTokens; calls: sent and not yet acted upon
    visits,     \* the daemon's rows; their ids are their places; ghost told: the last call on each
    budget,     \* [moves, faults]
    watched,    \* ghost: ticks for which a tab showed a metered page in front
    unknown     \* ghost: tabs with a visit the extension did not learn of, forgot, or asked
                \* for when the tab no longer showed its page

visitVars == <<clock, shows, front, extension, visits, budget, watched, unknown>>

Pages == Metered \cup {Plain}
Always(value) == [tab \in Tabs |-> value]

VisitsInit ==
    /\ clock = 0
    /\ shows = Always(Plain)
    /\ front \in Tabs
    /\ extension = [active |-> Always(None), pending |-> Always(None), token |-> Always(0),
                    calls |-> <<>>]
    /\ visits = <<>>
    /\ budget = [moves |-> MaxMoves, faults |-> MaxFaults]
    /\ watched = Always(0)
    /\ unknown = {}

Moves == budget.moves > 0 /\ budget' = [budget EXCEPT !.moves = @ - 1]
Fault == budget.faults > 0 /\ budget' = [budget EXCEPT !.faults = @ - 1]
-------------------------------------------------------------------------------
(* The extension's functions: each takes its state and returns the next     *)

\* nav: the token of a navigation, 0 in a revalidation; next: the page to start after an end.
Call(kind, tab, page, visit, nav) ==
    [kind |-> kind, tab |-> tab, page |-> page, nav |-> nav, visit |-> visit,
     next |-> None, answer |-> None]

Send(e, kind, tab, page, visit, nav) ==
    [e EXCEPT !.calls = Append(@, Call(kind, tab, page, visit, nav))]

Visited(e) == {tab \in Tabs : e.active[tab] # None}

\* endVisitForTab, of some tabs
EndVisits(e, tabs) ==
    LET ended == SetToSeq(tabs \cap Visited(e))
        Cleared(f) == [tab \in Tabs |-> IF tab \in tabs THEN None ELSE f[tab]]
    IN  [e EXCEPT !.pending = Cleared(@), !.active = Cleared(@),
                  !.calls = @ \o [n \in DOMAIN ended |->
                                    Call("end", ended[n], None, e.active[ended[n]].visit, 0)]]

EndVisit(e, tab) == EndVisits(e, {tab})

\* startVisitForTab
StartVisit(e, tab, page, nav) ==
    IF \/ e.active[tab] # None /\ e.active[tab].page = page
       \/ e.pending[tab] = page
    THEN e
    ELSE Send([e EXCEPT !.pending[tab] = page], "start", tab, page, None, nav)

InFlight(e, tab) ==
    \E n \in DOMAIN e.calls : /\ e.calls[n].kind = "evaluate" /\ e.calls[n].nav = 0
                              /\ e.calls[n].tab = tab

\* revalidateOpenTabs: the visits of other open tabs end, the active one is evaluated.
Revalidated(e, active) ==
    LET ended == EndVisits(e, {tab \in Tabs \ {active} : shows[tab] \in Pages})
    IN  IF active \notin Tabs \/ shows[active] \notin Pages \/ InFlight(e, active) THEN ended
        ELSE Send(ended, "evaluate", active, shows[active], None, 0)
-------------------------------------------------------------------------------
(* What the user does                                                       *)

\* handleNavigation; without a healthy backend the visit is forgotten and the page blocked.
Navigate(tab, page) ==
    /\ Moves /\ shows[tab] # None /\ shows[tab] # page
    /\ shows' = [shows EXCEPT ![tab] = page]
    /\ LET next == [extension EXCEPT !.token[tab] = @ + 1]
       IN  extension' = Send(EndVisit(next, tab), "evaluate", tab, page, None, next.token[tab])
    /\ UNCHANGED <<clock, front, visits, watched, unknown>>

NavigateUnhealthy(tab) ==
    /\ Fault /\ shows[tab] \in Pages
    /\ shows' = [shows EXCEPT ![tab] = Blocked]
    /\ extension' = [extension EXCEPT !.token[tab] = @ + 1, !.active[tab] = None]
    /\ unknown' = unknown \cup {tab}
    /\ UNCHANGED <<clock, front, visits, watched>>

\* tabs.onActivated
Activate(tab) ==
    /\ Moves /\ shows[tab] # None /\ front # tab
    /\ front' = tab
    /\ extension' = Revalidated(EndVisits(extension, Visited(extension) \ {tab}), tab)
    /\ UNCHANGED <<clock, shows, visits, watched, unknown>>

\* Slip: a closed tab's visit is left to the timers.
CloseTabSilently(tab) ==
    /\ Moves /\ shows[tab] # None
    /\ shows' = [shows EXCEPT ![tab] = None]
    /\ front' = IF front = tab THEN None ELSE front
    /\ extension' = [extension EXCEPT !.token[tab] = 0]
    /\ UNCHANGED <<clock, visits, watched, unknown>>

\* tabs.onRemoved
CloseTab(tab) ==
    /\ Moves /\ shows[tab] # None
    /\ shows' = [shows EXCEPT ![tab] = None]
    /\ front' = IF front = tab THEN None ELSE front
    /\ extension' = EndVisit([extension EXCEPT !.token[tab] = 0], tab)
    /\ UNCHANGED <<clock, visits, watched, unknown>>
-------------------------------------------------------------------------------
(* The extension's timers                                                   *)

Revalidate ==
    /\ extension.calls = <<>>
    /\ extension' = Revalidated(extension, front)
    /\ UNCHANGED <<clock, shows, front, visits, budget, watched, unknown>>

\* heartbeatActiveVisits
Heartbeat ==
    LET ended == EndVisits(extension, Visited(extension) \ {front})
    IN  /\ extension.calls = <<>>
        /\ extension' = IF front \in Tabs /\ extension.active[front] # None
                        THEN Send(ended, "beat", front, None, extension.active[front].visit, 0)
                        ELSE ended
        /\ UNCHANGED <<clock, shows, front, visits, budget, watched, unknown>>
-------------------------------------------------------------------------------
(* The daemon                                                               *)

Open(rows, tab) == {id \in DOMAIN rows : rows[id].tab = tab /\ rows[id].end = None}
Ended(rows, ids) ==
    [id \in DOMAIN rows |-> IF id \in ids /\ rows[id].end = None
                            THEN [rows[id] EXCEPT !.end = clock, !.seen = clock] ELSE rows[id]]

\* insert_visit_start closes the open visits of the tab, now.
WithStart(rows, tab, page) ==
    Append(Ended(rows, Open(rows, tab)),
           [tab |-> tab, page |-> page, start |-> clock, seen |-> clock, end |-> None,
            told |-> clock])

Told(rows, id) == [rows EXCEPT ![id].told = clock]

\* record_visit_start, record_visit_end and record_visit_heartbeat; the others change nothing
Served(rows, call) ==
    CASE call.kind = "start" -> WithStart(rows, call.tab, call.page)
      [] call.kind = "end" -> Told(Ended(rows, {call.visit}), call.visit)
      [] call.kind = "beat" ->
            Told([id \in DOMAIN rows |-> IF id = call.visit /\ rows[id].end = None
                                         THEN [rows[id] EXCEPT !.seen = clock] ELSE rows[id]],
                 call.visit)
      [] OTHER -> rows

Waiting == {n \in DOMAIN extension.calls : extension.calls[n].answer = None}
Answered(answer) == [extension EXCEPT !.calls[Min(Waiting)].answer = answer]

Handle ==
    /\ Waiting # {}
    /\ visits' = Served(visits, extension.calls[Min(Waiting)])
    /\ extension' = Answered(Len(visits'))
    /\ UNCHANGED <<clock, shows, front, budget, watched, unknown>>

\* A call times out or its connection ends, before the daemon got it or after.
Fail ==
    /\ Fault /\ Waiting # {}
    /\ visits' \in {visits, Served(visits, extension.calls[Min(Waiting)])}
    /\ extension' = Answered(Failed)
    /\ unknown' = IF visits' = visits THEN unknown \cup {extension.calls[Min(Waiting)].tab}
                  ELSE unknown \cup {visits'[id].tab : id \in DOMAIN visits'}
    /\ UNCHANGED <<clock, shows, front, watched>>
-------------------------------------------------------------------------------
(* What the extension does with an answer                                   *)

IsCurrent(e, call) == call.nav = 0 \/ e.token[call.tab] = call.nav

\* Slip: only a start that succeeded is no longer pending.
AfterStartStuck(e, call) ==
    IF e.pending[call.tab] # call.page \/ call.answer = Failed THEN e
    ELSE [e EXCEPT !.pending[call.tab] = None,
                   !.active[call.tab] = [visit |-> call.answer, page |-> call.page]]

\* startVisitForTab and startVisitForNavigation, after the answer
AfterStart(e, call) ==
    LET known == IF e.pending[call.tab] # call.page THEN e
                 ELSE [e EXCEPT !.pending[call.tab] = None,
                                !.active[call.tab] =
                                    IF call.answer = Failed THEN @
                                    ELSE [visit |-> call.answer, page |-> call.page]]
    IN  IF call.answer = Failed \/ IsCurrent(e, call) THEN known
        ELSE EndVisit(known, call.tab)

\* handleNavigation and revalidateTabOnce, after the answer
AfterEvaluate(e, call) ==
    LET tab == call.tab
        page == call.page
    IN  IF call.answer = Failed \/ ~IsCurrent(e, call) THEN e
        ELSE IF page \notin Metered \/ (call.nav # 0 /\ front # tab) THEN EndVisit(e, tab)
        ELSE IF call.nav # 0 \/ e.active[tab] = None THEN StartVisit(e, tab, page, call.nav)
        ELSE IF e.active[tab].page = page THEN e
        ELSE LET ended == EndVisit(e, tab)
             IN  [ended EXCEPT !.calls[Len(ended.calls)].next = page]

\* Whether a failed answer blocks the page: a navigation at once, an open tab after
\* several failures.
MayBlock(call) ==
    call.answer = Failed /\ IsCurrent(extension, call) /\ shows[call.tab] \in Pages
    /\ \/ call.kind = "evaluate"
       \/ call.kind = "start" /\ call.nav # 0
MustBlock(call) == MayBlock(call) /\ call.nav # 0

Receive ==
    /\ extension.calls # <<>> /\ Head(extension.calls).answer # None
    /\ LET call == Head(extension.calls)
           rest == [extension EXCEPT !.calls = Tail(@)]
           next == CASE call.kind = "evaluate" -> AfterEvaluate(rest, call)
                     [] call.kind = "start" -> AfterStart(rest, call)
                     [] call.kind = "end" /\ call.next # None ->
                            StartVisit(rest, call.tab, call.next, 0)
                     [] OTHER -> rest
           ignored == call.kind = "start" /\ call.answer # Failed
                      /\ extension.pending[call.tab] # call.page
           late == /\ Len(next.calls) >= Len(extension.calls) /\ Last(next.calls).kind = "start"
                   /\ front # call.tab \/ shows[call.tab] # Last(next.calls).page
       IN  /\ \/ /\ ~MustBlock(call)
                 /\ extension' = next /\ UNCHANGED shows
              \/ /\ MayBlock(call)
                 /\ shows' = [shows EXCEPT ![call.tab] = Blocked]
                 /\ extension' = IF call.nav = 0 THEN [next EXCEPT !.active[call.tab] = None]
                                 ELSE next
           /\ unknown' = IF ignored \/ late THEN unknown \cup {call.tab} ELSE unknown
    /\ UNCHANGED <<clock, front, visits, budget, watched>>

\* The worker of the extension is stopped and started again; with the browser, its tabs
\* are gone and their ids free.
Restart(browser) ==
    /\ Fault
    /\ extension' = [active |-> Always(None), pending |-> Always(None), token |-> Always(0),
                     calls |-> <<>>]
    /\ shows' = IF browser THEN Always(Plain) ELSE shows
    /\ unknown' = Tabs
    /\ UNCHANGED <<clock, front, visits, watched>>

VisitTick ==
    /\ clock < MaxClock /\ extension.calls = <<>>
    /\ clock' = clock + 1
    /\ watched' = [tab \in Tabs |-> IF tab = front /\ shows[tab] \in Metered
                                    THEN watched[tab] + 1 ELSE watched[tab]]
    /\ UNCHANGED <<shows, front, extension, visits, budget, unknown>>
-------------------------------------------------------------------------------
VisitsNext ==
    \/ \E tab \in Tabs : \/ \E page \in Pages : Navigate(tab, page)
                         \/ NavigateUnhealthy(tab) \/ Activate(tab) \/ CloseTab(tab)
    \/ Revalidate \/ Heartbeat \/ Handle \/ Fail \/ Receive \/ VisitTick
    \/ \E browser \in BOOLEAN : Restart(browser)

\* The timers of the extension and the daemon keep running.
VisitsSpec ==
    /\ VisitsInit /\ [][VisitsNext]_visitVars
    /\ WF_visitVars(Handle) /\ WF_visitVars(Receive) /\ WF_visitVars(Revalidate)
-------------------------------------------------------------------------------
(* Properties                                                               *)

\* visit_usage_between
Charge(visit) == (IF visit.end = None THEN visit.seen ELSE visit.end) - visit.start
VisitsOf(tab) == {id \in DOMAIN visits : visits[id].tab = tab}
Charged(tab) ==
    Total([id \in DOMAIN visits |-> IF visits[id].tab = tab THEN Charge(visits[id]) ELSE 0])

\* Type invariant.  The extension's visits have rows, of their tab and page.
VisitsTypeOK ==
    /\ clock \in 0..MaxClock
    /\ \A tab \in Tabs :
          /\ shows[tab] \in Pages \cup {Blocked, None} /\ watched[tab] \in 0..clock
          /\ extension.active[tab] # None =>
                /\ extension.active[tab].visit \in VisitsOf(tab)
                /\ visits[extension.active[tab].visit].page = extension.active[tab].page
          /\ extension.pending[tab] \in Metered \cup {None}
    /\ front \in Tabs \cup {None} /\ unknown \subseteq Tabs
    /\ budget.moves \in 0..MaxMoves /\ budget.faults \in 0..MaxFaults

\* A moment of a tab is charged at most once, whatever calls are lost and whatever is
\* started again: its rows follow each other, and only the last of them may be open.
TabChargedOnce ==
    \A tab \in Tabs : \A id \in VisitsOf(tab), later \in VisitsOf(tab) :
        id < later => visits[id].end # None /\ visits[id].end <= visits[later].start

\* A tab whose visits the extension has always known is charged no more than the user had
\* a metered page of it in front: neither for time in the background, nor after it was
\* closed, nor for a page without an allowance.
KnownChargeWasWatched == \A tab \in Tabs \ unknown : Charged(tab) <= watched[tab]

\* Types, and a tab's time is charged once, and only when its page was in front.
VisitsInvariant == VisitsTypeOK /\ TabChargedOnce /\ KnownChargeWasWatched

\* A metered page that stays in front gets its visit, whatever calls failed before: a
\* start that is still marked as pending must not keep it from being asked for again.
WatchedIsMetered ==
    \A tab \in Tabs :
        <>[](front = tab /\ shows[tab] \in Metered) => <>[](extension.active[tab] # None)

\* What the test plan asks of visits (PR-POL-008): only confirmed time is charged, up to the
\* last call on the visit.  It does not hold, even without a failing call: a start whose
\* answer is ignored because its tab was left leaves a row nobody ends, and the next start
\* of the tab charges it up to then.
OnlyConfirmedIsCharged ==
    budget.faults = MaxFaults =>
        \A id \in DOMAIN visits : Charge(visits[id]) <= visits[id].told - visits[id].start
===============================================================================
