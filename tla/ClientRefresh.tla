--------------------------- MODULE ClientRefresh ----------------------------
(***************************************************************************)
(* How the timeline of a browser tab follows the server: refreshAll and the   *)
(* fetchers of static/api.js, the event stream of static/sse.js, the timers   *)
(* and the visibility handler of init() in static/app.js, navigation and the   *)
(* animation frame that draws in static/timeline.js.                          *)
(*                                                                           *)
(* A collection is a version number, which the server only increases; 0 is    *)
(* the empty list a fetcher stores when the answer was not OK.  The events     *)
(* are fetched for the days on view, so the tab also knows which days its      *)
(* events are of.  A fetch is a step of the server and a step of the tab;      *)
(* fetches overtake each other.  Two fetches alike in all count as one.       *)
(*                                                                           *)
(* An announcement on the event stream carries no data: whether it comes late, *)
(* comes for nothing, is dropped by a full channel or is missed while the      *)
(* stream is down, all it can do is start a fetch, so it may come at any time  *)
(* or never.                                                                 *)
(*                                                                           *)
(* Left out: a tab in offline mode (OfflineQueue), where apiGet throws, which  *)
(* is a failing fetch here, and the list view.                               *)
(***************************************************************************)
EXTENDS Naturals, FiniteSets

CONSTANTS Collections,  \* what refreshAll fetches, "events" among them
          Views,        \* the ranges of days a user may look at
          MaxVersion,   \* bound: versions of a collection
          MaxChanged,   \* bound: collections that change
          MaxFaults     \* bound: failing requests and 5xx answers

ASSUME RefreshAssumption ==
    /\ "events" \in Collections /\ IsFiniteSet(Collections)
    /\ Views # {} /\ "none" \notin Views /\ MaxVersion \in Nat \ {0}
    /\ {MaxChanged, MaxFaults} \subseteq Nat

\* No days.
NoView == "none"

VARIABLES server,     \* the current version of each collection
          view,       \* state.startDate and the range
          inFlight,   \* _refreshInFlight is set
          queued,     \* _refreshQueued
          fetches,    \* fetches that have not come back
          data,       \* state.events, state.layers, ...
          span,       \* the days the events held are of
          frame,      \* the days the frame that is ordered will draw, or NoView
          drawn,      \* the last frame drew what the tab holds, for its view
          faults,     \* number of faults so far
          wanted,     \* history: the versions when refreshAll was last called
          spoiled     \* history: what came in since the last refresh began may
                      \* be missing, empty or old

refresh == <<inFlight, queued>>
held == <<data, span>>
screen == <<frame, drawn>>
history == <<wanted, spoiled>>
vars == <<server, view, refresh, fetches, held, screen, faults, history>>

\* A fetch belongs to the running refresh, to a handler of the stream that wants
\* just this collection, or to a refresh that has failed meanwhile.
Pending == MaxVersion + 1
Fetch == [of : Collections, by : {"refresh", "handler", "orphan"},
          version : 0..Pending, view : Views \cup {NoView}]

Asked(c, by, v) == [of |-> c, by |-> by, version |-> Pending,
                    view |-> IF c = "events" THEN v ELSE NoView]
Batch(v) == {Asked(c, "refresh", v) : c \in Collections}
PartOf(by, fs) == {f \in fs : f.by = by}

Init == \E v \in Views :
    /\ server = [c \in Collections |-> 1]
    /\ view = v
    /\ inFlight = TRUE /\ queued = FALSE /\ fetches = Batch(v)
    /\ data = [c \in Collections |-> 0] /\ span = v
    /\ frame = NoView /\ drawn = FALSE
    /\ faults = 0
    /\ wanted = server /\ spoiled = FALSE

(***************************************************************************)
(* refreshAll.                                                               *)
(***************************************************************************)
\* The seven fetches start, beside those in `others`.
Starts(v, others) ==
    /\ inFlight' = TRUE /\ queued' = FALSE
    /\ fetches' = others \cup Batch(v)
    /\ spoiled' = (others # {})

\* Mutant: a call while a refresh is running is dropped.
RefreshAllDrops(v) ==
    /\ wanted' = server
    /\ IF inFlight THEN UNCHANGED <<inFlight, queued, fetches, spoiled>>
       ELSE Starts(v, fetches)

\* One refresh at a time: a call while one is running orders one more.
RefreshAll(v) ==
    /\ wanted' = server
    /\ IF inFlight THEN queued' = TRUE /\ UNCHANGED <<inFlight, fetches, spoiled>>
       ELSE Starts(v, fetches)

\* The finally block: go on with the refresh that was ordered, if any.
Ends(others, bad) ==
    IF queued THEN Starts(view, others) /\ wanted' = server
    ELSE /\ inFlight' = FALSE /\ fetches' = others /\ spoiled' = bad
         /\ UNCHANGED <<queued, wanted>>

\* renderTimeline and patchTimeline: draw at the next frame, for these days.
Draws == frame' = view

(***************************************************************************)
(* Fetches.                                                                  *)
(***************************************************************************)
\* A 5xx answer to a fetcher makes the collection empty.
Answered(f) ==
    /\ f \in fetches /\ f.version = Pending
    /\ \/ /\ fetches' = (fetches \ {f}) \cup {[f EXCEPT !.version = server[f.of]]}
          /\ UNCHANGED faults
       \/ /\ faults < MaxFaults /\ faults' = faults + 1
          /\ fetches' = (fetches \ {f}) \cup {[f EXCEPT !.version = 0]}
    /\ UNCHANGED <<server, view, refresh, held, screen, history>>

\* The answer is stored; the layer_change handler ignores an empty one.
Stores(f) ==
    /\ data' = IF f.by = "handler" /\ f.of = "layers" /\ f.version = 0 THEN data
               ELSE [data EXCEPT ![f.of] = f.version]
    /\ span' = IF f.of = "events" THEN f.view ELSE span
    /\ drawn' = (drawn /\ data' = data /\ span' = span)

\* It is empty, or older than what it replaces, or of other days.
Spoils(f) == f.version < data[f.of] \/ f.version = 0 \/ f.view \notin {view, NoView}

\* Mutant: the screen is not drawn again.
ArrivesForRefreshQuietly(f) ==
    /\ f \in PartOf("refresh", fetches) /\ f.version # Pending
    /\ Stores(f)
    /\ IF PartOf("refresh", fetches) = {f}
       THEN Ends(fetches \ {f}, spoiled \/ Spoils(f))
       ELSE /\ fetches' = fetches \ {f} /\ spoiled' = (spoiled \/ Spoils(f))
            /\ UNCHANGED <<refresh, wanted>>
    /\ UNCHANGED <<server, view, frame, faults>>

\* Promise.all: after the last one the timeline is drawn.
ArrivesForRefresh(f) ==
    /\ f \in PartOf("refresh", fetches) /\ f.version # Pending
    /\ Stores(f)
    /\ IF PartOf("refresh", fetches) = {f}
       THEN Ends(fetches \ {f}, spoiled \/ Spoils(f)) /\ Draws
       ELSE /\ fetches' = fetches \ {f} /\ spoiled' = (spoiled \/ Spoils(f))
            /\ UNCHANGED <<refresh, frame, wanted>>
    /\ UNCHANGED <<server, view, faults>>

\* A handler draws, what a failed refresh left behind just changes the data.
ArrivesAlone(f) ==
    /\ f \in fetches \ PartOf("refresh", fetches) /\ f.version # Pending
    /\ Stores(f)
    /\ fetches' = fetches \ {f}
    /\ spoiled' = (spoiled \/ Spoils(f))
    /\ IF f.by = "handler" THEN Draws ELSE UNCHANGED frame
    /\ UNCHANGED <<server, view, refresh, wanted, faults>>

\* No answer: Promise.all rejects at once, the other fetches go on.
Fails(f) ==
    /\ f \in fetches /\ faults < MaxFaults /\ faults' = faults + 1
    /\ IF f.by = "refresh"
       THEN Ends({[g EXCEPT !.by = IF @ = "refresh" THEN "orphan" ELSE @] : g \in fetches \ {f}}, TRUE)
       ELSE fetches' = fetches \ {f} /\ spoiled' = TRUE /\ UNCHANGED <<refresh, wanted>>
    /\ UNCHANGED <<server, view, held, screen>>

(***************************************************************************)
(* What makes the tab refresh.                                               *)
(***************************************************************************)
Change(c) ==
    /\ server[c] < MaxVersion
    /\ Cardinality({d \in Collections : server[d] > 1} \cup {c}) <= MaxChanged
    /\ server' = [server EXCEPT ![c] = @ + 1]
    /\ UNCHANGED <<view, refresh, fetches, held, screen, faults, history>>

\* layer_change, day_labels_change: the handler fetches just this collection.
\* Bound: once at a time.
Announced(c) ==
    /\ c # "events" /\ \A f \in PartOf("handler", fetches) : f.of # c
    /\ fetches' = fetches \cup {Asked(c, "handler", view)}
    /\ UNCHANGED <<server, view, refresh, held, screen, faults, history>>

\* The interval of a minute while the tab is visible and the handler that makes
\* it visible again, event_change after the debouncing timer, or the end of
\* something the user saved.
Refresh ==
    /\ RefreshAll(view)
    /\ UNCHANGED <<server, view, held, screen, faults>>

\* navigate, navJump, goToday, goToDate, centerDay and the range selector.
Navigate(v) ==
    /\ v # view /\ view' = v /\ drawn' = FALSE
    /\ RefreshAll(v)
    /\ UNCHANGED <<server, held, frame, faults>>

\* All callbacks ordered since the last frame run now and read the data of now;
\* the last one decides which days are drawn.
Frame ==
    /\ frame # NoView /\ frame' = NoView /\ drawn' = (frame = view)
    /\ UNCHANGED <<server, view, refresh, fetches, held, faults, history>>

FetchStep(c, by) == \E f \in {g \in PartOf(by, fetches) : g.of = c} :
                       Answered(f) \/ ArrivesForRefresh(f) \/ ArrivesAlone(f)

By == {"refresh", "handler", "orphan"}

Next == \/ \E c \in Collections, by \in By : FetchStep(c, by)
        \/ \E c \in Collections : Change(c) \/ Announced(c)
        \/ \E f \in fetches : Fails(f)
        \/ Refresh \/ (\E v \in Views : Navigate(v))
        \/ Frame

\* Timers fire while the tab is, and what a running refresh fetches comes back.  Other
\* fetches may hang.
Fairness == /\ WF_vars(Refresh) /\ WF_vars(Frame)
            /\ \A c \in Collections : WF_vars(FetchStep(c, "refresh"))

Spec == Init /\ [][Next]_vars /\ Fairness

(***************************************************************************)
(* Properties.                                                               *)
(***************************************************************************)
\* A refresh is in flight exactly while fetches of it are, and only then another one
\* can be queued; the rest are types.
TypeOK ==
    /\ server \in [Collections -> 1..MaxVersion] /\ wanted \in [Collections -> 1..MaxVersion]
    /\ {inFlight, queued, drawn, spoiled} \subseteq BOOLEAN
    /\ fetches \subseteq Fetch
    /\ data \in [Collections -> 0..MaxVersion] /\ {view, span} \subseteq Views
    /\ frame \in Views \cup {NoView}
    /\ faults \in 0..MaxFaults
    /\ queued => inFlight
    /\ inFlight = (PartOf("refresh", fetches) # {})

\* Every call of refreshAll is honoured, though at most one refresh runs and
\* calls meanwhile are merged: when none is running, and nothing failed or came
\* late, the tab holds what the server had when the last call was made, for the
\* days on view (refreshAll, _refreshQueued).  Its variables keep their types.
RequestsHonoured ==
    /\ TypeOK
    /\ ~inFlight /\ ~spoiled =>
          /\ \A c \in Collections : data[c] >= wanted[c]
          /\ span = view

\* A user who keeps looking at the same days ends up seeing what the server has,
\* whatever announcements were lost, however answers overtook each other and
\* whichever refreshes failed: the interval goes on (refreshAll, init).
EventuallyShown ==
    <>[][UNCHANGED view]_view => <>[](drawn /\ data = server /\ span = view)
=============================================================================
