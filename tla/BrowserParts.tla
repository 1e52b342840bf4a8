--------------------------- MODULE BrowserParts ----------------------------
(***************************************************************************)
(* Parts of the browser's pages that share nothing, each on its own instance:  *)
(* a behaviour is one of the part it begins with, and the variables of the     *)
(* others stay put.                                                          *)
(***************************************************************************)
EXTENDS Naturals, FiniteSets

CONSTANTS
    Events, Shapes, Texts, Tints, Windows, Days, DayLength, MaxSteps, MaxFrames, MaxEdits,
    Actions, Slots, MaxRetries, MaxPings, MaxLoads,
    People, Nobody, MaxActs

VARIABLES
    script,   \* the part a behaviour is one of
    events, tint, window, grid, blocks, frames, edits, due, faded,
    tab, pings, net, plugged, executed, posted, late, doubtful, loads,
    lock, pending, requests, news, known, open, saved, acts, disturbed, unruly

T == INSTANCE Timeline
O == INSTANCE OfflineQueue
E == INSTANCE EditingLocks WITH Users <- People

ASSUME BrowserAssumption == /\ T!TimelineAssumption
                           /\ O!OfflineAssumption
                           /\ E!EditingLocksAssumption

timelineVars == <<events, tint, window, grid, blocks, frames, edits, due, faded>>
offlineVars == <<tab, pings, net, plugged, executed, posted, late, doubtful, loads>>
editingVars == <<lock, pending, requests, news, known, open, saved, acts,
                 disturbed, unruly>>
browserVars == <<script, timelineVars, offlineVars, editingVars>>

\* The variables of a part that is not the one looked at.
TimelineIdle == /\ events = 0 /\ tint = 0 /\ window = 0 /\ grid = 0 /\ blocks = 0
                /\ frames = 0 /\ edits = 0 /\ due = 0 /\ faded = 0
OfflineIdle == /\ tab = 0 /\ pings = 0 /\ net = 0 /\ plugged = 0 /\ executed = 0
               /\ posted = 0 /\ late = 0 /\ doubtful = 0 /\ loads = 0
EditingIdle == /\ lock = 0 /\ pending = 0 /\ requests = 0 /\ news = 0 /\ known = 0
               /\ open = 0 /\ saved = 0 /\ acts = 0 /\ disturbed = 0
               /\ unruly = 0

BrowserInit ==
    /\ script \in {"timeline", "offline", "editing"}
    /\ IF script = "timeline" THEN T!Init ELSE TimelineIdle
    /\ IF script = "offline" THEN O!Init ELSE OfflineIdle
    /\ IF script = "editing" THEN E!Init ELSE EditingIdle

BrowserNext ==
    /\ \/ script = "timeline" /\ T!Next /\ UNCHANGED <<offlineVars, editingVars>>
       \/ script = "offline" /\ O!Next /\ UNCHANGED <<timelineVars, editingVars>>
       \/ script = "editing" /\ E!Next /\ UNCHANGED <<timelineVars, offlineVars>>
    /\ UNCHANGED script

BrowserSpec == BrowserInit /\ [][BrowserNext]_browserVars

(***************************************************************************)
(* The properties of the parts, which their modules explain.                  *)
(***************************************************************************)
\* The variables of each part have their types: tracked blocks, queues and
\* replays, holders.
BrowserTypeOK == /\ script = "timeline" => T!TypeOK
                 /\ script = "offline" => O!TypeOK
                 /\ script = "editing" => E!TypeOK

\* Timeline: what is drawn is what the data says when nothing is left to be drawn.
TimelineShowsTheData == script = "timeline" => T!ShowsTheData

\* Timeline: items that overlap never share a column, and no column is opened
\* without need.
TimelineColumnsFit == script = "timeline" => T!NoSharedColumn /\ T!ColumnsAreNeeded

\* OfflineQueue: only what was queued during a replay is lost.
OfflineLostOnlyIfLate == script = "offline" => O!LostOnlyIfLate

\* OfflineQueue: only what got no answer, or was replayed twice at a time, is
\* executed twice.
OfflineTwiceOnlyIfDoubtful == script = "offline" => O!TwiceOnlyIfDoubtful

\* EditingLocks: once everything is heard, undisturbed pages know who holds the
\* lock, and whoever holds it has the form open.
EditingSettles == script = "editing" => E!PagesKnowTheHolder /\ E!HolderIsEditing
=============================================================================
