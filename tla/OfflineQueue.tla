---------------------------- MODULE OfflineQueue ----------------------------
(***************************************************************************)
(* How a browser tab notices that the server is out of reach, keeps the       *)
(* POST requests made meanwhile, and replays them when it is back:            *)
(* static/offline.js and api() of static/api.js.                              *)
(*                                                                           *)
(* The tab is one record.  A function of the script that runs without an      *)
(* await is an operator from tabs to tabs, and an action is what the script   *)
(* does between two awaits.  A network request is a step that sends it and    *)
(* one that receives the answer or the error.                                 *)
(*                                                                           *)
(* Left out: several tabs of one browser (they share the stored queue), a     *)
(* full localStorage, the notifications and the banner.  An answer 401 sends   *)
(* the tab to the login page and back, which is Reload.  PUT and DELETE are   *)
(* never queued: only apiPost is wrapped.                                     *)
(***************************************************************************)
EXTENDS Naturals, Sequences, SequencesExt, FiniteSets

CONSTANTS Actions,     \* POST requests users make while offline
          Slots,       \* bound: replays of the queue that run at the same time
          MaxRetries,  \* attempts of a replay at one action (3 in the code)
          MaxPings,    \* bound: heartbeats on their way at the same time
          MaxLoads     \* bound: reloads of the page

OfflineAssumption == /\ IsFiniteSet(Actions)
                     /\ Slots \in Nat \ {0} /\ MaxRetries \in Nat \ {0}
                     /\ MaxPings \in Nat \ {0} /\ MaxLoads \in Nat

VARIABLES tab,       \* the script's variables
          pings,     \* heartbeats on their way
          net,       \* what becomes of a request: "up", "sick" (an answer
                     \* 5xx) or "down" (no answer)
          plugged,   \* navigator.onLine
          executed,  \* how often the server executed each action (or refused it
                     \* with 4xx, which is as final), counted up to 2
          posted,    \* history: actions ever queued
          late,      \* history: actions queued while a replay was running
          doubtful,  \* history: actions whose answer the tab never saw, or
                     \* that two replays had in hand
          loads      \* history: reloads

world == <<net, plugged>>
history == <<posted, late, doubtful, loads>>
vars == <<tab, pings, world, executed, history>>

HEARTBEAT_FAILURE_THRESHOLD == 2

\* A run of _syncOfflineQueue between two awaits: the actions left, those that
\* failed, the attempt at the first one left, and what it awaits.
Resting == [todo |-> <<>>, failed |-> <<>>, attempt |-> 1, pc |-> "idle"]

Running(c) == {s \in 1..Slots : c.syncs[s].pc # "idle"}

Init == /\ tab = [page |-> "app", offline |-> FALSE, forced |-> FALSE, failures |-> 0,
                  queue |-> <<>>, syncs |-> [s \in 1..Slots |-> Resting]]
        /\ pings = 0
        /\ net = "up" /\ plugged = TRUE
        /\ executed = [a \in Actions |-> 0]
        /\ posted = {} /\ late = {} /\ doubtful = {} /\ loads = 0

(***************************************************************************)
(* The functions of offline.js, on a tab c.                                  *)
(***************************************************************************)
\* _syncOfflineQueue up to its first request: it works on a copy of the queue.
StartSync(c) ==
    IF c.queue = <<>> THEN c
    ELSE LET s == CHOOSE s \in 1..Slots : s \notin Running(c)
         IN  [c EXCEPT !.syncs[s] = [Resting EXCEPT !.todo = c.queue, !.pc = "call"]]

\* Mutant: becoming online does not start a replay.
MarkOnlineQuietly(c) ==
    IF c.offline THEN [c EXCEPT !.offline = FALSE, !.failures = 0] ELSE c

MarkOnline(c) ==
    IF c.offline THEN StartSync([c EXCEPT !.offline = FALSE, !.failures = 0]) ELSE c

MarkOffline(c) == [c EXCEPT !.offline = TRUE]

\* Mutant: the failures are forgotten and nothing else happens.
ReportSuccessCounts(c) == [c EXCEPT !.failures = 0]

\* _reportNetworkSuccess, and the same lines of _heartbeatCheck.
ReportSuccess(c) ==
    IF c.forced THEN [c EXCEPT !.failures = 0] ELSE MarkOnline([c EXCEPT !.failures = 0])

\* The count is only compared with the threshold, so it may stop there.
CountFailure(c) ==
    IF c.failures = HEARTBEAT_FAILURE_THRESHOLD THEN c ELSE [c EXCEPT !.failures = @ + 1]

\* _reportNetworkFailure; the heartbeat it orders is one of Heartbeat's.
ReportFailure(c) == IF c.forced THEN c ELSE CountFailure(c)

\* The end of _heartbeatCheck when no good answer came.
HeartbeatFailure(c) ==
    LET d == CountFailure(c)
    IN  IF d.failures = HEARTBEAT_FAILURE_THRESHOLD THEN MarkOffline(d) ELSE d

\* Mutant: an action that failed is not kept.
NextActionForgets(c, s, failed) ==
    LET left == Tail(c.syncs[s].todo)
    IN  IF left = <<>> THEN [c EXCEPT !.queue = c.syncs[s].failed, !.syncs[s] = Resting]
        ELSE [c EXCEPT !.syncs[s] = [@ EXCEPT !.todo = left, !.attempt = 1, !.pc = "call"]]

\* Mutant: the queue is not replaced at the end.
NextActionKeepsQueue(c, s, failed) ==
    LET left == Tail(c.syncs[s].todo)
    IN  IF left = <<>> THEN [c EXCEPT !.syncs[s] = Resting]
        ELSE [c EXCEPT !.syncs[s] = [@ EXCEPT !.todo = left, !.attempt = 1, !.pc = "call"]]

\* The loop of _syncOfflineQueue goes on to the next action; after the last one
\* the queue becomes what failed, whatever was queued meanwhile.
NextAction(c, s, failed) ==
    LET left == Tail(c.syncs[s].todo)
        missed == c.syncs[s].failed \o failed
    IN  IF left = <<>> THEN [c EXCEPT !.queue = missed, !.syncs[s] = Resting]
        ELSE [c EXCEPT !.syncs[s] = [todo |-> left, failed |-> missed,
                                     attempt |-> 1, pc |-> "call"]]

\* An attempt failed: pause and try again, or give the action up for now.
Retry(c, s) ==
    IF c.syncs[s].attempt < MaxRetries THEN [c EXCEPT !.syncs[s].pc = "pause"]
    ELSE NextAction(c, s, <<Head(c.syncs[s].todo)>>)

(***************************************************************************)
(* The actions.  What two replays have in hand at once is doubtful.          *)
(***************************************************************************)
Open == tab.page = "app"

\* The tab becomes c.  Bound: it does not go offline while every slot is taken.
Becomes(c) ==
    /\ c.offline => Running(c) # 1..Slots
    /\ tab' = c
    /\ doubtful' = IF Running(tab) # {} /\ Running(c) \ Running(tab) # {}
                   THEN doubtful \cup ToSet(tab.queue) ELSE doubtful

Unobserved == UNCHANGED <<posted, late, loads>>

\* setInterval, or 100 ms after a failed request.
Heartbeat ==
    /\ Open /\ ~tab.forced /\ pings < MaxPings
    /\ pings' = pings + 1
    /\ UNCHANGED <<tab, world, executed, history>>

HeartbeatAnswered ==
    /\ Open /\ pings > 0 /\ net = "up"
    /\ pings' = pings - 1
    /\ Becomes(ReportSuccess(tab))
    /\ Unobserved /\ UNCHANGED <<world, executed>>

\* A 5xx, an error, or eight seconds without an answer.
HeartbeatFailed ==
    /\ Open /\ pings > 0 /\ net # "up"
    /\ pings' = pings - 1
    /\ Becomes(HeartbeatFailure(tab))
    /\ Unobserved /\ UNCHANGED <<world, executed>>

\* api(): everything but the POST and the GET of a tab that is offline may be
\* sent at any time, so only the moment of the answer counts.
RequestAnswered ==
    /\ Open /\ net # "down"
    /\ Becomes(ReportSuccess(tab))
    /\ Unobserved /\ UNCHANGED <<pings, world, executed>>

RequestFailed ==
    /\ Open /\ net = "down"
    /\ Becomes(ReportFailure(tab))
    /\ Unobserved /\ UNCHANGED <<pings, world, executed>>

\* apiPost of a tab that is offline: _queueOfflineAction.
Post(a) ==
    /\ Open /\ tab.offline /\ a \notin posted
    /\ Becomes([tab EXCEPT !.queue = Append(@, a)])
    /\ posted' = posted \cup {a}
    /\ late' = IF Running(tab) = {} THEN late ELSE late \cup {a}
    /\ UNCHANGED <<pings, world, executed, loads>>

\* The server executes the action; its answer is on the way.
SyncReaches(s) ==
    /\ Open /\ tab.syncs[s].pc = "call" /\ net = "up"
    /\ executed' = [executed EXCEPT ![Head(tab.syncs[s].todo)] = IF @ = 2 THEN 2 ELSE @ + 1]
    /\ Becomes([tab EXCEPT !.syncs[s].pc = "reply"])
    /\ Unobserved /\ UNCHANGED <<pings, world>>

\* 2xx, 409 and 4xx: done with this action.
SyncAnswered(s) ==
    /\ Open /\ tab.syncs[s].pc = "reply" /\ net # "down"
    /\ Becomes(NextAction(ReportSuccess(tab), s, <<>>))
    /\ Unobserved /\ UNCHANGED <<pings, world, executed>>

\* A 5xx is an answer too: the tab counts as online, the attempt as failed.
SyncAnsweredBadly(s) ==
    /\ Open /\ tab.syncs[s].pc = "call" /\ net = "sick"
    /\ Becomes(Retry(ReportSuccess(tab), s))
    /\ Unobserved /\ UNCHANGED <<pings, world, executed>>

\* The request is lost, or the answer to it.
SyncLost(s) ==
    /\ Open /\ tab.syncs[s].pc \in {"call", "reply"} /\ net = "down"
    /\ tab' = Retry(ReportFailure(tab), s)
    /\ doubtful' = IF tab.syncs[s].pc = "call" THEN doubtful
                   ELSE doubtful \cup {Head(tab.syncs[s].todo)}
    /\ Unobserved /\ UNCHANGED <<pings, world, executed>>

SyncTriesAgain(s) ==
    /\ Open /\ tab.syncs[s].pc = "pause"
    /\ Becomes([tab EXCEPT !.syncs[s].pc = "call", !.syncs[s].attempt = @ + 1])
    /\ Unobserved /\ UNCHANGED <<pings, world, executed>>

\* toggleOfflineMode: back online there is a refresh and no replay.
Toggle ==
    /\ Open
    /\ Becomes([tab EXCEPT !.forced = ~@, !.offline = ~tab.forced \/ ~plugged])
    /\ Unobserved /\ UNCHANGED <<pings, world, executed>>

(***************************************************************************)
(* The network.  The browser tells the page when it has none at all; a server *)
(* that is gone or in trouble is for the heartbeat to find out.              *)
(***************************************************************************)
Unplug ==
    /\ plugged /\ plugged' = FALSE /\ net' = "down"
    /\ Becomes(IF Open THEN MarkOffline(tab) ELSE tab)
    /\ Unobserved /\ UNCHANGED <<pings, executed>>

Plug(n) ==
    /\ ~plugged /\ plugged' = TRUE /\ net' = n
    /\ Becomes(IF Open /\ ~tab.forced THEN MarkOnline(tab) ELSE tab)
    /\ Unobserved /\ UNCHANGED <<pings, executed>>

ServerTurns(n) ==
    /\ plugged /\ net # n /\ net' = n
    /\ UNCHANGED <<tab, pings, plugged, executed, history>>

\* The page is loaded again.  The queue and the user's choice come back from
\* localStorage, _initOfflineMode replays nothing.  A tab that was forced offline
\* gets no further than init()'s second request, which throws: it is sent to
\* the login page, and back here after every login.
Reload ==
    /\ Open /\ net = "up" /\ loads < MaxLoads
    /\ loads' = loads + 1
    /\ tab' = [tab EXCEPT !.page = IF tab.forced THEN "login" ELSE "app",
                          !.offline = tab.forced, !.failures = 0,
                          !.syncs = [s \in 1..Slots |-> Resting]]
    /\ pings' = 0
    /\ doubtful' = IF Running(tab) = {} THEN doubtful ELSE doubtful \cup ToSet(tab.queue)
    /\ UNCHANGED <<world, executed, posted, late>>

HeartbeatEnds == HeartbeatAnswered \/ HeartbeatFailed

SyncStep(s) == \/ SyncReaches(s) \/ SyncAnswered(s) \/ SyncAnsweredBadly(s)
               \/ SyncLost(s) \/ SyncTriesAgain(s)

World == Unplug \/ (\E n \in {"up", "sick", "down"} : Plug(n) \/ ServerTurns(n))

Next == \/ Heartbeat \/ HeartbeatEnds
        \/ \E s \in 1..Slots : SyncStep(s)
        \/ RequestAnswered \/ RequestFailed
        \/ \E a \in Actions : Post(a)
        \/ Toggle \/ World \/ Reload

Spec == Init /\ [][Next]_vars

\* Timers fire, and a request is answered or fails: the heartbeat has a time
\* limit, for the others it is the browser's.
Fairness == /\ WF_vars(Heartbeat) /\ WF_vars(HeartbeatEnds)
            /\ \A s \in 1..Slots : WF_vars(SyncStep(s))

FairSpec == Spec /\ Fairness

(***************************************************************************)
(* Properties.                                                               *)
(***************************************************************************)
TypeOK ==
    /\ tab.page \in {"app", "login"} /\ tab.offline \in BOOLEAN /\ tab.forced \in BOOLEAN
    /\ tab.failures \in 0..HEARTBEAT_FAILURE_THRESHOLD
    /\ tab.queue \in Seq(Actions)
    /\ \A s \in 1..Slots : /\ tab.syncs[s].todo \in Seq(Actions)
                           /\ tab.syncs[s].failed \in Seq(Actions)
                           /\ tab.syncs[s].attempt \in 1..MaxRetries
                           /\ tab.syncs[s].pc \in {"idle", "call", "reply", "pause"}
                           /\ (tab.syncs[s].pc = "idle") = (tab.syncs[s].todo = <<>>)
    /\ pings \in 0..MaxPings
    /\ net \in {"up", "sick", "down"} /\ plugged \in BOOLEAN
    /\ executed \in [Actions -> 0..2] /\ loads \in 0..MaxLoads
    /\ posted \cup late \cup doubtful \subseteq Actions

\* A queued action is only ever lost when it was queued while a replay was
\* running: that replay ends by overwriting the queue (_syncOfflineQueue).
LostOnlyIfLate ==
    posted \subseteq ToSet(tab.queue) \cup {a \in Actions : executed[a] > 0} \cup late

\* The server executes an action twice only when the tab could not know of the
\* first time, or when two replays had copied it (_syncOfflineQueue).
TwiceOnlyIfDoubtful == \A a \in Actions : executed[a] = 2 => a \in doubtful

Healthy == net = "up" /\ plugged /\ Open /\ ~tab.forced

\* Once the server is in reach for good, the tab finds out for good
\* (_heartbeatCheck, _reportNetworkSuccess).
ComesBackOnline == <>[]Healthy => <>[](~tab.offline)

\* The queue is empty in the end when the server comes back in reach for good
\* while the tab is offline, no replay is running, and it is not reloaded.
DrainsWhenHealthy ==
    \A n \in 0..MaxLoads :
       [](/\ tab.offline /\ Running(tab) = {}
          /\ [](Healthy /\ loads = n)
          => <>(tab.queue = <<>>))
=============================================================================
