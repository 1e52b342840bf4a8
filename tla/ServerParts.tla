--------------------------- MODULE ServerParts ----------------------------
(***************************************************************************)
(* Parts of the server that share nothing, each on its own instance: a         *)
(* behaviour is one of the part it begins with, and the variables of the       *)
(* others stay put.                                                          *)
(***************************************************************************)
EXTENDS Naturals, FiniteSets

CONSTANTS
    Cards, BoardColumns, Present, MaxChanges,
    Ids, Tabs, Closed, Buffer, MaxInfos, MaxMoves,
    Requests, Others, Workers, BusRoom, JobRoom,
    Entries, Operators, Lengths, MaxTime, MaxAhead, MaxRequests

VARIABLES
    service,   \* the part a behaviour is one of
    cards, view, request, handlers, changes, foreign, loose,
    alarms, conns, loop, inbox, infos, moves, begun, got, owed, shaken, crashed,
    process, stopper, stopping, bus, busOpen, jobs, jobsOpen, deliverer, sender, serving,
    worker, timedOut,
    now, settings, entries, sched, tasks, pages, sent, clock, seen, tally, off, strayed

B == INSTANCE BoardOrder WITH Columns <- BoardColumns
A == INSTANCE Alarms
S == INSTANCE Shutdown
R == INSTANCE BattleRhythm

ASSUME ServerAssumption == /\ B!BoardOrderAssumption
                           /\ A!AlarmsAssumption
                           /\ S!ShutdownAssumption
                           /\ R!BattleRhythmAssumption

boardVars == <<cards, view, request, handlers, changes, foreign, loose>>
alarmVars == <<alarms, conns, loop, inbox, infos, moves,
               begun, got, owed, shaken, crashed>>
shutdownVars == <<process, stopper, stopping, bus, busOpen, jobs, jobsOpen, deliverer,
                  sender, serving, worker, timedOut>>
rhythmVars == <<now, settings, entries, sched, tasks, pages, sent, clock, seen, tally, off,
                strayed>>
serverVars == <<service, boardVars, alarmVars, shutdownVars, rhythmVars>>

\* The variables of a part that is not the one looked at.
BoardIdle == /\ cards = <<>> /\ view = <<>> /\ request = B!Idle /\ handlers = 0 /\ changes = 0
             /\ foreign = 0 /\ loose = 0
AlarmsIdle == /\ alarms = 0 /\ conns = 0 /\ loop = 0 /\ inbox = 0
              /\ infos = 0 /\ moves = 0 /\ begun = 0 /\ got = 0
              /\ owed = 0 /\ shaken = 0 /\ crashed = 0
ShutdownIdle == /\ process = 0 /\ stopper = 0 /\ stopping = 0 /\ bus = 0 /\ busOpen = 0
                /\ jobs = 0 /\ jobsOpen = 0 /\ deliverer = 0 /\ sender = 0
                /\ serving = 0 /\ worker = 0 /\ timedOut = 0
RhythmIdle == /\ now = 0 /\ settings = 0 /\ entries = 0 /\ sched = 0 /\ tasks = 0 /\ pages = 0
              /\ sent = 0 /\ clock = 0 /\ seen = 0 /\ tally = 0 /\ off = 0 /\ strayed = 0

ServerInit ==
    /\ service \in {"board", "alarms", "shutdown", "rhythm"}
    /\ IF service = "board" THEN B!Init ELSE BoardIdle
    /\ IF service = "alarms" THEN A!Init ELSE AlarmsIdle
    /\ IF service = "shutdown" THEN S!Init ELSE ShutdownIdle
    /\ IF service = "rhythm" THEN R!Init ELSE RhythmIdle

ServerNext ==
    /\ \/ service = "board" /\ B!Next /\ UNCHANGED <<alarmVars, shutdownVars, rhythmVars>>
       \/ service = "alarms" /\ A!Next /\ UNCHANGED <<boardVars, shutdownVars, rhythmVars>>
       \/ service = "shutdown" /\ S!Next /\ UNCHANGED <<boardVars, alarmVars, rhythmVars>>
       \/ service = "rhythm" /\ R!Next /\ UNCHANGED <<boardVars, alarmVars, shutdownVars>>
    /\ UNCHANGED service

ServerSpec == ServerInit /\ [][ServerNext]_serverVars

(***************************************************************************)
(* The properties of the parts, which their modules explain.                  *)
(***************************************************************************)
\* The variables of each part have their types: exact copies, connections,
\* channels, clocks.
ServerTypeOK == /\ service = "board" => B!TypeOK
                /\ service = "alarms" => A!TypeOK
                /\ service = "shutdown" => S!TypeOK
                /\ service = "rhythm" => R!TypeOK

\* BoardOrder: the orders of a column's cards differ, and after a drop the page
\* shows what the server has.
BoardDropsAgree == service = "board" => B!OrdersDiffer /\ B!DropsAgree

\* BoardOrder: a card lands where it was dropped, and the others of its column
\* keep their order.
BoardDropsLand == B!DropsLand /\ B!OthersKeepTheirOrder

\* Alarms: an alarm is announced at most once, restarts included.
AlarmsFiresOnce == service = "alarms" => A!FiresOnce

\* Alarms: the loop of Notify reaches every tab it owes the reminder.
AlarmsEveryTabIsTold == service = "alarms" => A!EveryTabIsTold

\* Shutdown: the bus never sends on the closed channel of the workers.
ShutdownBusIsSafe == service = "shutdown" => S!BusIsSafe

\* Shutdown: what was queued is tried before the store is flushed.
ShutdownQueuedAreTried == service = "shutdown" => S!QueuedAreTried

\* BattleRhythm: every cycle is counted once on every active entry, on the clock that
\* the operators made.
RhythmCountsEveryCycle ==
    service = "rhythm" => R!CountsEveryCycle /\ R!ControlsKeepTheClock
=============================================================================
