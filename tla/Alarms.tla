------------------------------- MODULE Alarms -------------------------------
(***************************************************************************)
(* Reminders of one user: the scheduler of background.go with the alarms of   *)
(* store_alarms.go, and the broker of sse.go that hands a reminder to the      *)
(* user's open tabs.                                                         *)
(*                                                                           *)
(* Notify reads the user's slice of connections under the lock and goes       *)
(* through it afterwards; Unsubscribe shifts the same array in place.  What   *)
(* the loop then reads is modelled slot by slot.                              *)
(*                                                                           *)
(* Invitations, mentions and routed events come by the same way without an    *)
(* alarm behind them; their alarm_id is 0.  Left out: what the page makes of a *)
(* reminder, webhooks and mail, personal notifications, the limit of           *)
(* connections for a user.                                                   *)
(***************************************************************************)
EXTENDS Naturals, Sequences, FiniteSets, SequencesExt

CONSTANTS Ids,         \* alarms, positive numbers
          Tabs,        \* tabs of the user
          Closed,      \* a connection that no tab holds any more
          Buffer,      \* reminders a connection holds (8 in the code)
          MaxInfos,    \* bound: notifications without an alarm
          MaxMoves     \* bound: connections made and ended, crashes

Info == 0  \* their alarm_id

AlarmsAssumption == /\ Ids \subseteq Nat \ {Info} /\ IsFiniteSet(Ids)
                    /\ IsFiniteSet(Tabs)
                    /\ Closed \notin Tabs /\ Buffer \in Nat \ {0}
                    /\ MaxInfos \in Nat /\ MaxMoves \in Nat

VARIABLES alarms,    \* the stored alarms: due, fired, active
          conns,     \* the user's connections, in the broker's order
          loop,      \* what the scheduler is doing
          inbox,     \* reminders a connection holds for its tab
          infos,     \* infos so far
          moves,     \* connections made or ended, crashes
          begun,     \* history: how often the notifying of an alarm began
          got,       \* history: how often the present notifying handed a tab the alarm
          owed,      \* history: tabs the present notifying is to reach
          shaken,    \* history: a connection was closed during it
          crashed    \* history: the server was restarted

server == <<alarms, conns, loop>>
history == <<begun, got, owed, shaken, crashed>>
vars == <<server, inbox, infos, moves, history>>

\* Of the alarms still to be gone through the scheduler is at the first that was
\* made.
Current == Min(loop.todo)

Resting == [pc |-> "rest", todo |-> {}, slots |-> <<>>, at |-> 1, shared |-> FALSE]

Init == /\ alarms = [a \in Ids |-> [due |-> FALSE, fired |-> FALSE, active |-> TRUE]]
        /\ conns = SetToSeq(Tabs)
        /\ loop = Resting
        /\ inbox = [t \in Tabs |-> <<>>]
        /\ infos = 0 /\ moves = 0
        /\ begun = [a \in Ids |-> 0] /\ got = [t \in Tabs |-> 0]
        /\ owed = {} /\ shaken = FALSE /\ crashed = FALSE

(***************************************************************************)
(* The store and the scheduler.                                              *)
(***************************************************************************)
\* The lead time of an alarm begins.
FallsDue(a) == /\ a \in DOMAIN alarms /\ ~alarms[a].due
               /\ alarms' = [alarms EXCEPT ![a].due = TRUE]
               /\ UNCHANGED <<conns, loop, inbox, infos, moves, history>>

\* DeleteAlarm.
Delete(a) == /\ a \in DOMAIN alarms
             /\ alarms' = [b \in DOMAIN alarms \ {a} |-> alarms[b]]
             /\ UNCHANGED <<conns, loop, inbox, infos, moves, history>>

\* AckAlarm.
Acknowledge(a) == /\ a \in DOMAIN alarms /\ alarms[a].active
                  /\ alarms' = [alarms EXCEPT ![a].active = FALSE]
                  /\ UNCHANGED <<conns, loop, inbox, infos, moves, history>>

\* A tick: the scheduler goes through a copy of the active alarms that are due, in
\* the order in which they were made.
Tick == /\ loop.pc = "rest"
        /\ LET due == {a \in DOMAIN alarms : /\ alarms[a].active /\ ~alarms[a].fired
                                             /\ alarms[a].due}
           IN  /\ due # {}
               /\ loop' = [Resting EXCEPT !.pc = "mark", !.todo = due]
        /\ UNCHANGED <<alarms, conns, inbox, infos, moves, history>>

\* Mutant: the mark is set on the scheduler's copy only.
MarkedCopy == alarms

\* MarkAlarmFired, which does nothing to an alarm deleted meanwhile.
Marked == [a \in DOMAIN alarms |-> IF a = Current THEN [alarms[a] EXCEPT !.fired = TRUE]
                                                     ELSE alarms[a]]

Mark == /\ loop.pc = "mark"
        /\ alarms' = Marked
        /\ loop' = [loop EXCEPT !.pc = "notify"]
        /\ UNCHANGED <<conns, inbox, infos, moves, history>>

\* Notify takes the slice.
TakeSlice == /\ loop.pc = "notify"
             /\ loop' = [loop EXCEPT !.pc = "loop", !.slots = conns, !.at = 1, !.shared = TRUE]
             /\ begun' = [begun EXCEPT ![Current] = @ + 1]
             /\ owed' = Range(conns)
             /\ UNCHANGED <<alarms, conns, inbox, infos, moves, got, shaken, crashed>>

\* A connection that is full drops the reminder.
Hand(t, a) == IF Len(inbox[t]) < Buffer THEN Append(inbox[t], a) ELSE inbox[t]

\* Mutant: the loop ends at the first connection that is full.
HandOverUntilFull ==
    /\ loop.pc = "loop" /\ loop.at <= Len(loop.slots)
    /\ LET t == loop.slots[loop.at]
           a == Current
           full == t # Closed /\ Len(inbox[t]) = Buffer
       IN  /\ IF full \/ t = Closed THEN UNCHANGED <<inbox, got>>
              ELSE /\ inbox' = [inbox EXCEPT ![t] = Append(@, a)]
                   /\ got' = [got EXCEPT ![t] = @ + 1]
           /\ owed' = IF full THEN owed \ {t} ELSE owed
           /\ loop' = [loop EXCEPT !.at = IF full THEN Len(loop.slots) + 1 ELSE @ + 1]
    /\ UNCHANGED <<alarms, conns, infos, moves, begun, shaken, crashed>>

\* The loop of Notify goes to its next slot.
HandOver == /\ loop.pc = "loop" /\ loop.at <= Len(loop.slots)
            /\ LET t == loop.slots[loop.at]
                   a == Current
               IN  IF t = Closed THEN UNCHANGED <<inbox, got, owed>>
                   ELSE /\ inbox' = [inbox EXCEPT ![t] = Hand(t, a)]
                        /\ got' = [got EXCEPT ![t] = @ + Len(inbox'[t]) - Len(inbox[t])]
                        /\ owed' = IF Len(inbox[t]) = Buffer THEN owed \ {t} ELSE owed
            /\ loop' = [loop EXCEPT !.at = @ + 1]
            /\ UNCHANGED <<alarms, conns, infos, moves, begun, shaken, crashed>>

\* The next alarm of the copy, or the next tick.
NextAlarm == /\ loop.pc = "loop" /\ loop.at > Len(loop.slots)
             /\ loop' = IF loop.todo = {Current} THEN Resting
                        ELSE [Resting EXCEPT !.pc = "mark", !.todo = loop.todo \ {Current}]
             /\ got' = [t \in Tabs |-> 0] /\ owed' = {} /\ shaken' = FALSE
             /\ UNCHANGED <<alarms, conns, inbox, infos, moves, begun, crashed>>

(***************************************************************************)
(* Connections.                                                              *)
(***************************************************************************)
Move == moves < MaxMoves /\ moves' = moves + 1

\* Mutant: the slice of the loop is a copy, and its slot is left as it was.
ShiftedNever(slots, i) == slots

\* What is left of slots when the connection at place i is taken out: if they
\* lie in the same array, those after it are moved down in place.
Shifted(slots, i) == [n \in DOMAIN slots |->
                        IF loop.shared /\ i <= n /\ n < Len(conns) THEN conns[n + 1]
                        ELSE IF slots[n] = conns[i] THEN Closed ELSE slots[n]]

\* Unsubscribe, when a tab is closed or loses its connection.
Unsubscribe(t) ==
    /\ Move
    /\ t \in Range(conns)
    /\ LET i == CHOOSE n \in DOMAIN conns : conns[n] = t
       IN  /\ conns' = RemoveAt(conns, i)
           /\ loop' = [loop EXCEPT !.slots = Shifted(@, i), !.shared = @ /\ Len(conns) > 1]
           /\ owed' = IF i < loop.at THEN {} ELSE owed \ {t}
    /\ inbox' = [inbox EXCEPT ![t] = <<>>]
    /\ shaken' = (loop.pc = "loop")
    /\ UNCHANGED <<alarms, infos, begun, got, crashed>>

\* Subscribe appends: in place if the array has room, else in a new array.
Subscribe(t) ==
    /\ Move
    /\ t \notin Range(conns)
    /\ conns' = Append(conns, t)
    /\ IF loop.shared /\ Len(conns) < Len(loop.slots)
       THEN loop' = [loop EXCEPT !.slots[Len(conns) + 1] = t]
       ELSE \E room \in BOOLEAN : loop' = [loop EXCEPT !.shared = @ /\ room]
    /\ UNCHANGED <<alarms, inbox, infos, history>>

\* The server is restarted: the alarms come back from their file.
Crash == /\ Move
         /\ conns' = <<>> /\ loop' = Resting
         /\ inbox' = [t \in Tabs |-> <<>>]
         /\ got' = [t \in Tabs |-> 0] /\ owed' = {} /\ shaken' = FALSE /\ crashed' = TRUE
         /\ UNCHANGED <<alarms, infos, begun>>

\* An invitation or a mention.
Inform == /\ infos < MaxInfos
          /\ infos' = infos + 1
          /\ inbox' = [t \in Tabs |-> IF t \in Range(conns) THEN Hand(t, Info) ELSE inbox[t]]
          /\ UNCHANGED <<server, moves, history>>

\* The connection of a tab writes the next reminder to it.
Arrives(t) == /\ inbox[t] # <<>>
              /\ inbox' = [inbox EXCEPT ![t] = Tail(@)]
              /\ UNCHANGED <<server, infos, moves, history>>

Scheduler == Tick \/ Mark \/ TakeSlice \/ HandOver \/ NextAlarm
Connections == (\E t \in Tabs : Unsubscribe(t) \/ Subscribe(t)) \/ Crash \/ Inform
Users == \/ \E a \in Ids : FallsDue(a) \/ Delete(a) \/ Acknowledge(a)
         \/ \E t \in Tabs : Arrives(t)

Next == Scheduler \/ Connections \/ Users

Spec == Init /\ [][Next]_vars

(***************************************************************************)
(* Properties.                                                               *)
(***************************************************************************)
\* Connections are those of different tabs, none holds more than its buffer, and
\* only connected tabs have reminders waiting.
TypeOK == /\ IsInjective(conns) /\ Range(conns) \subseteq Tabs
          /\ loop.pc \in {"rest", "mark", "notify", "loop"}
          /\ \A t \in Tabs : /\ Len(inbox[t]) <= Buffer
                             /\ inbox[t] # <<>> => t \in Range(conns)
                             /\ Range(inbox[t]) \subseteq Ids \cup {Info}

\* An alarm is announced at most once, restarts included, and a fired alarm was
\* announced or is about to be, unless the server was restarted in between.  (An
\* alarm deleted after the scheduler took its copy is still announced.)
FiresOnce == \A a \in Ids :
                /\ begun[a] <= 1
                /\ (a \in DOMAIN alarms /\ alarms[a].fired /\ ~crashed)
                   => begun[a] = 1 \/ (loop.pc = "notify" /\ a = Current)

\* When the loop of Notify has ended, every tab connected since it began has been
\* handed the alarm, unless it had no room or a connection the loop had passed was
\* closed meanwhile (then a tab may be skipped).  If none was closed at all it
\* has been handed it once; else the last tab may have been told twice.
EveryTabIsTold ==
    (loop.pc = "loop" /\ loop.at > Len(loop.slots))
    => \A t \in owed : got[t] >= 1 /\ (~shaken => got[t] = 1)
=============================================================================
