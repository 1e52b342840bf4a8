-------------------------------- MODULE Undo --------------------------------
(***************************************************************************)
(* Undo in a tab (static/undo.js): what the tab puts on its stack when its     *)
(* user creates, changes or deletes an event, and what it asks of the server     *)
(* when that is undone.                                                      *)
(*                                                                           *)
(* Locks, layers, groups, types, phases and alarms are undone the same way.     *)
(* Nothing keeps the user from acting while a request is under way, an answer     *)
(* that is an error is not looked at when undoing, and an event that is        *)
(* created again gets a new ID.                                              *)
(*                                                                           *)
(* Left out: cards of boards and polls, whose entries undo nothing, the choice  *)
(* between an occurrence and its series, forms open on an event that the tab    *)
(* no longer has, and what the server adds to an event by itself.              *)
(***************************************************************************)
EXTENDS Naturals, Sequences, FiniteSets, SequencesExt

CONSTANTS Contents,   \* what an event may say
          MaxCalls,   \* bound: requests under way at a time
          MaxStack,   \* entries kept (MAX_UNDO_STACK, 50 in the code)
          MaxActs     \* bound: what the user and others do

UndoAssumption == /\ IsFiniteSet(Contents) /\ Contents # {}
                  /\ MaxCalls \in Nat \ {0}
                  /\ MaxStack \in Nat \ {0} /\ MaxActs \in Nat

VARIABLES events,   \* the server's events: IDs to contents
          nextID,   \* the ID of the next event
          view,     \* what the tab last fetched of them
          stack,    \* state.undoStack, the newest entry last
          calls,    \* requests of the tab, known by the act that sent them
          acts      \* acts so far

vars == <<events, nextID, view, stack, calls, acts>>

(***************************************************************************)
(* History.  An entry remembers how often each content was there before the   *)
(* change it undoes: to which the undoing should lead back.  It is void, and    *)
(* remembers nothing, when that is not to be expected.                       *)
(***************************************************************************)
Count(evs) == [c \in Contents |-> Cardinality({i \in DOMAIN evs : evs[i] = c})]

Void == {}

Spoiled(e) == [e EXCEPT !.before = Void]

SpoiledStack(st) == [k \in DOMAIN st |-> Spoiled(st[k])]

SpoiledCalls == {[r EXCEPT !.entry = Spoiled(@)] : r \in calls}

Entry(action, i, old) == [action |-> action, id |-> i, old |-> old, before |-> {Count(events)}]

Init == /\ events = [i \in {1} |-> CHOOSE c \in Contents : TRUE]
        /\ nextID = 2
        /\ view = events
        /\ stack = <<>>
        /\ calls = {}
        /\ acts = 0

(***************************************************************************)
(* The tab.                                                                  *)
(***************************************************************************)
\* Mutant: a full stack does not take the new entry.
PushedWhileRoom(st, e) == IF Len(st) < MaxStack THEN Append(st, e) ELSE st

\* pushUndo.
Pushed(st, e) == IF Len(st) < MaxStack THEN Append(st, e) ELSE Tail(Append(st, e))

Hasty == calls # {}

Request(kind, i, c, e, undoing) ==
    [kind |-> kind, id |-> i, content |-> c, entry |-> e, undoing |-> undoing,
     act |-> acts, state |-> "sent"]

\* The tab sends a request, whose entry is pushed before (`now') or when it is
\* answered; `st' is the stack before.  An act in haste spoils what is on the
\* stack and under way.
Sends(request, st, now) ==
    LET r == IF Hasty THEN [request EXCEPT !.entry = Spoiled(@)] ELSE request
        kept == IF Hasty THEN SpoiledStack(st) ELSE st
    IN  /\ Cardinality(calls) < MaxCalls
        /\ calls' = SpoiledCalls \cup {r}
        /\ stack' = IF now THEN Pushed(kept, r.entry) ELSE kept

Acts == acts < MaxActs /\ acts' = acts + 1

\* What the tab has of event i is what the server has.
Current(i) == i \in DOMAIN events /\ events[i] = view[i]

Replaced(action, i) == LET e == Entry(action, i, view[i])
                       IN  IF Current(i) THEN e ELSE Spoiled(e)

\* The form of a new event is saved; the entry needs the ID in the answer.
Create(c) ==
    /\ Acts
    /\ Sends(Request("create", 0, c, Entry("create", 0, c), FALSE), stack, FALSE)
    /\ UNCHANGED <<events, nextID, view>>

\* An event is edited, dragged, moved or resized: the whole record is sent, and
\* the old one is pushed.
Update(i, c) ==
    /\ Acts
    /\ Sends(Request("update", i, c, Replaced("update", i), FALSE), stack, TRUE)
    /\ UNCHANGED <<events, nextID, view>>

Delete(i) ==
    /\ Acts
    /\ Sends(Request("delete", i, view[i], Replaced("delete", i), FALSE), stack, TRUE)
    /\ UNCHANGED <<events, nextID, view>>

\* deleteEvent pushes the entry before it asks, and the user says no.
Decline(i) ==
    /\ Acts
    /\ stack' = Pushed(stack, Spoiled(Entry("delete", i, view[i])))
    /\ UNCHANGED <<events, nextID, view, calls>>

Opposite == [create |-> "delete", update |-> "update", delete |-> "create"]

\* performUndo takes the newest entry and asks for the opposite.
PerformUndo ==
    /\ Acts
    /\ stack # <<>>
    /\ LET e == Last(stack)
       IN  Sends(Request(Opposite[e.action], e.id, e.old, e, TRUE), Front(stack), FALSE)
    /\ UNCHANGED <<events, nextID, view>>

(***************************************************************************)
(* The server, and what comes back.                                          *)
(***************************************************************************)
With(evs, i, c) == [j \in DOMAIN evs \cup {i} |-> IF j = i THEN c ELSE evs[j]]

Without(evs, i) == [j \in DOMAIN evs \ {i} |-> evs[j]]

\* handleCreateEvent, handleUpdateEvent, handleDeleteEvent.
Executes(r) ==
    CASE r.kind = "create" -> /\ events' = With(events, nextID, r.content)
                              /\ nextID' = nextID + 1
      [] r.kind = "update" -> /\ events' = [events EXCEPT ![r.id] = r.content]
                              /\ UNCHANGED nextID
      [] r.kind = "delete" -> /\ events' = Without(events, r.id)
                              /\ UNCHANGED nextID

Finds(r) == r.kind = "create" \/ r.id \in DOMAIN events

Deletes(e, i) == e.action = "delete" /\ e.id = i

\* Entries are void that are for an event which now has another ID; when the
\* undoing itself was void, so are all the older ones.
AfterUndo(e) ==
    [k \in DOMAIN stack |->
        IF e.before = Void \/ Deletes(e, stack[k].id)
        THEN Spoiled(stack[k]) ELSE stack[k]]

Serve(r) ==
    /\ r.state = "sent" /\ Finds(r)
    /\ Executes(r)
    /\ calls' = (calls \ {r}) \cup
                   {[r EXCEPT !.state = "served",
                              !.id = IF r.kind = "create" THEN nextID ELSE @]}
    /\ stack' = IF r.undoing THEN AfterUndo(r.entry) ELSE stack
    /\ UNCHANGED <<view, acts>>

\* There is no such event, the slot is locked, the user may not, the request is
\* lost.  The entry of a deletion stays, that of an undoing is gone.
Fail(r) ==
    /\ r.state = "sent"
    /\ calls' = calls \ {r}
    /\ stack' = IF r.undoing THEN SpoiledStack(stack)
                ELSE [k \in DOMAIN stack |->
                         IF r.kind = "delete" /\ Deletes(stack[k], r.id)
                         THEN Spoiled(stack[k]) ELSE stack[k]]
    /\ UNCHANGED <<events, nextID, view, acts>>

\* The answer arrives; only a creation has something to push.
Answer(r) ==
    /\ r.state = "served"
    /\ calls' = calls \ {r}
    /\ stack' = IF r.kind = "create" /\ ~r.undoing
                THEN Pushed(stack, [r.entry EXCEPT !.id = r.id])
                ELSE stack
    /\ UNCHANGED <<events, nextID, view, acts>>

\* The answer is lost, and with it the entry of a creation.
Lose(r) ==
    /\ r.state = "served"
    /\ calls' = calls \ {r}
    /\ stack' = IF r.kind = "create" /\ ~r.undoing THEN SpoiledStack(stack) ELSE stack
    /\ UNCHANGED <<events, nextID, view, acts>>

\* refreshAll, after an answer or an announcement.
Refresh == /\ view # events
           /\ view' = events
           /\ UNCHANGED <<events, nextID, stack, calls, acts>>

\* Another user does something.
Others ==
    /\ Acts
    /\ \E c \in Contents, i \in DOMAIN events, kind \in {"create", "update", "delete"} :
          Executes([kind |-> kind, id |-> i, content |-> c])
    /\ stack' = SpoiledStack(stack) /\ calls' = SpoiledCalls
    /\ UNCHANGED view

Next ==
    \/ \E c \in Contents : Create(c) \/ \E i \in DOMAIN view : Update(i, c)
    \/ \E i \in DOMAIN view : Delete(i) \/ Decline(i)
    \/ PerformUndo
    \/ \E r \in calls : Serve(r) \/ Fail(r) \/ Answer(r) \/ Lose(r)
    \/ Refresh \/ Others

Spec == Init /\ [][Next]_vars

(***************************************************************************)
(* Properties.                                                               *)
(***************************************************************************)
IsEntry(e) == /\ e.action \in {"create", "update", "delete"}
              /\ e.id \in 0..(MaxActs + 1) /\ e.old \in Contents
              /\ Cardinality(e.before) <= 1

\* The server, the tab's copy and the stack keep their types, and pushUndo's cap.
TypeOK ==
    /\ DOMAIN events \subseteq 1..(nextID - 1) /\ \A i \in DOMAIN events : events[i] \in Contents
    /\ DOMAIN view \subseteq 1..(nextID - 1) /\ \A i \in DOMAIN view : view[i] \in Contents
    /\ nextID \in 2..(MaxActs + 2) /\ acts \in 0..MaxActs
    /\ Len(stack) <= MaxStack /\ \A k \in DOMAIN stack : IsEntry(stack[k])
    /\ \A r \in calls : IsEntry(r.entry)
    /\ Cardinality(calls) <= MaxCalls

\* An undoing finds what it is to undo, and leads back to the contents there were
\* before the change, however many changes were made and undone meanwhile
\* (performUndo), unless the entry is void: others changed something, the user
\* did not wait for an answer or for the tab's data, a deletion was declined or
\* failed, an event was created anew under another ID, or a later undoing failed.
UndoGoesBack ==
    [][\A r \in calls :
          /\ r.state = "sent" /\ r.undoing /\ r.entry.before # Void
          => /\ Finds(r)
             /\ (\E q \in calls' : q.act = r.act /\ q.state = "served")
                => r.entry.before = {Count(events')}]_vars
=============================================================================
