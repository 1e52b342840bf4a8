----------------------------- MODULE EventIndex -----------------------------
(***************************************************************************)
(* The event collection of the store: the slice s.events, the map           *)
(* s.eventByID from an event's ID to its position in the slice, and the      *)
(* file events.json.  DeleteEvent rebuilds the map, BulkDeleteEvents and     *)
(* ResetToEmpty do not, so a reader may hold a stale position; every reader  *)
(* therefore checks the position before it trusts it and otherwise scans.    *)
(*                                                                           *)
(* Positions are 1-based here (0-based in the code).  An event is its ID     *)
(* and an abstract content, the part bulk filters and updates look at.       *)
(* Every operation is one step: it runs under s.mu, and the races between    *)
(* the unlock and the write of the file are the subject of StoreFile.        *)
(***************************************************************************)
EXTENDS Naturals, Sequences, FiniteSets

CONSTANTS Data,   \* event contents: kind, status and layer taken together
          MaxID   \* bound on the IDs handed out between two resets

ASSUME MaxIDAssumption == MaxID \in Nat

VARIABLES events,       \* s.events
          eventByID,    \* s.eventByID: a function on a set of IDs
          nextEventID,  \* s.nextEventID, the last ID handed out
          eventsFile    \* what events.json holds

vars == <<events, eventByID, nextEventID, eventsFile>>

Event == [id : Nat, data : Data]

Ids(s) == {s[i].id : i \in DOMAIN s}

(***************************************************************************)
(* Lookup.  Trusted says when the map answers; Find is the fallback scan.    *)
(* Position is 0 when the event does not exist.                              *)
(***************************************************************************)
\* Mutant: the ID at the position is not compared.
TrustedInRange(id) == id \in DOMAIN eventByID /\ eventByID[id] <= Len(events)

Trusted(id) == /\ id \in DOMAIN eventByID
               /\ eventByID[id] <= Len(events)
               /\ events[eventByID[id]].id = id

FirstAt(s, id) ==
    CHOOSE i \in DOMAIN s : s[i].id = id /\ \A j \in 1..(i - 1) : s[j].id # id

Position(id) ==
    IF Trusted(id) THEN eventByID[id]
    ELSE IF id \in Ids(events) THEN FirstAt(events, id)
    ELSE 0

GetEventByID(id) == IF Position(id) = 0 THEN <<>> ELSE <<events[Position(id)]>>

(***************************************************************************)
(* Helpers of the writers.                                                   *)
(***************************************************************************)

\* The map rebuilt from the slice: an ID maps to its last position.
RebuiltIndex(s) ==
    [id \in Ids(s) |-> CHOOSE i \in DOMAIN s :
                          s[i].id = id /\ \A j \in (i + 1)..Len(s) : s[j].id # id]

WithoutPosition(s, k) ==
    [i \in 1..(Len(s) - 1) |-> IF i < k THEN s[i] ELSE s[i + 1]]

\* persist: the file takes the snapshot, or the write fails and it does not.
Persist(snap) == eventsFile' \in {snap, eventsFile}

(***************************************************************************)
(* Operations.                                                               *)
(***************************************************************************)
Init == /\ events = <<>>
        /\ eventByID = <<>>
        /\ nextEventID = 0
        /\ eventsFile = <<>>

\* Mutant: the position is taken before the append.
CreateEventEarlyPosition(d) ==
    /\ nextEventID < MaxID
    /\ nextEventID' = nextEventID + 1
    /\ events' = Append(events, [id |-> nextEventID', data |-> d])
    /\ eventByID' = [id \in DOMAIN eventByID \cup {nextEventID'} |->
                        IF id = nextEventID' THEN Len(events) ELSE eventByID[id]]
    /\ Persist(events')

CreateEvent(d) ==
    /\ nextEventID < MaxID
    /\ nextEventID' = nextEventID + 1
    /\ events' = Append(events, [id |-> nextEventID', data |-> d])
    /\ eventByID' = [id \in DOMAIN eventByID \cup {nextEventID'} |->
                        IF id = nextEventID' THEN Len(events') ELSE eventByID[id]]
    /\ Persist(events')

\* A record with a new content replaces the stored one; a lookup that had to
\* scan repairs the map.
UpdateEvent(id, d) ==
    /\ Position(id) # 0
    /\ events' = [events EXCEPT ![Position(id)] = [id |-> id, data |-> d]]
    /\ eventByID' = [x \in DOMAIN eventByID \cup {id} |->
                        IF x = id THEN Position(id) ELSE eventByID[x]]
    /\ Persist(events')
    /\ UNCHANGED nextEventID

DeleteEvent(id) ==
    /\ Position(id) # 0
    /\ events' = WithoutPosition(events, Position(id))
    /\ eventByID' = RebuiltIndex(events')
    /\ Persist(events')
    /\ UNCHANGED nextEventID

\* Bulk operations select by content and change the selected events in place;
\* the file is written only when some event was selected.
Selected(match) == {i \in DOMAIN events : events[i].data \in match}

BulkRewrite(match, change) ==
    /\ Selected(match) # {}
    /\ events' = [i \in DOMAIN events |->
                     IF i \in Selected(match)
                     THEN [events[i] EXCEPT !.data = change[events[i].data]]
                     ELSE events[i]]
    /\ Persist(events')
    /\ UNCHANGED <<eventByID, nextEventID>>

BulkSetEventStatus(match, change) == BulkRewrite(match, change)

BulkSetEventType(match, change) == BulkRewrite(match, change)

BulkMoveEventsToLayer(match, change) == BulkRewrite(match, change)

\* The events of a deleted layer move to the master timeline.
DeleteLayer(match, change) == BulkRewrite(match, change)

\* The kept events move together, and the map keeps their old positions.
BulkDeleteEvents(match) ==
    LET kept == DOMAIN events \ Selected(match)
    IN  /\ Selected(match) # {}
        /\ \E at \in [1..Cardinality(kept) -> kept] :
              /\ \A i, j \in DOMAIN at : i < j => at[i] < at[j]
              /\ events' = [i \in DOMAIN at |-> events[at[i]]]
        /\ Persist(events')
        /\ UNCHANGED <<eventByID, nextEventID>>

\* The full reset empties the slice and restarts the IDs; the map stays.
ResetToEmpty ==
    /\ events' = <<>>
    /\ nextEventID' = 0
    /\ Persist(<<>>)
    /\ UNCHANGED eventByID

ResetDatabase ==
    /\ events' = <<>>
    /\ nextEventID' = 0
    /\ eventByID' = <<>>
    /\ Persist(<<>>)

\* FlushAll at shutdown.
FlushAll == Persist(events) /\ UNCHANGED <<events, eventByID, nextEventID>>

MaxOf(S) == IF S = {} THEN 0 ELSE CHOOSE x \in S : \A y \in S : y <= x

\* Mutant: the counter continues from the number of events.
LoadCounting ==
    /\ events' = eventsFile
    /\ nextEventID' = Len(eventsFile)
    /\ eventByID' = RebuiltIndex(eventsFile)
    /\ UNCHANGED eventsFile

\* The process stops and a new one loads the file.
Load ==
    /\ events' = eventsFile
    /\ nextEventID' = MaxOf(Ids(eventsFile))
    /\ eventByID' = RebuiltIndex(eventsFile)
    /\ UNCHANGED eventsFile

Next == \/ \E d \in Data : CreateEvent(d)
        \/ \E id \in 1..MaxID, d \in Data : UpdateEvent(id, d)
        \/ \E id \in 1..MaxID : DeleteEvent(id)
        \/ \E match \in SUBSET Data, change \in [Data -> Data] :
              \/ BulkSetEventStatus(match, change)
              \/ BulkSetEventType(match, change)
              \/ BulkMoveEventsToLayer(match, change)
              \/ DeleteLayer(match, change)
        \/ \E match \in SUBSET Data : BulkDeleteEvents(match)
        \/ ResetToEmpty
        \/ ResetDatabase
        \/ FlushAll
        \/ Load

Spec == Init /\ [][Next]_vars

(***************************************************************************)
(* Properties.                                                               *)
(***************************************************************************)

\* The variables keep their types (store.go: events, eventByID, nextEventID).
TypeOK == /\ events \in Seq(Event)
          /\ eventsFile \in Seq(Event)
          /\ nextEventID \in 0..MaxID
          /\ DOMAIN eventByID \subseteq Nat
          /\ \A id \in DOMAIN eventByID : eventByID[id] \in Nat \ {0}

UniqueIds(s) == \A i, j \in DOMAIN s : s[i].id = s[j].id => i = j

\* No two events ever share an ID, in memory or on disk, whatever was deleted,
\* reset or reloaded before: CreateEvent never hands out the ID of a live event.
IdsUnique == UniqueIds(events) /\ UniqueIds(eventsFile)

\* GetEventByID, UpdateEvent and DeleteEvent act on the event they were asked
\* for: although positions go stale, a lookup by ID finds an event exactly when
\* one with that ID is in the slice, and it is that one.
LookupExact ==
    \A id \in 1..MaxID :
       /\ (Position(id) # 0) <=> (id \in Ids(events))
       /\ Position(id) # 0 => events[Position(id)].id = id

=============================================================================
