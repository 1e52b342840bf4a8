-------------------------- MODULE EventIndexProofs --------------------------
(***************************************************************************)
(* IDs of events stay unique and lookups by ID stay exact, for any contents   *)
(* and any bound on the IDs.                                                  *)
(*                                                                           *)
(* Nothing is assumed of eventByID but that its values are positions: the      *)
(* proof of LookupExact is that the check of every reader (Trusted) and the     *)
(* fallback scan are enough, however stale the map is.  Uniqueness needs that   *)
(* no live event has a number beyond the counter; the file may, after a reset   *)
(* whose write failed, which is why a reload takes the counter from the file.  *)
(***************************************************************************)
EXTENDS EventIndex, SequenceTheorems, FiniteSetTheorems, WellFoundedInduction, TLAPS

\* A slice of events with distinct IDs between 1 and n.
Numbered(s, n) == /\ s \in Seq(Event)
                  /\ UniqueIds(s)
                  /\ \A i \in DOMAIN s : s[i].id \in 1..n

Positions == /\ DOMAIN eventByID \subseteq Nat
             /\ \A id \in DOMAIN eventByID : eventByID[id] \in Nat \ {0}

IInv == /\ Numbered(events, nextEventID)
        /\ Numbered(eventsFile, MaxID)
        /\ nextEventID \in 0..MaxID
        /\ Positions

(***************************************************************************)
(* Lemmas about slices.                                                      *)
(***************************************************************************)

\* A function on 1..n is a sequence.
LEMMA FunctionIsSeq ==
    ASSUME NEW S, NEW n \in Nat, NEW f \in [1..n -> S]
    PROVE  f \in Seq(S) /\ Len(f) = n
  OBVIOUS

\* The shape of a slice.
LEMMA SliceShape ==
    ASSUME NEW s \in Seq(Event)
    PROVE  /\ Len(s) \in Nat /\ DOMAIN s = 1..Len(s)
           /\ \A i \in DOMAIN s : s[i] \in Event /\ s[i].id \in Nat /\ s[i].data \in Data
  <1>1. Len(s) \in Nat /\ DOMAIN s = 1..Len(s) /\ \A i \in 1..Len(s) : s[i] \in Event
    BY LenProperties, ElementOfSeq
  <1>2. \A e \in Event : e.id \in Nat /\ e.data \in Data
    BY DEF Event
  <1>3. QED BY <1>1, <1>2

\* A slice made of events of another slice, no position used twice, keeps what
\* is known of their IDs.
LEMMA PartKeepsNumbers ==
    ASSUME NEW s, NEW n, Numbered(s, n), NEW k \in Nat,
           NEW at \in [1..k -> DOMAIN s],
           \A i, j \in 1..k : at[i] = at[j] => i = j,
           NEW t, Len(t) = k, t \in Seq(Event),
           \A i \in 1..k : t[i].id = s[at[i]].id
    PROVE  Numbered(t, n)
  <1>1. DOMAIN t = 1..k
    BY SliceShape
  <1>2. \A i \in 1..k : at[i] \in DOMAIN s
    OBVIOUS
  <1>3. UniqueIds(t)
    BY <1>1, <1>2 DEF Numbered, UniqueIds
  <1>4. \A i \in DOMAIN t : t[i].id \in 1..n
    BY <1>1, <1>2 DEF Numbered
  <1>5. QED BY <1>3, <1>4 DEF Numbered

\* Numbers below a bound are below a larger one.
LEMMA LargerBound ==
    ASSUME NEW s, NEW m \in Nat, NEW n \in Nat, m <= n, Numbered(s, m)
    PROVE  Numbered(s, n)
  BY DEF Numbered

\* The empty slice.
LEMMA EmptyNumbered == \A n : Numbered(<<>>, n)
  BY DEF Numbered, UniqueIds

\* The rebuilt map holds positions.
LEMMA RebuiltPositions ==
    ASSUME NEW s \in Seq(Event), UniqueIds(s)
    PROVE  LET m == RebuiltIndex(s)
           IN  DOMAIN m \subseteq Nat /\ \A id \in DOMAIN m : m[id] \in Nat \ {0}
  <1> DEFINE m == RebuiltIndex(s)
  <1>1. DOMAIN m = Ids(s)
    BY DEF RebuiltIndex
  <1>2. Ids(s) \subseteq Nat
    BY SliceShape DEF Ids
  <1>3. ASSUME NEW id \in Ids(s) PROVE m[id] \in DOMAIN s
    <2>1. PICK i \in DOMAIN s : s[i].id = id
      BY DEF Ids
    <2>2. \A j \in (i + 1)..Len(s) : s[j].id # id
      BY <2>1, SliceShape DEF UniqueIds
    <2>3. m[id] = CHOOSE k \in DOMAIN s : s[k].id = id /\ \A j \in (k + 1)..Len(s) : s[j].id # id
      BY DEF RebuiltIndex
    <2>4. QED BY <2>1, <2>2, <2>3
  <1>4. DOMAIN s \subseteq Nat \ {0}
    BY SliceShape
  <1>5. QED BY <1>1, <1>2, <1>3, <1>4

\* A non-empty set of numbers up to n has a largest element, which MaxOf is.
LEMMA MaxOfIsBound ==
    ASSUME NEW n \in Nat, NEW S \in SUBSET (1..n)
    PROVE  MaxOf(S) \in 0..n /\ \A x \in S : x <= MaxOf(S)
  <1>1. CASE S = {}
    BY <1>1 DEF MaxOf
  <1>2. CASE S # {}
    <2> DEFINE T == {n - x : x \in S}
    <2>0. \A x \in S : x \in 1..n /\ n - x \in Nat
      OBVIOUS
    <2>1. T \subseteq Nat /\ T # {}
      BY <1>2, <2>0
    <2>2. PICK m \in T : \A y \in T : ~ (<<y, m>> \in OpToRel(<, Nat))
      <3> HIDE DEF T
      <3>1. QED BY <2>1, WFMin, NatLessThanWellFounded
    <2>3. \A y \in T : m <= y
      <3>1. ASSUME NEW y \in Nat, NEW k \in Nat, ~ (<<y, k>> \in OpToRel(<, Nat))
            PROVE  k <= y
        BY <3>1 DEF OpToRel
      <3> HIDE DEF T
      <3>2. QED BY <3>1, <2>1, <2>2
    <2>4. PICK x \in S : m = n - x
      BY <2>2
    <2>5. \A y \in S : y <= x
      BY <2>0, <2>3, <2>4
    <2>6. MaxOf(S) \in S /\ \A y \in S : y <= MaxOf(S)
      BY <1>2, <2>5 DEF MaxOf
    <2>7. MaxOf(S) \in 1..n
      BY <2>6
    <2> HIDE DEF T
    <2>8. QED BY <2>6, <2>7
  <1>3. QED BY <1>1, <1>2

(***************************************************************************)
(* Lookup.                                                                   *)
(***************************************************************************)

\* A lookup finds an event exactly when there is one, and it is that one.
LEMMA PositionExact ==
    ASSUME IInv, NEW id
    PROVE  /\ (Position(id) # 0) <=> (id \in Ids(events))
           /\ Position(id) # 0 => Position(id) \in DOMAIN events /\ events[Position(id)].id = id
  <1>1. Len(events) \in Nat /\ DOMAIN events = 1..Len(events)
    BY SliceShape DEF IInv, Numbered
  <1>2. CASE Trusted(id)
    <2>1. eventByID[id] \in DOMAIN events /\ events[eventByID[id]].id = id
      BY <1>1, <1>2 DEF Trusted, IInv, Positions
    <2>2. Position(id) = eventByID[id]
      BY <1>2 DEF Position
    <2>3. QED BY <1>1, <2>1, <2>2 DEF Ids
  <1>3. CASE ~Trusted(id) /\ id \in Ids(events)
    <2>1. PICK i \in DOMAIN events : events[i].id = id
      BY <1>3 DEF Ids
    <2>2. \A j \in 1..(i - 1) : events[j].id # id
      BY <2>1, <1>1 DEF IInv, Numbered, UniqueIds
    <2>3. FirstAt(events, id) \in DOMAIN events /\ events[FirstAt(events, id)].id = id
      BY <2>1, <2>2 DEF FirstAt
    <2>4. Position(id) = FirstAt(events, id)
      BY <1>3 DEF Position
    <2>5. QED BY <1>1, <1>3, <2>3, <2>4
  <1>4. CASE ~Trusted(id) /\ id \notin Ids(events)
    BY <1>4 DEF Position
  <1>5. QED BY <1>2, <1>3, <1>4

(***************************************************************************)
(* The inductive step.                                                       *)
(***************************************************************************)

\* A write that succeeds or fails leaves a good file.
LEMMA PersistKeeps ==
    ASSUME IInv, NEW s, Numbered(s, MaxID), Persist(s)
    PROVE  Numbered(eventsFile, MaxID)'
  BY DEF Persist, IInv

LEMMA CreateKeeps == ASSUME IInv, NEW d \in Data, CreateEvent(d) PROVE IInv'
  <1> DEFINE e == [id |-> nextEventID', data |-> d]
  <1>1. /\ nextEventID' = nextEventID + 1 /\ nextEventID' \in 1..MaxID
        /\ nextEventID \in Nat /\ events' = Append(events, e)
    BY MaxIDAssumption DEF CreateEvent, IInv
  <1>2. e \in Event /\ e.id = nextEventID'
    BY <1>1 DEF Event
  <1>3. events \in Seq(Event) /\ Len(events) \in Nat /\ DOMAIN events = 1..Len(events)
    BY SliceShape DEF IInv, Numbered
  <1> HIDE DEF e
  <1>4. /\ events' \in Seq(Event) /\ Len(events') = Len(events) + 1
        /\ DOMAIN events' = 1..(Len(events) + 1)
        /\ \A i \in 1..Len(events) : events'[i] = events[i]
        /\ events'[Len(events) + 1] = e
    BY <1>1, <1>2, <1>3, AppendProperties, SliceShape
  <1>5. \A i \in 1..Len(events) : events[i].id \in 1..nextEventID
    BY <1>3 DEF IInv, Numbered
  <1>6. UniqueIds(events')
    <2> SUFFICES ASSUME NEW i \in 1..(Len(events) + 1), NEW j \in 1..(Len(events) + 1),
                        events'[i].id = events'[j].id
                 PROVE  i = j
      BY <1>4 DEF UniqueIds
    <2>1. CASE i \in 1..Len(events) /\ j \in 1..Len(events)
      BY <2>1, <1>3, <1>4 DEF IInv, Numbered, UniqueIds
    <2>2. CASE i = Len(events) + 1 /\ j \in 1..Len(events)
      BY <2>2, <1>1, <1>2, <1>4, <1>5
    <2>3. CASE i \in 1..Len(events) /\ j = Len(events) + 1
      BY <2>3, <1>1, <1>2, <1>4, <1>5
    <2>4. QED BY <2>1, <2>2, <2>3, <1>3
  <1>7. \A i \in DOMAIN events' : events'[i].id \in 1..nextEventID'
    <2> TAKE i \in DOMAIN events'
    <2>1. CASE i \in 1..Len(events)
      BY <2>1, <1>1, <1>4, <1>5
    <2>2. CASE i = Len(events) + 1
      BY <2>2, <1>1, <1>2, <1>4
    <2>3. QED BY <2>1, <2>2, <1>3, <1>4
  <1>8. Numbered(events, nextEventID)' /\ Numbered(events', MaxID)
    BY <1>1, <1>4, <1>6, <1>7, MaxIDAssumption DEF Numbered
  <1>9. Numbered(eventsFile, MaxID)'
    BY <1>8, PersistKeeps DEF CreateEvent
  <1>10. Positions'
    <2>1. Len(events') \in Nat \ {0}
      BY <1>3, <1>4
    <2>2. eventByID' = [id \in DOMAIN eventByID \cup {nextEventID'} |->
                          IF id = nextEventID' THEN Len(events') ELSE eventByID[id]]
      BY DEF CreateEvent
    <2>3. nextEventID' \in Nat
      BY <1>1
    <2>4. QED BY <2>1, <2>2, <2>3 DEF IInv, Positions
  <1>11. QED BY <1>1, <1>8, <1>9, <1>10 DEF IInv

\* A rewrite in place keeps the IDs.
LEMMA InPlaceKeeps ==
    ASSUME IInv, UNCHANGED nextEventID, Persist(events'),
           events' \in [DOMAIN events -> Event],
           \A i \in DOMAIN events : events'[i].id = events[i].id
    PROVE  Numbered(events, nextEventID)' /\ Numbered(eventsFile, MaxID)'
  <1>1. events \in Seq(Event) /\ Len(events) \in Nat /\ DOMAIN events = 1..Len(events)
    BY SliceShape DEF IInv, Numbered
  <1>2. events' \in Seq(Event) /\ DOMAIN events' = DOMAIN events
    BY <1>1, FunctionIsSeq
  <1>3. Numbered(events', nextEventID)
    BY <1>2 DEF IInv, Numbered, UniqueIds
  <1>4. Numbered(events', MaxID)
    BY <1>3, LargerBound, MaxIDAssumption DEF IInv
  <1>5. QED BY <1>3, <1>4, PersistKeeps

LEMMA UpdateKeeps ==
    ASSUME IInv, NEW id, NEW d \in Data, UpdateEvent(id, d) PROVE IInv'
  <1> DEFINE p == Position(id)
  <1>1. p \in DOMAIN events /\ events[p].id = id
    BY PositionExact DEF UpdateEvent
  <1>2. events \in Seq(Event) /\ DOMAIN events = 1..Len(events) /\ Len(events) \in Nat
        /\ \A i \in DOMAIN events : events[i] \in Event /\ events[i].id \in Nat
    BY SliceShape DEF IInv, Numbered
  <1>3. [id |-> id, data |-> d] \in Event
    BY <1>1, <1>2 DEF Event
  <1>4. events' = [events EXCEPT ![p] = [id |-> id, data |-> d]]
    BY DEF UpdateEvent
  <1> HIDE DEF p
  <1>5. events \in [DOMAIN events -> Event]
    BY <1>2, LenProperties
  <1>6. /\ events' \in [DOMAIN events -> Event]
        /\ \A i \in DOMAIN events : events'[i].id = events[i].id
    BY <1>1, <1>3, <1>4, <1>5
  <1>7. Numbered(events, nextEventID)' /\ Numbered(eventsFile, MaxID)'
    BY <1>6, InPlaceKeeps DEF UpdateEvent
  <1>8. Positions'
    <2>1. eventByID' = [x \in DOMAIN eventByID \cup {id} |-> IF x = id THEN p ELSE eventByID[x]]
      BY DEF UpdateEvent, p
    <2>2. p \in Nat \ {0} /\ id \in Nat
      BY <1>1, <1>2
    <2>3. QED BY <2>1, <2>2 DEF IInv, Positions
  <1>9. QED BY <1>7, <1>8 DEF IInv, UpdateEvent

LEMMA BulkRewriteKeeps ==
    ASSUME IInv, NEW match, NEW change \in [Data -> Data], BulkRewrite(match, change)
    PROVE  IInv'
  <1>1. \A i \in DOMAIN events : /\ events[i] \in Event
                                 /\ change[events[i].data] \in Data
    BY SliceShape DEF IInv, Numbered
  <1>2. \A e \in Event, d \in Data : [e EXCEPT !.data = d] \in Event /\ [e EXCEPT !.data = d].id = e.id
    BY DEF Event
  <1>3. events' = [i \in DOMAIN events |->
                     IF i \in Selected(match)
                     THEN [events[i] EXCEPT !.data = change[events[i].data]]
                     ELSE events[i]]
    BY DEF BulkRewrite
  <1>4. /\ events' \in [DOMAIN events -> Event]
        /\ \A i \in DOMAIN events : events'[i].id = events[i].id
    BY <1>1, <1>2, <1>3
  <1>5. QED BY <1>4, InPlaceKeeps DEF BulkRewrite, IInv, Positions

\* A part of the slice takes its place.
LEMMA PartReplaces ==
    ASSUME IInv, UNCHANGED nextEventID, Persist(events'),
           NEW k \in Nat, NEW at \in [1..k -> DOMAIN events],
           \A i, j \in 1..k : at[i] = at[j] => i = j,
           events' = [i \in 1..k |-> events[at[i]]]
    PROVE  /\ Numbered(events, nextEventID)' /\ Numbered(eventsFile, MaxID)'
           /\ events' \in Seq(Event) /\ UniqueIds(events')
  <1>1. \A i \in 1..k : at[i] \in DOMAIN events /\ events[at[i]] \in Event
    BY SliceShape DEF IInv, Numbered
  <1>2. events' \in [1..k -> Event]
    BY <1>1
  <1>3. events' \in Seq(Event) /\ Len(events') = k
    BY <1>2, FunctionIsSeq
  <1>4. \A i \in 1..k : events'[i].id = events[at[i]].id
    OBVIOUS
  <1>5. Numbered(events', nextEventID)
    BY <1>3, <1>4, PartKeepsNumbers DEF IInv
  <1>6. Numbered(events', MaxID)
    BY <1>5, LargerBound, MaxIDAssumption DEF IInv
  <1>7. QED BY <1>5, <1>6, PersistKeeps DEF Numbered

LEMMA DeleteKeeps == ASSUME IInv, NEW id, DeleteEvent(id) PROVE IInv'
  <1> DEFINE p == Position(id)
             k == Len(events) - 1
             at == [i \in 1..k |-> IF i < p THEN i ELSE i + 1]
  <1>1. p \in DOMAIN events
    BY PositionExact DEF DeleteEvent
  <1>2. events \in Seq(Event) /\ DOMAIN events = 1..Len(events) /\ Len(events) \in Nat
    BY SliceShape DEF IInv, Numbered
  <1>3. k \in Nat /\ p \in 1..(k + 1)
    BY <1>1, <1>2
  <1>4. events' = [i \in 1..k |-> IF i < p THEN events[i] ELSE events[i + 1]]
    BY DEF DeleteEvent, WithoutPosition
  <1>5. at \in [1..k -> DOMAIN events] /\ \A i, j \in 1..k : at[i] = at[j] => i = j
    <2> HIDE DEF p
    <2>1. QED BY <1>2, <1>3
  <1>6. events' = [i \in 1..k |-> events[at[i]]]
    BY <1>4
  <1>7. UNCHANGED nextEventID /\ Persist(events') /\ eventByID' = RebuiltIndex(events')
    BY DEF DeleteEvent
  <1> HIDE DEF p, k, at
  <1>8. /\ Numbered(events, nextEventID)' /\ Numbered(eventsFile, MaxID)'
        /\ events' \in Seq(Event) /\ UniqueIds(events')
    BY <1>3, <1>5, <1>6, <1>7, PartReplaces
  <1>9. Positions'
    BY <1>7, <1>8, RebuiltPositions DEF Positions
  <1>10. QED BY <1>7, <1>8, <1>9 DEF IInv

LEMMA BulkDeleteKeeps == ASSUME IInv, NEW match, BulkDeleteEvents(match) PROVE IInv'
  <1> DEFINE kept == DOMAIN events \ Selected(match)
             k == Cardinality(kept)
  <1>1. DOMAIN events = 1..Len(events) /\ Len(events) \in Nat
    BY SliceShape DEF IInv, Numbered
  <1>2. kept \subseteq 1..Len(events) /\ IsFiniteSet(kept)
    <2>1. kept \subseteq 1..Len(events)
      BY <1>1
    <2>2. IsFiniteSet(1..Len(events))
      BY <1>1, FS_Interval
    <2> HIDE DEF kept
    <2>3. QED BY <2>1, <2>2, FS_Subset
  <1>3. k \in Nat
    BY <1>2, FS_CardinalityType
  <1>4. PICK at \in [1..k -> kept] :
           /\ \A i, j \in DOMAIN at : i < j => at[i] < at[j]
           /\ events' = [i \in DOMAIN at |-> events[at[i]]]
    BY DEF BulkDeleteEvents
  <1>5. at \in [1..k -> DOMAIN events] /\ DOMAIN at = 1..k
    BY <1>4
  <1>6. \A i, j \in 1..k : at[i] = at[j] => i = j
    <2> SUFFICES ASSUME NEW i \in 1..k, NEW j \in 1..k, i < j PROVE at[i] # at[j]
      BY <1>3
    <2>1. at[i] < at[j]
      BY <1>4, <1>5
    <2>2. at[i] \in 1..Len(events) /\ at[j] \in 1..Len(events)
      BY <1>1, <1>5
    <2>3. QED BY <1>1, <2>1, <2>2
  <1>7. UNCHANGED <<nextEventID, eventByID>> /\ Persist(events')
    BY DEF BulkDeleteEvents
  <1> HIDE DEF k, kept
  <1>8. Numbered(events, nextEventID)' /\ Numbered(eventsFile, MaxID)'
    BY <1>3, <1>4, <1>5, <1>6, <1>7, PartReplaces
  <1>9. QED BY <1>7, <1>8 DEF IInv, Positions

LEMMA ResetKeeps == ASSUME IInv, ResetToEmpty \/ ResetDatabase PROVE IInv'
  <1>1. events' = <<>> /\ nextEventID' = 0 /\ Persist(<<>>)
    BY DEF ResetToEmpty, ResetDatabase
  <1>2. Numbered(events, nextEventID)' /\ Numbered(eventsFile, MaxID)'
    BY <1>1, EmptyNumbered, PersistKeeps
  <1>3. Positions'
    BY DEF ResetToEmpty, ResetDatabase, IInv, Positions
  <1>4. QED BY <1>1, <1>2, <1>3, MaxIDAssumption DEF IInv

LEMMA LoadKeeps == ASSUME IInv, Load PROVE IInv'
  <1>1. /\ events' = eventsFile /\ eventsFile' = eventsFile
        /\ nextEventID' = MaxOf(Ids(eventsFile)) /\ eventByID' = RebuiltIndex(eventsFile)
    BY DEF Load
  <1>2. Ids(eventsFile) \in SUBSET (1..MaxID)
    BY DEF IInv, Numbered, Ids
  <1>3. nextEventID' \in 0..MaxID /\ \A x \in Ids(eventsFile) : x <= nextEventID'
    BY <1>1, <1>2, MaxOfIsBound, MaxIDAssumption
  <1>4. \A i \in DOMAIN eventsFile : eventsFile[i].id \in 1..nextEventID'
    BY <1>2, <1>3, MaxIDAssumption DEF Ids
  <1>5. Numbered(events, nextEventID)'
    BY <1>1, <1>4 DEF IInv, Numbered
  <1>6. Positions'
    BY <1>1, RebuiltPositions DEF IInv, Numbered, Positions
  <1>7. QED BY <1>1, <1>3, <1>5, <1>6 DEF IInv

LEMMA IInvInductive == IInv /\ [Next]_vars => IInv'
  <1> SUFFICES ASSUME IInv, [Next]_vars PROVE IInv'
    OBVIOUS
  <1>1. ASSUME NEW match \in SUBSET Data, NEW change \in [Data -> Data],
               \/ BulkSetEventStatus(match, change) \/ BulkSetEventType(match, change)
               \/ BulkMoveEventsToLayer(match, change) \/ DeleteLayer(match, change)
        PROVE  IInv'
    BY <1>1, BulkRewriteKeeps
    DEF BulkSetEventStatus, BulkSetEventType, BulkMoveEventsToLayer, DeleteLayer
  <1>2. CASE FlushAll
    <2>1. Numbered(events, MaxID)
      BY LargerBound, MaxIDAssumption DEF IInv
    <2>2. Numbered(eventsFile, MaxID)'
      BY <1>2, <2>1, PersistKeeps DEF FlushAll
    <2>3. QED BY <1>2, <2>2 DEF FlushAll, IInv, Positions
  <1>3. CASE UNCHANGED vars
    BY <1>3 DEF vars, IInv, Positions
  <1>4. QED
    BY <1>1, <1>2, <1>3, CreateKeeps, UpdateKeeps, DeleteKeeps, BulkDeleteKeeps,
       ResetKeeps, LoadKeeps DEF Next

\* Every reachable state satisfies the strengthened invariant.
THEOREM AlwaysIInv == Spec => []IInv
  <1>1. Init => IInv
    BY EmptyNumbered, MaxIDAssumption DEF Init, IInv, Positions
  <1>2. QED BY <1>1, IInvInductive, PTL DEF Spec

\* The variables keep their types.
THEOREM TypesHold == Spec => []TypeOK
  <1>1. IInv => TypeOK
    BY DEF IInv, Numbered, Positions, TypeOK
  <1>2. QED BY <1>1, AlwaysIInv, PTL

\* No two events share an ID, in memory or on disk (CreateEvent, load).
THEOREM IdsAlwaysUnique == Spec => []IdsUnique
  <1>1. IInv => IdsUnique
    BY DEF IInv, Numbered, IdsUnique
  <1>2. QED BY <1>1, AlwaysIInv, PTL

\* GetEventByID, UpdateEvent and DeleteEvent act on the event they were asked
\* for, however stale the map is.
THEOREM LookupAlwaysExact == Spec => []LookupExact
  <1>1. IInv => LookupExact
    BY PositionExact DEF LookupExact
  <1>2. QED BY <1>1, AlwaysIInv, PTL

=============================================================================
