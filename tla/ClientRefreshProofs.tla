------------------------ MODULE ClientRefreshProofs ------------------------
(***************************************************************************)
(* Calls of refreshAll are honoured, for any collections, ranges of days and    *)
(* number of versions and faults.                                            *)
(***************************************************************************)
EXTENDS ClientRefresh, TLAPS

Running == PartOf("refresh", fetches)

\* The types, but for those of the refresh itself.
Types ==
    /\ server \in [Collections -> 1..MaxVersion] /\ wanted \in [Collections -> 1..MaxVersion]
    /\ data \in [Collections -> 0..MaxVersion] /\ view \in Views /\ span \in Views
    /\ frame \in Views \cup {NoView} /\ drawn \in BOOLEAN
    /\ faults \in 0..MaxFaults

Refreshes == /\ inFlight \in BOOLEAN /\ queued \in BOOLEAN /\ spoiled \in BOOLEAN
             /\ queued => inFlight
             /\ inFlight = (Running # {})

\* What is under way; events are asked for with their days.
IsFetch(f) == f \in Fetch /\ (f.of = "events" => f.view \in Views)

\* What the running refresh brings, or has brought, is what was asked for last.
Fresh ==
    /\ \A f \in Running : /\ f.version # 0 => f.version >= wanted[f.of]
                          /\ f.of = "events" => f.view = view
    /\ \A c \in Collections : data[c] >= wanted[c] \/ \E f \in Running : f.of = c
    /\ span = view \/ \E f \in Running : f.of = "events"

Inv == /\ Types /\ Refreshes
       /\ \A f \in fetches : IsFetch(f)
       /\ \A c \in Collections : wanted[c] <= server[c]
       /\ ~spoiled /\ ~queued => Fresh

LEMMA InvHonours == Inv => RequestsHonoured
  BY DEF Inv, Types, Refreshes, IsFetch, Fresh, RequestsHonoured, TypeOK, Running

\* A refresh that starts fetches what is wanted.
LEMMA BatchFetches ==
    ASSUME NEW v \in Views
    PROVE  /\ \A f \in Batch(v) : /\ IsFetch(f) /\ f.by = "refresh" /\ f.version = Pending
                                  /\ f.of = "events" => f.view = v
           /\ \A c \in Collections : \E f \in Batch(v) : f.of = c
  <1>1. Pending \in 0..Pending
    BY RefreshAssumption DEF Pending
  <1>2. \A c \in Collections : Asked(c, "refresh", v) \in Batch(v)
    BY DEF Batch
  <1>3. \A c \in Collections : Asked(c, "refresh", v).of = c
    BY DEF Asked
  <1>4. \A c \in Collections :
           LET f == Asked(c, "refresh", v)
           IN  /\ IsFetch(f) /\ f.by = "refresh" /\ f.version = Pending
               /\ f.of = "events" => f.view = v
    BY <1>1 DEF Asked, IsFetch, Fetch
  <1>5. \A f \in Batch(v) : \E c \in Collections : f = Asked(c, "refresh", v)
    BY DEF Batch
  <1>6. ASSUME NEW f \in Batch(v)
        PROVE  /\ IsFetch(f) /\ f.by = "refresh" /\ f.version = Pending
               /\ f.of = "events" => f.view = v
    BY <1>4, <1>5
  <1> QED BY <1>2, <1>3, <1>6

LEMMA StartsInv ==
    ASSUME Types', server \in [Collections -> 1..MaxVersion],
           server' = server, wanted' = server
    PROVE  \A others : /\ Starts(view', others)
                       /\ \A f \in others : IsFetch(f) /\ f.by # "refresh"
                       => Inv'
  <1> SUFFICES ASSUME NEW others, Starts(view', others),
                      \A f \in others : IsFetch(f) /\ f.by # "refresh"
               PROVE  Inv'
    OBVIOUS
  <1>1. Pending \in Nat /\ MaxVersion \in Nat /\ MaxVersion < Pending
    BY RefreshAssumption DEF Pending
  <1>2. fetches' = others \cup Batch(view') /\ inFlight' = TRUE /\ queued' = FALSE
        /\ spoiled' = (others # {})
    BY DEF Starts
  <1>3. view' \in Views
    BY DEF Types
  <1>4. Running' = Batch(view')
    BY <1>2, <1>3, BatchFetches DEF Running, PartOf
  <1>5. Refreshes'
    <2>1. Batch(view') # {}
      BY <1>3, BatchFetches, RefreshAssumption
    <2> QED BY <2>1, <1>2, <1>4 DEF Refreshes
  <1>6. \A f \in fetches' : IsFetch(f)
    BY <1>2, <1>3, BatchFetches
  <1>7. Fresh'
    <2>1. ASSUME NEW f \in Running' PROVE f.version >= wanted'[f.of]
      <3>1. f.version = Pending /\ f.of \in Collections
        BY <1>3, <1>4, BatchFetches DEF IsFetch, Fetch
      <3> QED BY <3>1, <1>1 DEF Types
    <2>2. \A f \in Running' : f.of = "events" => f.view = view'
      BY <1>3, <1>4, BatchFetches
    <2>3. \A c \in Collections : \E f \in Running' : f.of = c
      BY <1>3, <1>4, BatchFetches
    <2> QED BY <2>1, <2>2, <2>3, RefreshAssumption DEF Fresh
  <1>8. \A c \in Collections : wanted'[c] <= server'[c]
    BY DEF Types
  <1> QED BY <1>5, <1>6, <1>7, <1>8 DEF Inv, IsFetch

LEMMA InitInv == Init => Inv
  <1> SUFFICES ASSUME Init PROVE Inv
    OBVIOUS
  <1>1. fetches = Batch(view) /\ view \in Views /\ span = view /\ frame = NoView
    BY DEF Init
  <1>2. Types
    <2>1. MaxFaults \in Nat /\ MaxVersion \in Nat /\ 1 <= MaxVersion
      BY RefreshAssumption
    <2>2. /\ server = [c \in Collections |-> 1] /\ wanted = server
          /\ data = [c \in Collections |-> 0] /\ drawn = FALSE /\ faults = 0
      BY DEF Init
    <2>3. /\ server \in [Collections -> 1..MaxVersion]
          /\ data \in [Collections -> 0..MaxVersion] /\ faults \in 0..MaxFaults
      BY <2>1, <2>2
    <2> QED BY <1>1, <2>2, <2>3 DEF Types
  <1>7. Running = Batch(view)
    BY <1>1, BatchFetches DEF Running, PartOf
  <1>3. Refreshes
    <2>1. Batch(view) # {}
      BY <1>1, BatchFetches, RefreshAssumption DEF Types
    <2> QED BY <2>1, <1>7 DEF Refreshes, Init
  <1>4. \A f \in fetches : IsFetch(f)
    BY <1>1, BatchFetches DEF Types
  <1>5. \A c \in Collections : wanted[c] <= server[c]
    BY DEF Init
  <1>6. Fresh
    <2>1. ASSUME NEW f \in Running PROVE f.version >= wanted[f.of]
      <3>1. f.version = Pending /\ f.of \in Collections
        BY <1>1, <1>2, <1>7, BatchFetches DEF IsFetch, Fetch, Types
      <3> QED BY <3>1, <1>2, RefreshAssumption DEF Types, Pending
    <2>2. \A f \in Running : f.of = "events" => f.view = view
      BY <1>1, <1>2, <1>7, BatchFetches DEF Types
    <2>3. span = view
      BY DEF Init
    <2>4. \A c \in Collections : \E f \in Running : f.of = c
      BY <1>1, <1>2, <1>7, BatchFetches DEF Types
    <2> QED BY <2>1, <2>2, <2>3, <2>4 DEF Fresh
  <1> QED BY <1>2, <1>3, <1>4, <1>5, <1>6 DEF Inv

(***************************************************************************)
(* Fetches.                                                                  *)
(***************************************************************************)
LEMMA AnsweredInv == ASSUME Inv, NEW f \in fetches, Answered(f) PROVE Inv'
  <1>1. PICK n \in {0, server[f.of]} :
           /\ fetches' = (fetches \ {f}) \cup {[f EXCEPT !.version = n]}
           /\ faults' \in 0..MaxFaults
    <2>1. faults \in 0..MaxFaults /\ MaxFaults \in Nat
      BY RefreshAssumption DEF Inv, Types
    <2> QED BY <2>1 DEF Answered
  <1> DEFINE g == [f EXCEPT !.version = n]
  <1>2. UNCHANGED <<server, view, inFlight, queued, data, span, frame, drawn, wanted, spoiled>>
    BY DEF Answered, refresh, held, screen, history
  <1>3. IsFetch(f)
    BY DEF Inv
  <1>4. n \in 0..Pending
    BY <1>3, RefreshAssumption DEF Inv, Types, IsFetch, Fetch, Pending
  <1>5. /\ IsFetch(g)
        /\ g.of = f.of /\ g.by = f.by /\ g.view = f.view /\ g.version = n
    BY <1>3, <1>4 DEF IsFetch, Fetch
  <1>6. Types' /\ \A c \in Collections : wanted'[c] <= server'[c]
    BY <1>1, <1>2 DEF Inv, Types
  <1>7. \A h \in fetches' : IsFetch(h)
    <2>1. \A h \in fetches' : h \in fetches \/ h = g
      BY <1>1
    <2>2. \A h \in fetches : IsFetch(h)
      BY DEF Inv
    <2> QED BY <2>1, <2>2, <1>5
  <1>8. \A h \in Running' : h \in Running \/ (h = g /\ f \in Running)
    BY <1>1, <1>5 DEF Running, PartOf
  <1>9. \A h \in Running : h \in Running' \/ (h = f /\ g \in Running')
    BY <1>1, <1>5 DEF Running, PartOf
  <1>10. Refreshes'
    BY <1>2, <1>8, <1>9 DEF Inv, Refreshes
  <1>11. ASSUME Fresh PROVE Fresh'
    <2>1. ASSUME NEW h \in Running'
          PROVE  /\ h.version # 0 => h.version >= wanted[h.of]
                 /\ h.of = "events" => h.view = view
      <3>1. CASE h \in Running
        BY <3>1, <1>11 DEF Fresh
      <3>2. CASE h = g /\ f \in Running
        <4>1. f.of = "events" => f.view = view
          BY <3>2, <1>11 DEF Fresh
        <4>2. f.of \in Collections /\ wanted[f.of] <= server[f.of]
          BY <1>3 DEF IsFetch, Fetch, Inv
        <4>3. wanted[f.of] \in Nat /\ server[f.of] \in Nat
          BY <4>2, RefreshAssumption DEF Inv, Types
        <4> QED BY <4>1, <4>2, <4>3, <3>2, <1>5
      <3> QED BY <3>1, <3>2, <1>8
    <2>2. \A c \in Collections : (\E h \in Running : h.of = c) => \E h \in Running' : h.of = c
      BY <1>5, <1>9
    <2>3. "events" \in Collections
      BY RefreshAssumption
    <2>4. \A h \in Running' : /\ h.version # 0 => h.version >= wanted'[h.of]
                              /\ h.of = "events" => h.view = view'
      BY <2>1, <1>2
    <2>5. \A c \in Collections : data'[c] >= wanted'[c] \/ \E h \in Running' : h.of = c
      BY <2>2, <1>2, <1>11 DEF Fresh
    <2>6. span' = view' \/ \E h \in Running' : h.of = "events"
      BY <2>2, <2>3, <1>2, <1>11 DEF Fresh
    <2> QED BY <2>4, <2>5, <2>6 DEF Fresh
  <1>12. ~spoiled' /\ ~queued' => Fresh'
    BY <1>2, <1>11 DEF Inv
  <1> QED BY <1>6, <1>7, <1>10, <1>12 DEF Inv, IsFetch

\* What an answer does to the data.
LEMMA StoresData ==
    ASSUME Inv, NEW f \in fetches, f.version # Pending, Stores(f),
           UNCHANGED <<server, view>>
    PROVE  /\ data' \in [Collections -> 0..MaxVersion] /\ span' \in Views /\ drawn' \in BOOLEAN
           /\ f.of \in Collections /\ f.version \in 0..MaxVersion
           /\ \A c \in Collections \ {f.of} : data'[c] = data[c]
           /\ f.of # "events" => span' = span
           /\ ~Spoils(f) => /\ f.version # 0 /\ data'[f.of] = f.version
                            /\ f.version >= data[f.of]
                            /\ f.of = "events" => span' = view
  <1>1. IsFetch(f) /\ Types
    BY DEF Inv
  <1>2. /\ f.of \in Collections /\ f.version \in 0..Pending
        /\ f.of = "events" => f.view \in Views
    BY <1>1 DEF IsFetch, Fetch
  <1>3. f.version \in 0..MaxVersion
    BY <1>2, RefreshAssumption DEF Pending
  <1>4. /\ data \in [Collections -> 0..MaxVersion] /\ span \in Views /\ view \in Views
        /\ drawn \in BOOLEAN
    BY <1>1 DEF Types
  <1>5. data' = data \/ data' = [data EXCEPT ![f.of] = f.version]
    BY DEF Stores
  <1>6. span' \in Views /\ drawn' \in BOOLEAN /\ (f.of # "events" => span' = span)
    BY <1>2, <1>4 DEF Stores
  <1>7. ASSUME ~Spoils(f)
        PROVE  /\ f.version # 0 /\ data'[f.of] = f.version /\ f.version >= data[f.of]
               /\ f.of = "events" => span' = view
    <2>1. f.version # 0 /\ ~(f.version < data[f.of]) /\ f.view \in {view, NoView}
      BY <1>7 DEF Spoils
    <2>2. data[f.of] \in 0..MaxVersion /\ MaxVersion \in Nat
      BY <1>2, <1>4, RefreshAssumption
    <2>3. f.version >= data[f.of]
      BY <2>1, <2>2, <1>3
    <2>4. data' = [data EXCEPT ![f.of] = f.version]
      BY <2>1 DEF Stores
    <2>5. f.of = "events" => f.view = view /\ span' = f.view
      BY <2>1, <1>2, RefreshAssumption DEF Stores, NoView
    <2> QED BY <2>1, <2>3, <2>4, <2>5, <1>2, <1>4
  <1> QED BY <1>2, <1>3, <1>4, <1>5, <1>6, <1>7

\* The last of a refresh, or an answer beside others of its refresh.
LEMMA ArrivesForRefreshInv ==
    ASSUME Inv, NEW f \in fetches, ArrivesForRefresh(f) PROVE Inv'
  <1>1. /\ f \in Running /\ f.by = "refresh" /\ f.version # Pending
        /\ Stores(f) /\ UNCHANGED <<server, view, faults>>
    BY DEF ArrivesForRefresh, Running, PartOf
  <1>2. /\ data' \in [Collections -> 0..MaxVersion] /\ span' \in Views /\ drawn' \in BOOLEAN
        /\ f.of \in Collections /\ f.version \in 0..MaxVersion
        /\ \A c \in Collections \ {f.of} : data'[c] = data[c]
        /\ f.of # "events" => span' = span
        /\ ~Spoils(f) => /\ f.version # 0 /\ data'[f.of] = f.version
                         /\ f.of = "events" => span' = view
    BY <1>1, StoresData
  <1>3. frame' \in Views \cup {NoView}
    BY <1>1 DEF ArrivesForRefresh, Draws, Inv, Types
  <1>4. \A g \in fetches : IsFetch(g)
    BY DEF Inv
  <1>5. \A c \in Collections : wanted[c] <= server[c]
    BY DEF Inv
  <1>6. /\ server \in [Collections -> 1..MaxVersion] /\ wanted \in [Collections -> 1..MaxVersion]
        /\ view \in Views /\ faults \in 0..MaxFaults
    BY DEF Inv, Types
  <1>7. CASE Running = {f} /\ queued
    <2>1. /\ Starts(view', fetches \ {f}) /\ wanted' = server /\ server' = server
      BY <1>1, <1>7 DEF ArrivesForRefresh, Running, Ends
    <2>2. Types'
      BY <1>1, <1>2, <1>3, <1>6, <2>1 DEF Types
    <2>3. \A g \in fetches \ {f} : IsFetch(g) /\ g.by # "refresh"
      BY <1>4, <1>7 DEF Running, PartOf
    <2> QED BY <1>6, <2>1, <2>2, <2>3, StartsInv
  <1>8. CASE ~(Running = {f} /\ queued)
    <2>1. /\ fetches' = fetches \ {f} /\ spoiled' = (spoiled \/ Spoils(f))
          /\ wanted' = wanted /\ queued' = queued
          /\ inFlight' = IF Running = {f} THEN FALSE ELSE inFlight
      BY <1>1, <1>8 DEF ArrivesForRefresh, Running, Ends, refresh
    <2>2. Types'
      BY <1>1, <1>2, <1>3, <1>6, <2>1 DEF Types
    <2>3. Running' = Running \ {f}
      BY <2>1 DEF Running, PartOf
    <2>4. Refreshes'
      BY <1>1, <1>8, <2>1, <2>3 DEF Inv, Refreshes
    <2>5. ASSUME ~spoiled', ~queued' PROVE Fresh'
      <3>1. Fresh /\ ~Spoils(f)
        BY <2>1, <2>5 DEF Inv
      <3>2. f.version >= wanted[f.of]
        BY <1>1, <1>2, <3>1 DEF Fresh
      <3>3. \A g \in Running' : /\ g.version # 0 => g.version >= wanted'[g.of]
                                /\ g.of = "events" => g.view = view'
        BY <1>1, <2>1, <2>3, <3>1 DEF Fresh
      <3>4. ASSUME NEW c \in Collections
            PROVE  data'[c] >= wanted'[c] \/ \E g \in Running' : g.of = c
        <4>1. CASE c = f.of
          BY <1>2, <2>1, <3>1, <3>2, <4>1
        <4>2. CASE c # f.of
          BY <1>2, <2>1, <2>3, <3>1, <4>2 DEF Fresh
        <4> QED BY <4>1, <4>2
      <3>5. span' = view' \/ \E g \in Running' : g.of = "events"
        <4>1. CASE f.of = "events"
          BY <1>1, <1>2, <3>1, <4>1
        <4>2. CASE f.of # "events"
          BY <1>1, <1>2, <2>3, <3>1, <4>2 DEF Fresh
        <4> QED BY <4>1, <4>2
      <3> QED BY <3>3, <3>4, <3>5 DEF Fresh
    <2>6. \A c \in Collections : wanted'[c] <= server'[c]
      BY <1>1, <1>5, <2>1
    <2> QED BY <1>4, <2>1, <2>2, <2>4, <2>5, <2>6 DEF Inv, IsFetch
  <1> QED BY <1>7, <1>8

\* An answer to a handler or to a refresh that has failed.
LEMMA ArrivesAloneInv ==
    ASSUME Inv, NEW f \in fetches, ArrivesAlone(f) PROVE Inv'
  <1>1. /\ f \notin Running /\ f.version # Pending /\ Stores(f)
        /\ fetches' = fetches \ {f} /\ spoiled' = (spoiled \/ Spoils(f))
        /\ UNCHANGED <<server, view, inFlight, queued, wanted, faults>>
    BY DEF ArrivesAlone, Running, refresh
  <1>2. /\ data' \in [Collections -> 0..MaxVersion] /\ span' \in Views /\ drawn' \in BOOLEAN
        /\ f.of \in Collections /\ f.version \in 0..MaxVersion
        /\ \A c \in Collections \ {f.of} : data'[c] = data[c]
        /\ f.of # "events" => span' = span
        /\ ~Spoils(f) => /\ data'[f.of] = f.version /\ f.version >= data[f.of]
                         /\ f.of = "events" => span' = view
    BY <1>1, StoresData
  <1>3. Types'
    BY <1>1, <1>2 DEF ArrivesAlone, Draws, Inv, Types
  <1>4. Running' = Running
    BY <1>1 DEF Running, PartOf
  <1>5. Refreshes'
    BY <1>1, <1>4 DEF Inv, Refreshes
  <1>6. ASSUME ~spoiled', ~queued' PROVE Fresh'
    <2>1. Fresh /\ ~Spoils(f)
      BY <1>1, <1>6 DEF Inv
    <2>2. \A g \in Running' : /\ g.version # 0 => g.version >= wanted'[g.of]
                              /\ g.of = "events" => g.view = view'
      BY <1>1, <1>4, <2>1 DEF Fresh
    <2>3. ASSUME NEW c \in Collections, data[c] >= wanted[c] PROVE data'[c] >= wanted'[c]
      <3>1. data[c] \in Nat /\ data'[c] \in Nat /\ wanted[c] \in Nat
        BY <1>2, RefreshAssumption DEF Inv, Types
      <3>2. data'[c] >= data[c]
        BY <1>2, <2>1, <3>1
      <3> QED BY <1>1, <2>3, <3>1, <3>2
    <2>4. span = view => span' = view'
      BY <1>1, <1>2, <2>1
    <2> QED BY <1>4, <2>1, <2>2, <2>3, <2>4 DEF Fresh
  <1>7. \A g \in fetches' : IsFetch(g)
    BY <1>1 DEF Inv
  <1>8. \A c \in Collections : wanted'[c] <= server'[c]
    BY <1>1 DEF Inv
  <1> QED BY <1>3, <1>5, <1>6, <1>7, <1>8 DEF Inv, IsFetch

\* A refresh that fails leaves its other fetches behind.
LEMMA FailsInv == ASSUME Inv, NEW f \in fetches, Fails(f) PROVE Inv'
  <1>1. /\ UNCHANGED <<server, view, data, span, frame, drawn>> /\ faults' \in 0..MaxFaults
    <2>1. faults \in 0..MaxFaults /\ MaxFaults \in Nat
      BY RefreshAssumption DEF Inv, Types
    <2> QED BY <2>1 DEF Fails, held, screen
  <1>2. \A g \in fetches : IsFetch(g)
    BY DEF Inv
  <1>3. Types /\ \A c \in Collections : wanted[c] <= server[c]
    BY DEF Inv
  <1>4. CASE f.by # "refresh"
    <2>1. /\ fetches' = fetches \ {f} /\ spoiled' = TRUE
          /\ UNCHANGED <<inFlight, queued, wanted>>
      BY <1>4 DEF Fails, refresh
    <2>2. Running' = Running
      BY <1>4, <2>1 DEF Running, PartOf
    <2>3. Types'
      BY <1>1, <1>3, <2>1 DEF Types
    <2>4. Refreshes'
      BY <2>1, <2>2 DEF Inv, Refreshes
    <2>5. \A c \in Collections : wanted'[c] <= server'[c]
      BY <1>1, <1>3, <2>1
    <2> QED BY <1>2, <2>1, <2>3, <2>4, <2>5 DEF Inv, IsFetch
  <1>5. CASE f.by = "refresh"
    <2> DEFINE others == {[g EXCEPT !.by = IF @ = "refresh" THEN "orphan" ELSE @] : g \in fetches \ {f}}
    <2>1. Ends(others, TRUE)
      BY <1>5 DEF Fails
    <2>2. \A h \in others : IsFetch(h) /\ h.by # "refresh"
      <3>1. ASSUME NEW g \in fetches
            PROVE  LET h == [g EXCEPT !.by = IF @ = "refresh" THEN "orphan" ELSE @]
                   IN  IsFetch(h) /\ h.by # "refresh"
        <4>1. IsFetch(g)
          BY <1>2
        <4> QED BY <4>1 DEF IsFetch, Fetch
      <3> QED BY <3>1
    <2>3. CASE queued
      <3>1. /\ Starts(view', others) /\ wanted' = server /\ server' = server
        BY <1>1, <2>1, <2>3 DEF Ends
      <3>2. Types'
        BY <1>1, <1>3, <3>1 DEF Types
      <3>3. server \in [Collections -> 1..MaxVersion]
        BY <1>3 DEF Types
      <3> QED BY <2>2, <3>1, <3>2, <3>3, StartsInv
    <2>4. CASE ~queued
      <3>1. /\ fetches' = others /\ spoiled' = TRUE /\ inFlight' = FALSE
            /\ UNCHANGED <<queued, wanted>>
        BY <2>1, <2>4 DEF Ends
      <3>2. Running' = {}
        BY <2>2, <3>1 DEF Running, PartOf
      <3>3. Types'
        BY <1>1, <1>3, <3>1 DEF Types
      <3>4. Refreshes'
        BY <2>4, <3>1, <3>2 DEF Inv, Refreshes
      <3>5. \A c \in Collections : wanted'[c] <= server'[c]
        BY <1>1, <1>3, <3>1
      <3> QED BY <2>2, <3>1, <3>3, <3>4, <3>5 DEF Inv, IsFetch
    <2> QED BY <2>3, <2>4
  <1> QED BY <1>4, <1>5

(***************************************************************************)
(* What makes the tab refresh.                                               *)
(***************************************************************************)
LEMMA ChangeInv == ASSUME Inv, NEW c \in Collections, Change(c) PROVE Inv'
  <1>1. /\ server[c] < MaxVersion /\ server' = [server EXCEPT ![c] = @ + 1]
        /\ UNCHANGED <<view, inFlight, queued, fetches, data, span, frame, drawn, faults,
                       wanted, spoiled>>
    BY DEF Change, refresh, held, screen, history
  <1>2. MaxVersion \in Nat /\ server \in [Collections -> 1..MaxVersion]
        /\ wanted \in [Collections -> 1..MaxVersion]
    BY RefreshAssumption DEF Inv, Types
  <1>3. /\ server' \in [Collections -> 1..MaxVersion]
        /\ \A d \in Collections : server'[d] >= server[d]
    BY <1>1, <1>2
  <1>4. Types'
    BY <1>1, <1>3 DEF Inv, Types
  <1>5. Running' = Running
    BY <1>1 DEF Running
  <1>6. Refreshes' /\ (~spoiled' /\ ~queued' => Fresh')
    BY <1>1, <1>5 DEF Inv, Refreshes, Fresh
  <1>7. ASSUME NEW d \in Collections PROVE wanted'[d] <= server'[d]
    <2>1. wanted[d] <= server[d] /\ wanted[d] \in Nat /\ server[d] \in Nat /\ server'[d] \in Nat
      BY <1>2, <1>3 DEF Inv
    <2> QED BY <1>1, <1>3, <2>1
  <1> QED BY <1>1, <1>4, <1>6, <1>7 DEF Inv, IsFetch

LEMMA AnnouncedInv == ASSUME Inv, NEW c \in Collections, Announced(c) PROVE Inv'
  <1> DEFINE f == Asked(c, "handler", view)
  <1>1. /\ c # "events" /\ fetches' = fetches \cup {f}
        /\ UNCHANGED <<server, view, inFlight, queued, data, span, frame, drawn, faults,
                       wanted, spoiled>>
    BY DEF Announced, refresh, held, screen, history
  <1>2. IsFetch(f) /\ f.by = "handler"
    <2>1. Pending \in 0..Pending
      BY RefreshAssumption DEF Pending
    <2> QED BY <1>1, <2>1 DEF Asked, IsFetch, Fetch
  <1>3. Running' = Running
    BY <1>1, <1>2 DEF Running, PartOf
  <1>4. Types' /\ Refreshes' /\ (~spoiled' /\ ~queued' => Fresh')
    BY <1>1, <1>3 DEF Inv, Types, Refreshes, Fresh
  <1>5. \A g \in fetches' : IsFetch(g)
    BY <1>1, <1>2 DEF Inv
  <1> QED BY <1>1, <1>4, <1>5 DEF Inv, IsFetch

\* A call of refreshAll, for the days that are on view afterwards.
LEMMA RefreshAllInv ==
    ASSUME Inv, view' \in Views, drawn' \in BOOLEAN, RefreshAll(view'),
           UNCHANGED <<server, data, span, frame, faults>>
    PROVE  Inv'
  <1>1. wanted' = server /\ server' = server
    BY DEF RefreshAll
  <1>2. Types' /\ server \in [Collections -> 1..MaxVersion]
    BY <1>1 DEF Inv, Types
  <1>3. \A f \in fetches : IsFetch(f)
    BY DEF Inv
  <1>4. CASE inFlight
    <2>1. queued' = TRUE /\ UNCHANGED <<inFlight, fetches, spoiled>>
      BY <1>4 DEF RefreshAll
    <2>2. Refreshes'
      BY <1>4, <2>1 DEF Inv, Refreshes, Running
    <2>3. \A c \in Collections : wanted'[c] <= server'[c]
      BY <1>1, <1>2
    <2> QED BY <1>2, <1>3, <2>1, <2>2, <2>3 DEF Inv, IsFetch
  <1>5. CASE ~inFlight
    <2>1. Starts(view', fetches)
      BY <1>5 DEF RefreshAll
    <2>2. \A f \in fetches : f.by # "refresh"
      BY <1>5 DEF Inv, Refreshes, Running, PartOf
    <2> QED BY <1>1, <1>2, <1>3, <2>1, <2>2, StartsInv
  <1> QED BY <1>4, <1>5

LEMMA FrameInv == ASSUME Inv, Frame PROVE Inv'
  <1>1. /\ frame' = NoView /\ drawn' \in BOOLEAN
        /\ UNCHANGED <<server, view, inFlight, queued, fetches, data, span, faults, wanted,
                       spoiled>>
    BY DEF Frame, refresh, held, history
  <1>2. Running' = Running
    BY <1>1 DEF Running
  <1> QED BY <1>1, <1>2 DEF Inv, Types, Refreshes, Fresh, IsFetch

LEMMA NextInv == Inv /\ [Next]_vars => Inv'
  <1> SUFFICES ASSUME Inv, [Next]_vars PROVE Inv'
    OBVIOUS
  <1>1. ASSUME NEW c \in Collections, NEW by \in By, FetchStep(c, by) PROVE Inv'
    <2>1. PICK f \in fetches : Answered(f) \/ ArrivesForRefresh(f) \/ ArrivesAlone(f)
      BY <1>1 DEF FetchStep, PartOf
    <2> QED BY <2>1, AnsweredInv, ArrivesForRefreshInv, ArrivesAloneInv
  <1>2. ASSUME NEW c \in Collections, Change(c) \/ Announced(c) PROVE Inv'
    BY <1>2, ChangeInv, AnnouncedInv
  <1>3. ASSUME NEW f \in fetches, Fails(f) PROVE Inv'
    BY <1>3, FailsInv
  <1>4. CASE Refresh
    <2>1. view' = view /\ UNCHANGED <<server, data, span, frame, drawn, faults>>
      BY <1>4 DEF Refresh, held, screen
    <2>2. view' \in Views /\ drawn' \in BOOLEAN
      BY <2>1 DEF Inv, Types
    <2>3. RefreshAll(view')
      BY <1>4, <2>1 DEF Refresh
    <2> QED BY <2>1, <2>2, <2>3, RefreshAllInv
  <1>5. ASSUME NEW v \in Views, Navigate(v) PROVE Inv'
    <2>1. /\ view' = v /\ drawn' = FALSE /\ RefreshAll(view')
          /\ UNCHANGED <<server, data, span, frame, faults>>
      BY <1>5 DEF Navigate, held
    <2> QED BY <2>1, RefreshAllInv
  <1>6. CASE Frame
    BY <1>6, FrameInv
  <1>7. CASE UNCHANGED vars
    BY <1>7 DEF vars, refresh, held, screen, history, Inv, Types, Refreshes, Fresh, Running,
                IsFetch
  <1> QED BY <1>1, <1>2, <1>3, <1>4, <1>5, <1>6, <1>7 DEF Next

\* Every call of refreshAll is honoured, though at most one refresh runs and calls
\* meanwhile are merged: when none is running and nothing failed or came late, the
\* tab holds what the server had when the last call was made, for the days on view
\* (refreshAll, _refreshQueued).
THEOREM RequestsAlwaysHonoured == Spec => []RequestsHonoured
  <1>1. Spec => []Inv
    BY InitInv, NextInv, PTL DEF Spec
  <1> QED BY <1>1, InvHonours, PTL
=============================================================================
