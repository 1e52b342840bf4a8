-------------------------- MODULE BrowserPartsProofs -------------------------
(***************************************************************************)
(* Proofs about the parts of BrowserParts, for every value of the constants  *)
(* that BrowserAssumption allows: Timeline, EditingLocks and OfflineQueue.       *)
(*                                                                           *)
(* Only the part that Init picked ever moves.  So a theorem rests on an       *)
(* invariant of that part alone, which Steps carries over to the sum.        *)
(***************************************************************************)
EXTENDS BrowserParts, SequenceTheorems, FiniteSetTheorems, WellFoundedInduction, TLAPS

\* A step of the sum is one of the part it began with.
LEMMA Steps ==
    ASSUME [BrowserNext]_browserVars
    PROVE  /\ script' = script
           /\ script = "timeline" => [T!Next]_(T!vars)
           /\ script = "editing" => [E!Next]_(E!vars)
           /\ script = "offline" => [O!Next]_(O!vars)
  <1>1. CASE UNCHANGED browserVars
    BY <1>1 DEF browserVars, timelineVars, T!vars, editingVars, E!vars, E!history,
       offlineVars, O!vars, O!world, O!history
  <1>2. CASE BrowserNext
    BY <1>2 DEF BrowserNext
  <1> QED BY <1>1, <1>2

(***************************************************************************)
(* Sequences.                                                                *)
(***************************************************************************)
\* A sequence without its i-th element: RemoveAt.
Without(s, i) == SubSeq(s, 1, i - 1) \o SubSeq(s, i + 1, Len(s))

LEMMA Removing ==
    ASSUME NEW X, NEW s \in Seq(X), NEW i \in DOMAIN s
    PROVE  /\ Without(s, i) \in Seq(X) /\ Len(Without(s, i)) = Len(s) - 1
           /\ \A n \in DOMAIN Without(s, i) :
                 Without(s, i)[n] = IF n < i THEN s[n] ELSE s[n + 1]
  <1>1. i \in 1..Len(s) /\ Len(s) \in Nat
    OBVIOUS
  <1> DEFINE a == SubSeq(s, 1, i - 1)
             b == SubSeq(s, i + 1, Len(s))
             r == Without(s, i)
  <1>2. a \in Seq(X) /\ Len(a) = i - 1 /\ \A n \in 1..(i - 1) : a[n] = s[n]
    BY <1>1
  <1>3. b \in Seq(X) /\ Len(b) = Len(s) - i /\ \A n \in 1..(Len(s) - i) : b[n] = s[n + i]
    BY <1>1
  <1> HIDE DEF a, b, r
  <1>4. r = a \o b
    BY DEF a, b, r, Without
  <1>5. /\ r \in Seq(X) /\ Len(r) = Len(s) - 1
        /\ \A n \in 1..(Len(s) - 1) : r[n] = IF n <= i - 1 THEN a[n] ELSE b[n - (i - 1)]
    <2>1. i - 1 + (Len(s) - i) = Len(s) - 1
      BY <1>1
    <2>2. /\ a \o b \in Seq(X) /\ Len(a \o b) = Len(a) + Len(b)
          /\ \A n \in 1..Len(a) + Len(b) :
                (a \o b)[n] = IF n <= Len(a) THEN a[n] ELSE b[n - Len(a)]
      BY <1>2, <1>3, ConcatProperties
    <2>3. Len(a) + Len(b) = Len(s) - 1 /\ Len(a) = i - 1
      BY <1>2, <1>3, <2>1
    <2>4. /\ a \o b \in Seq(X) /\ Len(a \o b) = Len(s) - 1
          /\ \A n \in 1..(Len(s) - 1) :
                (a \o b)[n] = IF n <= i - 1 THEN a[n] ELSE b[n - (i - 1)]
      BY <2>2, <2>3
    <2> QED BY <1>4, <2>4
  <1>6. ASSUME NEW n \in DOMAIN r PROVE r[n] = IF n < i THEN s[n] ELSE s[n + 1]
    <2>1. n \in 1..(Len(s) - 1)
      BY <1>5
    <2>2. CASE n < i
      BY <1>1, <1>2, <1>5, <2>1, <2>2
    <2>3. CASE ~(n < i)
      <3>1. r[n] = b[n - (i - 1)]
        <4>1. ~(n <= i - 1)
          BY <1>1, <2>1, <2>3
        <4> QED BY <1>5, <2>1, <4>1
      <3>2. n - (i - 1) \in 1..(Len(s) - i) /\ n - (i - 1) + i = n + 1
        BY <1>1, <2>1, <2>3
      <3> QED BY <1>3, <2>3, <3>1, <3>2
    <2> QED BY <2>2, <2>3
  <1> QED BY <1>5, <1>6 DEF r

(***************************************************************************)
(* Timeline.  What is to be drawn (Desired) is left as it is: the proof does   *)
(* not look into it.                                                         *)
(***************************************************************************)
FrameOrder == [days : Windows, patch : BOOLEAN]

\* A block that the page keeps track of and whose fingerprint is its event's.
IsBlock(b) == /\ b = [place |-> b.place, event |-> b.event, print |-> b.print,
                      tint |-> b.tint, tracked |-> TRUE]
              /\ b.print = b.event

Shows(bs, days) == /\ {b.place : b \in bs} = T!Desired(days)
                   /\ \A b \in bs : b.event = events[b.place.key[1]]

TimelineInv ==
    /\ frames \in Seq(FrameOrder) /\ {window, grid} \subseteq Windows
    /\ \A b \in blocks : IsBlock(b)
    /\ ~faded => \A b \in blocks : b.tint = tint
    /\ ~due => IF frames = <<>> THEN Shows(blocks, window)
               ELSE frames[Len(frames)].days = window

\* What is to be drawn depends on the events and the range alone.
LEMMA DesiredSame ==
    ASSUME events' = events, window' = window
    PROVE  T!Desired(window)' = T!Desired(window)
  <1>1. ASSUME NEW e PROVE T!Occurrences(e, window)' = T!Occurrences(e, window)
    BY DEF T!Occurrences
  <1>2. ASSUME NEW e, NEW n, NEW d PROVE T!Item(e, n, window, d)' = T!Item(e, n, window, d)
    BY DEF T!Item
  <1>3. ASSUME NEW d PROVE T!DayItems(window, d)' = T!DayItems(window, d)
    BY <1>1, <1>2 DEF T!DayItems
  <1>4. ASSUME NEW d PROVE T!Items(window, d)' = T!Items(window, d)
    BY <1>3 DEF T!Items
  <1> QED BY <1>4 DEF T!Desired

\* A block is moved.
LEMMA Moved ==
    ASSUME NEW b, NEW e, NEW f, NEW t, NEW old, NEW new,
           b = [place |-> old, event |-> e, print |-> f, tint |-> t, tracked |-> TRUE]
    PROVE  [b EXCEPT !.place = new] =
              [place |-> new, event |-> e, print |-> f, tint |-> t, tracked |-> TRUE]
  <1> DEFINE k == TRUE
  <1>1. b = [place |-> old, event |-> e, print |-> f, tint |-> t, tracked |-> k]
    OBVIOUS
  <1> HIDE DEF k
  <1>2. [b EXCEPT !.place = new] =
           [place |-> new, event |-> e, print |-> f, tint |-> t, tracked |-> k]
    <2>1. ASSUME NEW x
          PROVE  [[place |-> old, event |-> e, print |-> f, tint |-> t, tracked |-> x]
                    EXCEPT !.place = new] =
                 [place |-> new, event |-> e, print |-> f, tint |-> t, tracked |-> x]
      OBVIOUS
    <2> QED BY <1>1, <2>1
  <1> QED BY <1>2 DEF k

LEMMA TimelineInit == ASSUME T!Init PROVE TimelineInv
  <1>1. /\ window \in Windows /\ grid = window /\ blocks = {}
        /\ frames = <<[days |-> window, patch |-> FALSE]>>
    BY DEF T!Init
  <1>2. [days |-> window, patch |-> FALSE] \in FrameOrder
    BY <1>1 DEF FrameOrder
  <1>3. frames \in Seq(FrameOrder) /\ Len(frames) = 1 /\ frames # <<>> /\ frames[1].days = window
    BY <1>1, <1>2
  <1> QED BY <1>1, <1>3 DEF TimelineInv

\* A frame is ordered.
LEMMA TimelineOrders ==
    ASSUME TimelineInv, NEW f \in FrameOrder, f.days = window,
           frames' = Append(frames, f), window' = window
    PROVE  /\ frames' \in Seq(FrameOrder) /\ frames' # <<>>
           /\ frames'[Len(frames')].days = window'
  BY AppendProperties DEF TimelineInv

\* A block that stays becomes the one of a place.
LEMMA Reused ==
    ASSUME TimelineInv, NEW p, NEW b \in T!Reusable(p)
    PROVE  LET c == [b EXCEPT !.place = p]
           IN  /\ IsBlock(c) /\ c.place = p /\ c.event = events[p.key[1]]
               /\ b \in blocks /\ c.tint = b.tint
  <1>0. \A x \in blocks : IsBlock(x)
    BY DEF TimelineInv
  <1>1. b \in blocks /\ b.print = events[p.key[1]]
    BY DEF T!Reusable, T!Found, T!Fingerprint
  <1>2. b = [place |-> b.place, event |-> b.event, print |-> b.event, tint |-> b.tint,
             tracked |-> TRUE]
    BY <1>0, <1>1 DEF IsBlock
  <1>3. [b EXCEPT !.place = p] =
           [place |-> p, event |-> b.event, print |-> b.event, tint |-> b.tint, tracked |-> TRUE]
    <2> DEFINE old == b.place
               e == b.event
               t == b.tint
    <2>1. b = [place |-> old, event |-> e, print |-> e, tint |-> t, tracked |-> TRUE]
      BY <1>2
    <2> HIDE DEF old, e, t
    <2>2. [b EXCEPT !.place = p] =
             [place |-> p, event |-> e, print |-> e, tint |-> t, tracked |-> TRUE]
      BY <2>1, Moved
    <2> QED BY <2>2 DEF e, t
  <1>4. b.event = events[p.key[1]]
    BY <1>0, <1>1 DEF IsBlock
  <1> QED BY <1>1, <1>3, <1>4 DEF IsBlock

\* Whatever a frame draws, it draws what is to be drawn.
LEMMA TimelineDraws ==
    ASSUME TimelineInv, NEW days \in Windows,
           \/ blocks' = T!Patched(T!Desired(days))
           \/ blocks' = {T!Block(p) : p \in T!Desired(days)}
    PROVE  /\ \A b \in blocks' : IsBlock(b)
           /\ {b.place : b \in blocks'} = T!Desired(days)
           /\ \A b \in blocks' : /\ b.event = events[b.place.key[1]]
                                 /\ b.tint = tint \/ \E c \in blocks : b.tint = c.tint
  <1> DEFINE D == T!Desired(days)
  <1> HIDE DEF D
  <1>1. \A b \in blocks : IsBlock(b)
    BY DEF TimelineInv
  <1>2. ASSUME NEW p
        PROVE  /\ IsBlock(T!Block(p)) /\ T!Block(p).place = p
               /\ T!Block(p).event = events[p.key[1]] /\ T!Block(p).tint = tint
    BY DEF T!Block, T!Fingerprint, IsBlock
  <1>3. ASSUME NEW p, NEW b \in T!Reusable(p)
        PROVE  LET c == [b EXCEPT !.place = p]
               IN  /\ IsBlock(c) /\ c.place = p /\ c.event = events[p.key[1]]
                   /\ b \in blocks /\ c.tint = b.tint
    BY Reused, <1>3
  <1>4. CASE blocks' = {T!Block(p) : p \in D}
    <2>1. \A b \in blocks' : \E p \in D : b = T!Block(p)
      BY <1>4
    <2>2. \A p \in D : \E b \in blocks' : b.place = p
      BY <1>2, <1>4
    <2> QED BY <1>2, <2>1, <2>2 DEF D
  <1>5. CASE blocks' = T!Patched(D)
    <2>1. blocks' = {b \in blocks : ~b.tracked}
                    \cup {[x[1] EXCEPT !.place = x[2]] :
                            x \in {y \in blocks \X D : y[1] \in T!Reusable(y[2])}}
                    \cup {T!Block(p) : p \in {q \in D : T!Reusable(q) = {}}}
      BY <1>5 DEF T!Patched
    <2>2. {b \in blocks : ~b.tracked} = {}
      BY <1>1 DEF IsBlock
    <2>3. \A b \in blocks' : \/ \E p \in D : \E c \in T!Reusable(p) : b = [c EXCEPT !.place = p]
                             \/ \E p \in D : b = T!Block(p)
      BY <2>1, <2>2
    <2>4. ASSUME NEW p \in D PROVE \E b \in blocks' : b.place = p
      <3>1. CASE T!Reusable(p) = {}
        BY <1>2, <2>1, <3>1
      <3>2. CASE T!Reusable(p) # {}
        <4>1. PICK c \in T!Reusable(p) : TRUE
          BY <3>2
        <4>2. c \in blocks /\ [c EXCEPT !.place = p].place = p
          BY <1>3
        <4>3. <<c, p>> \in {y \in blocks \X D : y[1] \in T!Reusable(y[2])}
          BY <4>1, <4>2
        <4>4. \A x \in {y \in blocks \X D : y[1] \in T!Reusable(y[2])} :
                 [x[1] EXCEPT !.place = x[2]] \in blocks'
          BY <2>1, Zenon
        <4>5. [<<c, p>>[1] EXCEPT !.place = <<c, p>>[2]] \in blocks'
          BY <4>3, <4>4, Zenon
        <4>6. [c EXCEPT !.place = p] \in blocks'
          BY <4>5
        <4> QED BY <4>2, <4>6
      <3> QED BY <3>1, <3>2
    <2>5. ASSUME NEW b \in blocks'
          PROVE  /\ IsBlock(b) /\ b.place \in D /\ b.event = events[b.place.key[1]]
                 /\ b.tint = tint \/ \E c \in blocks : b.tint = c.tint
      <3>1. CASE \E p \in D : \E c \in T!Reusable(p) : b = [c EXCEPT !.place = p]
        BY <1>3, <3>1
      <3>2. CASE \E p \in D : b = T!Block(p)
        BY <1>2, <3>2
      <3> QED BY <2>3, <3>1, <3>2
    <2> QED BY <2>4, <2>5 DEF D
  <1> QED BY <1>4, <1>5 DEF D

LEMMA TimelineNext == ASSUME TimelineInv, [T!Next]_(T!vars) PROVE TimelineInv'
  <1>1. /\ frames \in Seq(FrameOrder) /\ window \in Windows /\ grid \in Windows
        /\ \A b \in blocks : IsBlock(b)
        /\ ~faded => \A b \in blocks : b.tint = tint
    BY DEF TimelineInv
  <1>2. CASE T!Change \/ T!Recolour \/ T!Navigate
    <2>1. /\ due' = TRUE /\ UNCHANGED <<grid, blocks, frames>>
          /\ window' \in Windows /\ (faded' = TRUE \/ UNCHANGED <<tint, faded>>)
      BY <1>1, <1>2 DEF T!Change, T!Recolour, T!Navigate, T!Edit
    <2> QED BY <1>1, <2>1 DEF TimelineInv, IsBlock
  <1>3. ASSUME T!FullDrawing, UNCHANGED <<events, tint, window>> PROVE TimelineInv'
    <2> DEFINE f == [days |-> window, patch |-> FALSE]
    <2>1. /\ grid' = window /\ blocks' = {} /\ frames' = Append(frames, f)
      BY <1>3 DEF T!FullDrawing
    <2>2. f \in FrameOrder /\ f.days = window
      BY <1>1 DEF FrameOrder
    <2>3. frames' \in Seq(FrameOrder) /\ frames' # <<>> /\ frames'[Len(frames')].days = window'
      BY <1>3, <2>1, <2>2, TimelineOrders
    <2> QED BY <1>1, <1>3, <2>1, <2>3 DEF TimelineInv
  <1>4. CASE T!Render
    BY <1>3, <1>4 DEF T!Render
  <1>5. CASE T!Patch
    <2>1. CASE T!FullDrawing
      BY <1>3, <1>5, <2>1 DEF T!Patch
    <2>2. CASE ~T!FullDrawing
      <3> DEFINE f == [days |-> grid, patch |-> TRUE]
      <3>1. /\ grid = window /\ frames' = Append(frames, f)
            /\ UNCHANGED <<events, tint, window, grid, blocks, faded>>
        BY <1>5, <2>2 DEF T!Patch, T!SameGrid
      <3>2. f \in FrameOrder /\ f.days = window
        BY <1>1, <3>1 DEF FrameOrder
      <3>3. frames' \in Seq(FrameOrder) /\ frames' # <<>> /\ frames'[Len(frames')].days = window'
        BY <3>1, <3>2, TimelineOrders
      <3> QED BY <1>1, <3>1, <3>3 DEF TimelineInv, IsBlock
    <2> QED BY <2>1, <2>2
  <1>6. CASE T!Frame
    <2> DEFINE days == Head(frames).days
    <2>1. /\ frames # <<>> /\ frames' = Tail(frames)
          /\ \/ blocks' = T!Patched(T!Desired(days))
             \/ blocks' = {T!Block(p) : p \in T!Desired(days)}
          /\ UNCHANGED <<events, tint, window, grid, due, faded>>
      BY <1>6 DEF T!Frame
    <2>2. /\ Head(frames) \in FrameOrder /\ Head(frames) = frames[1]
          /\ Tail(frames) \in Seq(FrameOrder) /\ Len(Tail(frames)) = Len(frames) - 1
          /\ \A n \in 1..Len(Tail(frames)) : Tail(frames)[n] = frames[n + 1]
          /\ Len(frames) \in Nat
      BY <1>1, <2>1, HeadTailProperties
    <2>3. days \in Windows
      BY <2>2 DEF FrameOrder
    <2> HIDE DEF days
    <2>4. /\ \A b \in blocks' : IsBlock(b)
          /\ {b.place : b \in blocks'} = T!Desired(days)
          /\ \A b \in blocks' : /\ b.event = events[b.place.key[1]]
                                /\ b.tint = tint \/ \E c \in blocks : b.tint = c.tint
      BY <2>1, <2>3, TimelineDraws
    <2>5. ~faded' => \A b \in blocks' : b.tint = tint'
      BY <1>1, <2>1, <2>4
    <2>6. ASSUME ~due'
          PROVE  IF frames' = <<>> THEN Shows(blocks, window)'
                 ELSE frames'[Len(frames')].days = window'
      <3>1. frames[Len(frames)].days = window
        BY <2>1, <2>6 DEF TimelineInv
      <3>2. CASE frames' = <<>>
        <4>1. Len(<<>>) = 0
          OBVIOUS
        <4>2. Len(frames) - 1 = 0
          BY <2>1, <2>2, <3>2, <4>1, Zenon
        <4>3. Len(frames) = 1
          <5>1. Len(frames) \in Nat
            BY <2>2
          <5> QED BY <4>2, <5>1
        <4>4. days = window
          BY <2>2, <3>1, <4>3, Zenon DEF days
        <4>5. T!Desired(window)' = T!Desired(days)
          BY <2>1, <4>4, DesiredSame
        <4> QED BY <2>1, <2>4, <3>2, <4>5 DEF Shows
      <3>3. CASE frames' # <<>>
        <4>1. Len(Tail(frames)) \in 1..Len(Tail(frames))
          BY <2>1, <2>2, <3>3
        <4>2. Tail(frames)[Len(Tail(frames))] = frames[Len(frames)]
          BY <2>2, <4>1
        <4> QED BY <2>1, <3>1, <3>3, <4>2
      <3> QED BY <3>2, <3>3
    <2> QED BY <1>1, <2>1, <2>2, <2>4, <2>5, <2>6 DEF TimelineInv, IsBlock
  <1>7. CASE UNCHANGED T!vars
    <2>1. T!Desired(window)' = T!Desired(window)
      BY <1>7, DesiredSame DEF T!vars
    <2> QED BY <1>7, <2>1 DEF T!vars, TimelineInv, IsBlock, Shows
  <1> QED BY <1>2, <1>4, <1>5, <1>6, <1>7 DEF T!Next

TimelinePart == script = "timeline" => TimelineInv

\* Once nothing is due, what the page shows is what drawing everything afresh would
\* show, however drawings, refreshes and navigation interleaved, and whatever is to
\* be drawn for an event (renderTimeline, patchTimeline, _renderEventBlocksInner).
THEOREM TimelineAlwaysShowsTheData == BrowserSpec => []TimelineShowsTheData
  <1>1. BrowserInit => TimelinePart
    BY TimelineInit DEF BrowserInit, TimelinePart
  <1>2. TimelinePart /\ [BrowserNext]_browserVars => TimelinePart'
    BY Steps, TimelineNext DEF TimelinePart
  <1>3. TimelinePart => TimelineShowsTheData
    BY DEF TimelinePart, TimelineInv, TimelineShowsTheData, T!ShowsTheData, Shows
  <1> QED BY <1>1, <1>2, <1>3, PTL DEF BrowserSpec

(***************************************************************************)
(* Induction over the numbers by their least members, functions that are      *)
(* computed step by step, and lists in the order of a relation.               *)
(***************************************************************************)
LEMMA NatMin ==
    ASSUME NEW D \in SUBSET Nat, D # {}
    PROVE  \E m \in D : \A k \in D : m <= k
  <1> DEFINE less == OpToRel(<, Nat)
  <1>1. IsWellFoundedOn(less, Nat)
    BY NatLessThanWellFounded
  <1>2. ASSUME NEW a \in Nat, NEW b \in Nat, a < b
        PROVE <<a, b>> \in less
    BY <1>2 DEF OpToRel
  <1> HIDE DEF less
  <1>3. PICK m \in D : \A y \in D : ~ (<<y, m>> \in less)
    BY <1>1, WFMin, Zenon
  <1>4. ASSUME NEW k \in D PROVE m <= k
    <2>1. ~(k < m)
      BY <1>2, <1>3, Zenon
    <2> QED BY <2>1
  <1> QED BY <1>4

LEMMA NatInd ==
    ASSUME NEW D \in SUBSET Nat, 0 \in D, \A n \in Nat : n \in D => n + 1 \in D
    PROVE  D = Nat
  <1>1. SUFFICES ASSUME Nat \ D # {} PROVE FALSE
    OBVIOUS
  <1>2. PICK m \in Nat \ D : \A k \in Nat \ D : m <= k
    BY <1>1, NatMin
  <1>3. m # 0 /\ m - 1 \in Nat /\ m - 1 < m
    BY <1>2
  <1>4. m - 1 \in D
    BY <1>2, <1>3
  <1>5. m - 1 + 1 = m
    BY <1>3
  <1> QED BY <1>2, <1>3, <1>4, <1>5

\* The largest of finitely many numbers.
LEMMA NatMax ==
    ASSUME NEW D \in SUBSET Nat, D # {}, NEW b \in Nat, \A k \in D : k <= b
    PROVE  \E m \in D : \A k \in D : k <= m
  <1> DEFINE U == {u \in Nat : \A k \in D : k <= u}
  <1>1. PICK m \in U : \A u \in U : m <= u
    BY NatMin
  <1>2. m \in Nat /\ \A k \in D : k \in Nat /\ k <= m
    OBVIOUS
  <1>3. m \in D
    <2>1. SUFFICES ASSUME m \notin D PROVE FALSE
      OBVIOUS
    <2>2. \A k \in D : k \in Nat /\ k < m
      BY <1>2, <2>1
    <2>3. m - 1 \in Nat /\ \A k \in D : k <= m - 1
      <3> HIDE DEF U
      <3>1. PICK d \in D : TRUE
        OBVIOUS
      <3>2. m - 1 \in Nat
        BY <1>2, <2>2, <3>1
      <3>3. \A k \in Nat : k < m => k <= m - 1
        BY <1>2
      <3> QED BY <2>2, <3>2, <3>3
    <2>4. m - 1 \in U
      BY <2>3
    <2>5. m <= m - 1
      BY <1>1, <2>4
    <2> QED BY <1>2, <2>5
  <1> QED BY <1>2, <1>3

\* Recursive functions on a range of numbers: there are such, and what every
\* step keeps holds all the way.
Runs(g, v, step, i, n) == g = [j \in i..n |-> IF j = i THEN v ELSE step[j][g[j - 1]]]

LEMMA RunsExist ==
    ASSUME NEW i \in Nat, NEW n \in Nat, i <= n, NEW v, NEW step
    PROVE  \E g : Runs(g, v, step, i, n)
  <1> DEFINE D == {d \in Nat : \E g : Runs(g, v, step, i, i + d)}
  <1>1. 0 \in D
    <2>1. i..(i + 0) = {i}
      OBVIOUS
    <2>2. Runs([j \in {i} |-> v], v, step, i, i + 0)
      BY <2>1 DEF Runs
    <2> QED BY <2>2
  <1>2. ASSUME NEW d \in Nat, d \in D
        PROVE  d + 1 \in D
    <2>1. PICK g : Runs(g, v, step, i, i + d)
      BY <1>2
    <2> DEFINE e == i + (d + 1)
               h == [j \in i..e |-> IF j = e THEN step[e][g[e - 1]] ELSE g[j]]
    <2>2. e \in Nat /\ e - 1 = i + d /\ e # i /\ i..e = (i..(e - 1)) \cup {e} /\ e - 1 \in i..e
      OBVIOUS
    <2> HIDE DEF e
    <2>3. ASSUME NEW j \in i..e
          PROVE  h[j] = IF j = i THEN v ELSE step[j][h[j - 1]]
      <3>1. CASE j = e
        <4>1. h[e - 1] = g[e - 1]
          BY <2>2
        <4>2. h[j] = step[e][g[e - 1]]
          BY <3>1
        <4> QED BY <2>2, <3>1, <4>1, <4>2
      <3>2. CASE j # e
        <4>1. j \in i..(e - 1) /\ h[j] = g[j]
          BY <2>2, <3>2
        <4>2. g[j] = IF j = i THEN v ELSE step[j][g[j - 1]]
          <5> HIDE DEF h
          <5> QED BY <2>1, <2>2, <4>1, Zenon DEF Runs
        <4>3. j # i => j - 1 \in i..e /\ j - 1 # e
          BY <2>2, <4>1
        <4>4. j # i => h[j - 1] = g[j - 1]
          BY <4>3
        <4> HIDE DEF h
        <4> QED BY <4>1, <4>2, <4>4
      <3> QED BY <3>1, <3>2
    <2>4. h = [j \in i..e |-> IF j = i THEN v ELSE step[j][h[j - 1]]]
      <3>1. h = [j \in i..e |-> h[j]]
        OBVIOUS
      <3> HIDE DEF h
      <3> QED BY <2>3, <3>1
    <2>5. Runs(h, v, step, i, e)
      <3> HIDE DEF h
      <3> QED BY <2>4, Zenon DEF Runs
    <2> HIDE DEF h
    <2> QED BY <2>5 DEF e
  <1>3. D = Nat
    <2>1. D \in SUBSET Nat
      OBVIOUS
    <2> HIDE DEF D
    <2> QED BY <1>1, <1>2, <2>1, NatInd
  <1>4. n - i \in Nat /\ i + (n - i) = n
    OBVIOUS
  <1>5. n - i \in D
    BY <1>3, <1>4
  <1> HIDE DEF Runs
  <1> QED BY <1>4, <1>5

LEMMA RunsKeep ==
    ASSUME NEW i \in Nat, NEW n \in Nat, i <= n, NEW g, NEW Good, g[i] \in Good[i],
           \A j \in (i + 1)..n : g[j - 1] \in Good[j - 1] => g[j] \in Good[j]
    PROVE  \A j \in i..n : g[j] \in Good[j]
  <1> DEFINE D == {d \in Nat : i + d <= n => g[i + d] \in Good[i + d]}
  <1>1. i + 0 = i
    OBVIOUS
  <1>2. 0 \in D
    BY <1>1
  <1>3. ASSUME NEW d \in Nat, d \in D
        PROVE  d + 1 \in D
    <2>1. SUFFICES ASSUME i + (d + 1) <= n
                   PROVE  g[i + (d + 1)] \in Good[i + (d + 1)]
      OBVIOUS
    <2>2. (i + (d + 1)) - 1 = i + d /\ i + d <= n /\ i + (d + 1) \in (i + 1)..n
      BY <2>1
    <2>3. g[i + d] \in Good[i + d]
      BY <1>3, <2>2
    <2> HIDE DEF D
    <2> QED BY <2>2, <2>3
  <1>4. D = Nat
    <2>1. D \in SUBSET Nat
      OBVIOUS
    <2> HIDE DEF D
    <2> QED BY <1>2, <1>3, <2>1, NatInd
  <1>5. ASSUME NEW j \in i..n
        PROVE  g[j] \in Good[j]
    <2>1. j - i \in Nat /\ i + (j - i) = j /\ j <= n
      OBVIOUS
    <2>2. j - i \in D
      BY <1>4, <2>1
    <2> QED BY <2>1, <2>2
  <1> QED BY <1>5

Orders(D, r) == /\ \A a \in D : <<a, a>> \notin r
                /\ \A a, b \in D : a # b => <<a, b>> \in r \/ <<b, a>> \in r
                /\ \A a, b, c \in D : <<a, b>> \in r /\ <<b, c>> \in r => <<a, c>> \in r

\* l lists the members of D in the order r.
Lists(l, D, r, n) == /\ l \in [1..n -> D]
                     /\ \A a \in D : \E p \in 1..n : l[p] = a
                     /\ \A p, q \in 1..n : p < q => <<l[p], l[q]>> \in r

\* How many are ahead of each, and listing by that.
Ranks(D, r) == [i \in D |-> Cardinality({j \in D : <<j, i>> \in r})]

ByRank(D, rank) == [k \in 1..Cardinality(D) |-> CHOOSE i \in D : rank[i] = k - 1]

LEMMA Below == ASSUME NEW n \in Nat PROVE IsFiniteSet(0..(n - 1)) /\ Cardinality(0..(n - 1)) = n
  BY FS_Interval

LEMMA ListedLists ==
    ASSUME NEW D, IsFiniteSet(D), NEW r, Orders(D, r),
           NEW rank, rank = Ranks(D, r), NEW l, l = ByRank(D, rank)
    PROVE  Cardinality(D) \in Nat /\ Lists(l, D, r, Cardinality(D))
  <1> DEFINE n == Cardinality(D)
             Ahead(i) == {j \in D : <<j, i>> \in r}
  <1>1. n \in Nat
    BY FS_CardinalityType
  <1>2. ASSUME NEW i \in D
        PROVE  IsFiniteSet(Ahead(i)) /\ rank[i] \in 0..(n - 1)
    <2>1. Ahead(i) \subseteq D \ {i} /\ D \ {i} \subseteq D
      BY DEF Orders
    <2>2. IsFiniteSet(D \ {i}) /\ Cardinality(D \ {i}) = n - 1
      BY FS_RemoveElement
    <2>3. IsFiniteSet(Ahead(i)) /\ Cardinality(Ahead(i)) <= n - 1
      BY <2>1, <2>2, FS_Subset
    <2>4. Cardinality(Ahead(i)) \in Nat
      BY <2>3, FS_CardinalityType
    <2>5. rank[i] = Cardinality(Ahead(i))
      BY DEF Ranks
    <2> HIDE DEF Ahead, n
    <2> QED BY <1>1, <2>3, <2>4, <2>5
  <1>3. ASSUME NEW a \in D, NEW b \in D, <<a, b>> \in r
        PROVE  rank[a] < rank[b]
    <2>1. Ahead(a) \cup {a} \subseteq Ahead(b) /\ a \notin Ahead(a)
      BY <1>3 DEF Orders
    <2>2. /\ IsFiniteSet(Ahead(a) \cup {a})
          /\ Cardinality(Ahead(a) \cup {a}) = Cardinality(Ahead(a)) + 1
      BY <1>2, <2>1, FS_AddElement
    <2>3. Cardinality(Ahead(a) \cup {a}) <= Cardinality(Ahead(b))
      BY <1>2, <2>1, FS_Subset
    <2>4. Cardinality(Ahead(a)) \in Nat /\ Cardinality(Ahead(b)) \in Nat
      BY <1>2, FS_CardinalityType
    <2>5. rank[a] = Cardinality(Ahead(a)) /\ rank[b] = Cardinality(Ahead(b))
      BY DEF Ranks
    <2> HIDE DEF Ahead
    <2> QED BY <2>2, <2>3, <2>4, <2>5
  <1>4. \A i \in D : rank[i] \in 0..(n - 1) /\ rank[i] \in Nat
    <2>1. \A i \in D : rank[i] \in 0..(n - 1)
      BY <1>2
    <2> HIDE DEF n
    <2> QED BY <1>1, <2>1
  <1>5. \A a, b \in D : rank[a] = rank[b] => a = b
    <2>1. ASSUME NEW a \in D, NEW b \in D, rank[a] = rank[b], a # b
          PROVE  FALSE
      <3>1. <<a, b>> \in r \/ <<b, a>> \in r
        BY <2>1 DEF Orders
      <3>2. rank[a] < rank[b] \/ rank[b] < rank[a]
        BY <1>3, <3>1
      <3>3. rank[a] \in Nat /\ rank[b] \in Nat
        BY <1>4
      <3> QED BY <2>1, <3>2, <3>3
    <2> QED BY <2>1
  <1>6. \A k \in 1..n : \E i \in D : rank[i] = k - 1
    <2> DEFINE W == {rank[i] : i \in D}
               N == 0..(n - 1)
    <2>1. rank \in Surjection(D, W) /\ rank \in Injection(D, W)
      <3>1. rank \in [D -> W] /\ \A w \in W : \E i \in D : rank[i] = w
        BY DEF Ranks
      <3> HIDE DEF W
      <3> QED BY <1>5, <3>1 DEF Surjection, Injection, IsInjective
    <2>2. IsFiniteSet(W) /\ Cardinality(W) = n
      <3> HIDE DEF W
      <3> QED BY <2>1, FS_Surjection
    <2>3. W \subseteq N
      BY <1>2
    <2>4. IsFiniteSet(N) /\ Cardinality(N) = n
      BY <1>1, Below
    <2>5. W = N
      <3> HIDE DEF W, N
      <3> QED BY <2>2, <2>3, <2>4, FS_Subset
    <2> HIDE DEF n
    <2>6. \A k \in 1..n : k - 1 \in N
      BY <1>1
    <2> QED BY <2>5, <2>6
  <1>7. l = [k \in 1..n |-> CHOOSE i \in D : rank[i] = k - 1]
    BY DEF ByRank
  <1>8. \A a, b \in D : <<a, b>> \in r => rank[a] < rank[b]
    BY <1>3
  <1> HIDE DEF n, Ahead
  <1>9. \A k \in 1..n : l[k] \in D /\ rank[l[k]] = k - 1
    BY <1>6, <1>7
  <1>10. l \in [1..n -> D]
    BY <1>7, <1>9
  <1>11. \A a \in D : \E p \in 1..n : l[p] = a
    <2>1. ASSUME NEW a \in D PROVE \E p \in 1..n : l[p] = a
      <3>1. rank[a] + 1 \in 1..n /\ (rank[a] + 1) - 1 = rank[a]
        BY <1>1, <1>4
      <3>2. rank[l[rank[a] + 1]] = rank[a] /\ l[rank[a] + 1] \in D
        BY <1>9, <3>1
      <3> QED BY <1>5, <3>1, <3>2
    <2> QED BY <2>1
  <1>12. ASSUME NEW p \in 1..n, NEW q \in 1..n, p < q
         PROVE  <<l[p], l[q]>> \in r
    <2>1. rank[l[p]] < rank[l[q]] /\ l[p] \in D /\ l[q] \in D
      BY <1>1, <1>9, <1>12
    <2>2. l[p] # l[q] /\ <<l[q], l[p]>> \notin r
      BY <1>4, <1>8, <2>1
    <2> QED BY <2>1, <2>2 DEF Orders
  <1> QED BY <1>1, <1>10, <1>11, <1>12 DEF Lists, n

(***************************************************************************)
(* Timeline: the columns of a day's items.                                    *)
(***************************************************************************)
Seats == [ends : Seq(Nat), cols : Seq(Nat)]

Timed(items, n) == \A k \in 1..n : /\ items[k].from \in Nat /\ items[k].to \in Nat
                                   /\ items[k].from < items[k].to

\* The first n items are seated in s: a column ends with the last item in it, whoever
\* comes later to a column begins when the others have ended, and nobody could have
\* been seated further left.
Fits(s, items, n) ==
    /\ s \in Seats /\ Len(s.cols) = n
    /\ \A k \in 1..n : s.cols[k] \in 1..Len(s.ends) /\ items[k].to <= s.ends[s.cols[k]]
    /\ \A c \in 1..Len(s.ends) : \E k \in 1..n : s.cols[k] = c /\ items[k].to = s.ends[c]
    /\ \A j, k \in 1..n : j < k /\ s.cols[j] = s.cols[k] => items[j].to <= items[k].from
    /\ \A k \in 1..n : \A c \in 1..(s.cols[k] - 1) :
          \E j \in 1..n : j < k /\ s.cols[j] = c /\ items[k].from < items[j].to

LEMMA LeastColumn ==
    ASSUME NEW D \in SUBSET Nat, D # {}
    PROVE  T!Min(D) \in D /\ \A k \in D : T!Min(D) <= k
  <1>1. \E m \in D : \A k \in D : m <= k
    BY NatMin
  <1> QED BY <1>1 DEF T!Min

\* The column that the next item gets, and when the columns end then.
LEMMA Seat ==
    ASSUME NEW s \in Seats, NEW x, x.from \in Nat, x.to \in Nat
    PROVE  \E c \in Nat, e \in Seq(Nat) :
              /\ T!Seated(s, x) = [ends |-> e, cols |-> Append(s.cols, c)]
              /\ Len(s.ends) <= Len(e)
              /\ c \in 1..Len(e) /\ e[c] = x.to
              /\ \A k \in 1..Len(e) : k # c => k \in 1..Len(s.ends) /\ e[k] = s.ends[k]
              /\ c \in 1..Len(s.ends) => s.ends[c] <= x.from
              /\ \A k \in 1..(c - 1) : k \in 1..Len(s.ends) /\ x.from < s.ends[k]
  <1> DEFINE ends == s.ends
             free == T!FreeColumns(ends, x)
             m == Len(ends)
  <1>1. ends \in Seq(Nat) /\ m \in Nat /\ DOMAIN ends = 1..m /\ \A k \in 1..m : ends[k] \in Nat
    BY DEF Seats
  <1> HIDE DEF ends
  <1>2. free = {k \in 1..m : ends[k] <= x.from}
    BY <1>1 DEF T!FreeColumns
  <1>3. T!Seated(s, x) = [ends |-> IF free = {} THEN Append(ends, x.to)
                                   ELSE [ends EXCEPT ![T!Min(free)] = x.to],
                          cols |-> Append(s.cols, IF free = {} THEN m + 1 ELSE T!Min(free))]
    BY Zenon DEF T!Seated, ends
  <1> HIDE DEF free, m
  <1>4. CASE free = {}
    <2> DEFINE e == Append(ends, x.to)
    <2>1. /\ e \in Seq(Nat) /\ Len(e) = m + 1 /\ e[m + 1] = x.to
          /\ \A k \in 1..m : e[k] = ends[k]
      BY <1>1, AppendProperties DEF m
    <2>2. T!Seated(s, x) = [ends |-> e, cols |-> Append(s.cols, m + 1)]
      BY <1>3, <1>4
    <2>3. \A k \in 1..m : ~(ends[k] <= x.from)
      BY <1>2, <1>4
    <2>4. \A k \in 1..m : x.from < ends[k]
      BY <1>1, <2>3
    <2> HIDE DEF e
    <2>5. m + 1 \in Nat /\ m + 1 \in 1..Len(e) /\ m <= Len(e)
      BY <1>1, <2>1
    <2>6. \A k \in 1..Len(e) : k # m + 1 => k \in 1..m /\ e[k] = ends[k]
      BY <1>1, <2>1
    <2>7. m + 1 \notin 1..m /\ 1..((m + 1) - 1) = 1..m
      BY <1>1
    <2> QED BY <1>1, <2>1, <2>2, <2>4, <2>5, <2>6, <2>7 DEF ends, m
  <1>5. CASE free # {}
    <2> DEFINE c == T!Min(free)
               e == [ends EXCEPT ![c] = x.to]
    <2>1. free \in SUBSET Nat
      BY <1>1, <1>2
    <2>2. c \in free /\ \A k \in free : c <= k
      BY <1>5, <2>1, LeastColumn
    <2>3. T!Seated(s, x) = [ends |-> e, cols |-> Append(s.cols, c)]
      BY <1>3, <1>5
    <2> HIDE DEF c
    <2>4. c \in 1..m /\ c \in Nat /\ ends[c] <= x.from
      BY <1>1, <1>2, <2>2
    <2>5. /\ e \in Seq(Nat) /\ Len(e) = m /\ e[c] = x.to
          /\ \A k \in 1..m : k # c => e[k] = ends[k]
      BY <1>1, <2>4, ExceptSeq DEF m
    <2>6. \A k \in 1..(c - 1) : k \in 1..m /\ x.from < ends[k]
      <3>1. ASSUME NEW k \in 1..(c - 1) PROVE k \in 1..m /\ x.from < ends[k]
        <4>1. k \in 1..m /\ k < c
          BY <1>1, <2>4
        <4>2. k \notin free
          BY <2>2, <2>4, <4>1
        <4>3. ~(ends[k] <= x.from) /\ ends[k] \in Nat
          BY <1>1, <1>2, <4>1, <4>2
        <4> QED BY <4>1, <4>3
      <3> QED BY <3>1
    <2> HIDE DEF e
    <2>7. c \in 1..Len(e) /\ m <= Len(e) /\ \A k \in 1..Len(e) : k # c => k \in 1..m /\ e[k] = ends[k]
      BY <1>1, <2>4, <2>5
    <2> QED BY <2>3, <2>4, <2>5, <2>6, <2>7 DEF ends, m
  <1> QED BY <1>4, <1>5

LEMMA Seating ==
    ASSUME NEW items, NEW n \in Nat, Timed(items, n + 1), NEW s, Fits(s, items, n)
    PROVE  Fits(T!Seated(s, items[n + 1]), items, n + 1)
  <1> DEFINE x == items[n + 1]
             t == T!Seated(s, x)
  <1>1. /\ n + 1 \in 1..(n + 1) /\ 1..n \subseteq 1..(n + 1)
        /\ \A k \in 1..(n + 1) : k = n + 1 \/ k \in 1..n
    OBVIOUS
  <1>2. /\ s \in Seats /\ s.cols \in Seq(Nat) /\ Len(s.cols) = n
        /\ \A k \in 1..n : s.cols[k] \in Nat
        /\ \A k \in 1..Len(s.ends) : s.ends[k] \in Nat
    <2>1. s \in Seats /\ Len(s.cols) = n
      BY DEF Fits
    <2>2. s.cols \in Seq(Nat) /\ s.ends \in Seq(Nat)
      BY <2>1 DEF Seats
    <2> QED BY <2>1, <2>2
  <1>3. /\ x.from \in Nat /\ x.to \in Nat /\ x.from < x.to
        /\ \A k \in 1..n : items[k].from \in Nat /\ items[k].to \in Nat
    BY <1>1 DEF Timed
  <1>4. PICK c \in Nat, e \in Seq(Nat) :
              /\ t = [ends |-> e, cols |-> Append(s.cols, c)]
              /\ Len(s.ends) <= Len(e)
              /\ c \in 1..Len(e) /\ e[c] = x.to
              /\ \A k \in 1..Len(e) : k # c => k \in 1..Len(s.ends) /\ e[k] = s.ends[k]
              /\ c \in 1..Len(s.ends) => s.ends[c] <= x.from
              /\ \A k \in 1..(c - 1) : k \in 1..Len(s.ends) /\ x.from < s.ends[k]
    BY <1>2, <1>3, Seat
  <1> DEFINE cols == Append(s.cols, c)
  <1>5. /\ cols \in Seq(Nat) /\ Len(cols) = n + 1 /\ cols[n + 1] = c
        /\ \A k \in 1..n : cols[k] = s.cols[k]
    BY <1>2, AppendProperties
  <1> HIDE DEF cols, x, t
  <1>6. t.ends = e /\ t.cols = cols /\ t \in Seats
    BY <1>4, <1>5 DEF Seats, cols
  <1>7. /\ \A k \in 1..n : s.cols[k] \in 1..Len(s.ends) /\ items[k].to <= s.ends[s.cols[k]]
        /\ \A d \in 1..Len(s.ends) : \E k \in 1..n : s.cols[k] = d /\ items[k].to = s.ends[d]
        /\ \A j, k \in 1..n : j < k /\ s.cols[j] = s.cols[k] => items[j].to <= items[k].from
        /\ \A k \in 1..n : \A d \in 1..(s.cols[k] - 1) :
              \E j \in 1..n : j < k /\ s.cols[j] = d /\ items[k].from < items[j].to
    BY Zenon DEF Fits
  <1>8. Len(e) \in Nat /\ Len(s.ends) \in Nat /\ s.ends \in Seq(Nat)
    BY <1>2, <1>4 DEF Seats
  <1>9. ASSUME NEW k \in 1..n, s.cols[k] = c
        PROVE  items[k].to <= x.from
    <2>1. c \in 1..Len(s.ends) /\ items[k].to <= s.ends[c]
      BY <1>7, <1>9
    <2>2. s.ends[c] <= x.from /\ s.ends[c] \in Nat
      BY <1>2, <1>4, <2>1
    <2> QED BY <1>3, <2>1, <2>2
  <1>10. ASSUME NEW k \in 1..(n + 1)
         PROVE  cols[k] \in 1..Len(e) /\ items[k].to <= e[cols[k]]
    <2>1. CASE k = n + 1
      BY <1>3, <1>4, <1>5, <2>1 DEF x
    <2>2. CASE k \in 1..n /\ s.cols[k] = c
      <3>1. items[k].to <= x.from
        BY <1>9, <2>2
      <3>2. items[k].to <= x.to
        BY <1>3, <2>2, <3>1
      <3> QED BY <1>4, <1>5, <2>2, <3>2
    <2>3. CASE k \in 1..n /\ s.cols[k] # c
      <3>1. s.cols[k] \in 1..Len(s.ends) /\ items[k].to <= s.ends[s.cols[k]]
        BY <1>7, <2>3
      <3>2. s.cols[k] \in 1..Len(e)
        <4>1. Len(s.ends) <= Len(e)
          BY <1>4
        <4> QED BY <1>8, <3>1, <4>1
      <3>3. e[s.cols[k]] = s.ends[s.cols[k]]
        BY <1>4, <2>3, <3>2
      <3> QED BY <1>5, <2>3, <3>1, <3>2, <3>3
    <2> QED BY <1>1, <2>1, <2>2, <2>3
  <1>11. ASSUME NEW d \in 1..Len(e)
         PROVE  \E k \in 1..(n + 1) : cols[k] = d /\ items[k].to = e[d]
    <2>1. CASE d = c
      BY <1>1, <1>4, <1>5, <2>1 DEF x
    <2>2. CASE d # c
      <3>1. d \in 1..Len(s.ends) /\ e[d] = s.ends[d]
        BY <1>4, <2>2
      <3>2. PICK k \in 1..n : s.cols[k] = d /\ items[k].to = s.ends[d]
        BY <1>7, <3>1
      <3> QED BY <1>1, <1>5, <3>1, <3>2
    <2> QED BY <2>1, <2>2
  <1>12. ASSUME NEW j \in 1..(n + 1), NEW k \in 1..(n + 1), j < k, cols[j] = cols[k]
         PROVE  items[j].to <= items[k].from
    <2>1. j \in 1..n
      BY <1>12
    <2>2. CASE k = n + 1
      BY <1>5, <1>9, <1>12, <2>1, <2>2 DEF x
    <2>3. CASE k \in 1..n
      BY <1>5, <1>7, <1>12, <2>1, <2>3
    <2> QED BY <1>1, <2>2, <2>3
  <1>13. ASSUME NEW k \in 1..(n + 1), NEW d \in 1..(cols[k] - 1)
         PROVE  \E j \in 1..(n + 1) : j < k /\ cols[j] = d /\ items[k].from < items[j].to
    <2>1. CASE k = n + 1
      <3>1. d \in 1..(c - 1)
        BY <1>5, <2>1
      <3>2. d \in 1..Len(s.ends) /\ x.from < s.ends[d]
        BY <1>4, <3>1
      <3>3. PICK j \in 1..n : s.cols[j] = d /\ items[j].to = s.ends[d]
        BY <1>7, <3>2
      <3>4. j < k
        BY <2>1
      <3> QED BY <1>1, <1>5, <2>1, <3>2, <3>3, <3>4 DEF x
    <2>2. CASE k \in 1..n
      <3>1. d \in 1..(s.cols[k] - 1)
        BY <1>5, <2>2
      <3>2. PICK j \in 1..n : j < k /\ s.cols[j] = d /\ items[k].from < items[j].to
        BY <1>7, <2>2, <3>1
      <3> QED BY <1>1, <1>5, <3>2
    <2> QED BY <1>1, <2>1, <2>2
  <1>14. Fits(t, items, n + 1)
    BY <1>5, <1>6, <1>10, <1>11, <1>12, <1>13 DEF Fits
  <1> QED BY <1>14 DEF t, x

LEMMA ColumnsFit ==
    ASSUME NEW items, NEW n \in Nat, Len(items) = n, Timed(items, n)
    PROVE  \E s : T!Columns(items) = s.cols /\ Fits(s, items, n)
  <1> DEFINE none == [ends |-> <<>>, cols |-> <<>>]
             Good == [j \in Nat |-> {s \in Seats : Fits(s, items, j)}]
             step == [j \in Nat |-> [s \in Seats |-> T!Seated(s, items[j])]]
             Run(g) == g = [j \in 0..Len(items) |->
                              IF j = 0 THEN none ELSE T!Seated(g[j - 1], items[j])]
             h == CHOOSE g : Run(g)
  <1>1. Fits(none, items, 0) /\ none \in Seats
    <2>1. none \in Seats /\ Len(none.cols) = 0 /\ Len(none.ends) = 0
      BY DEF Seats
    <2>2. 1..0 = {}
      OBVIOUS
    <2> HIDE DEF none
    <2> QED BY <2>1, <2>2 DEF Fits
  <1>2. ASSUME NEW s, NEW j \in 1..n, Fits(s, items, j - 1)
        PROVE  Fits(T!Seated(s, items[j]), items, j)
    <2>1. j - 1 \in Nat /\ (j - 1) + 1 = j /\ 1..j \subseteq 1..n
      OBVIOUS
    <2>2. Timed(items, (j - 1) + 1)
      BY <2>1 DEF Timed
    <2>3. Fits(T!Seated(s, items[(j - 1) + 1]), items, (j - 1) + 1)
      BY <1>2, <2>1, <2>2, Seating
    <2> QED BY <2>1, <2>3
  <1>3. ASSUME NEW s, NEW j, Fits(s, items, j) PROVE s \in Seats
    BY <1>3 DEF Fits
  <1> HIDE DEF none
  <1>4. ASSUME NEW g, g[0] = none,
               \A j \in 1..n : g[j - 1] \in Seats => g[j] = T!Seated(g[j - 1], items[j])
        PROVE  \A j \in 0..n : g[j] \in Good[j]
    <2>1. g[0] \in Good[0]
      BY <1>1, <1>4
    <2>2. ASSUME NEW j \in 1..n, g[j - 1] \in Good[j - 1]
          PROVE  g[j] \in Good[j]
      <3>1. j \in Nat /\ j - 1 \in Nat
        OBVIOUS
      <3>2. Fits(g[j - 1], items, j - 1) /\ g[j - 1] \in Seats
        BY <2>2, <3>1
      <3>3. Fits(g[j], items, j)
        BY <1>2, <1>4, <3>2
      <3> QED BY <1>3, <3>1, <3>3
    <2> HIDE DEF Good
    <2>3. 0 <= n /\ 0 \in Nat /\ 0 + 1 = 1
      OBVIOUS
    <2> QED BY <2>1, <2>2, <2>3, RunsKeep
  <1>5. \E g : Run(g)
    <2>1. PICK g : Runs(g, none, step, 0, n)
      <3>1. 0 <= n /\ 0 \in Nat
        OBVIOUS
      <3> HIDE DEF step
      <3> QED BY <3>1, RunsExist
    <2>2. g[0] = none /\ \A j \in 1..n : g[j] = step[j][g[j - 1]]
      <3> HIDE DEF step
      <3>1. 0 \in 0..n /\ \A j \in 1..n : j \in 0..n /\ j # 0
        OBVIOUS
      <3> QED BY <2>1, <3>1 DEF Runs
    <2>3. \A j \in 1..n : g[j - 1] \in Seats => g[j] = T!Seated(g[j - 1], items[j])
      <3>1. \A j \in 1..n : j \in Nat
        OBVIOUS
      <3> QED BY <2>2, <3>1
    <2>4. \A j \in 0..n : g[j] \in Good[j]
      <3> HIDE DEF Good, step
      <3> QED BY <1>4, <2>2, <2>3
    <2>5. \A j \in 1..n : g[j - 1] \in Seats
      <3>1. \A j \in 1..n : j - 1 \in 0..n /\ j - 1 \in Nat
        OBVIOUS
      <3> QED BY <2>4, <3>1
    <2>6. \A j \in 0..n : g[j] = IF j = 0 THEN none ELSE T!Seated(g[j - 1], items[j])
      <3>1. \A j \in 0..n : j = 0 \/ j \in 1..n
        OBVIOUS
      <3> HIDE DEF Good, step
      <3> QED BY <2>2, <2>3, <2>5, <3>1
    <2>7. g = [j \in 0..n |-> g[j]]
      BY <2>1 DEF Runs
    <2>8. Run(g)
      <3> HIDE DEF Good, step
      <3> QED BY <2>6, <2>7
    <2> QED BY <2>8, Zenon
  <1>6. Run(h)
    BY <1>5, Zenon
  <1>7. T!Columns(items) = h[n].cols
    <2>1. T!Columns(items) = h[Len(items)].cols
      BY Zenon DEF T!Columns, none
    <2> HIDE DEF h
    <2> QED BY <2>1
  <1> HIDE DEF h
  <1>8. \A j \in 0..n : h[j] \in Good[j]
    <2>1. h = [j \in 0..n |-> IF j = 0 THEN none ELSE T!Seated(h[j - 1], items[j])]
      BY <1>6
    <2>2. h[0] = none /\ \A j \in 1..n : h[j] = T!Seated(h[j - 1], items[j])
      <3>1. 0 \in 0..n /\ \A j \in 1..n : j \in 0..n /\ j # 0
        OBVIOUS
      <3> QED BY <2>1, <3>1
    <2> HIDE DEF Good
    <2> QED BY <1>4, <2>2
  <1>9. Fits(h[n], items, n)
    BY <1>8
  <1> QED BY <1>7, <1>9

(***************************************************************************)
(* The items of a day, and where they are to be drawn.                        *)
(***************************************************************************)
Happenings == DOMAIN events \subseteq Events /\ \A e \in DOMAIN events : events[e].shape \in Shapes

IsItem(i) == /\ i.event \in Nat /\ i.nth \in Nat
             /\ i.from \in Nat /\ i.to \in Nat /\ i.from < i.to /\ i.to <= DayLength

\* An item is told by its event and which repetition it is.
Identified(D) == \A i, j \in D : i.event = j.event /\ i.nth = j.nth => i = j

LEMMA Greatest == ASSUME NEW a \in Int PROVE T!Max({a, 0}) \in Nat
  <1>1. \E x \in {a, 0} : \A y \in {a, 0} : x >= y
    OBVIOUS
  <1>2. T!Max({a, 0}) \in {a, 0} /\ \A y \in {a, 0} : T!Max({a, 0}) >= y
    BY <1>1 DEF T!Max
  <1> HIDE DEF T!Max
  <1> QED BY <1>2

LEMMA Smallest ==
    ASSUME NEW a \in Int, NEW b \in Int
    PROVE  T!Min({a, b}) \in Int /\ T!Min({a, b}) <= b
  <1>1. \E x \in {a, b} : \A y \in {a, b} : x <= y
    OBVIOUS
  <1>2. T!Min({a, b}) \in {a, b} /\ \A y \in {a, b} : T!Min({a, b}) <= y
    BY <1>1 DEF T!Min
  <1> HIDE DEF T!Min
  <1> QED BY <1>2

LEMMA TimelineConstants ==
    /\ IsFiniteSet(Events) /\ Events \subseteq Nat /\ MaxSteps \in Nat
    /\ \A s \in Shapes : s.from \in Nat /\ s.to \in Nat /\ s.step \in Nat
    /\ Windows \subseteq Nat /\ DayLength \in Nat /\ Days \in Nat
  <1>1. IsFiniteSet(Events)
    BY BrowserAssumption, Zenon DEF T!TimelineAssumption, T!IsFiniteSet, IsFiniteSet
  <1> QED BY <1>1, BrowserAssumption DEF T!TimelineAssumption

LEMMA ItemShape ==
    ASSUME Happenings, NEW e \in DOMAIN events, NEW n \in Nat, NEW first \in Nat, NEW d \in Nat
    PROVE  LET i == T!Item(e, n, first, d)
           IN  i.event = e /\ i.nth = n /\ i.from \in Nat /\ i.to \in Int /\ i.to <= DayLength
  <1> DEFINE s == events[e].shape
             dawn == (first + d) * DayLength
  <1>1. s.from \in Nat /\ s.to \in Nat /\ s.step \in Nat /\ DayLength \in Nat
    BY TimelineConstants DEF Happenings
  <1> HIDE DEF s
  <1>2. n * s.step \in Nat /\ dawn \in Nat
    BY <1>1
  <1> HIDE DEF dawn
  <1>3. s.from + n * s.step - dawn \in Int /\ s.to + n * s.step - dawn \in Int
    BY <1>1, <1>2
  <1>4. T!Max({s.from + n * s.step - dawn, 0}) \in Nat
    BY <1>3, Greatest
  <1>5. /\ T!Min({s.to + n * s.step - dawn, DayLength}) \in Int
        /\ T!Min({s.to + n * s.step - dawn, DayLength}) <= DayLength
    <2> DEFINE a == s.to + n * s.step - dawn
    <2>1. a \in Int /\ DayLength \in Int
      BY <1>1, <1>3
    <2> HIDE DEF a
    <2>2. T!Min({a, DayLength}) \in Int /\ T!Min({a, DayLength}) <= DayLength
      BY <2>1, Smallest
    <2> QED BY <2>2 DEF a
  <1>6. T!Item(e, n, first, d) =
           [event |-> e, nth |-> n, from |-> T!Max({s.from + n * s.step - dawn, 0}),
            to |-> T!Min({s.to + n * s.step - dawn, DayLength})]
    BY Zenon DEF T!Item, s, dawn
  <1> QED BY <1>4, <1>5, <1>6

LEMMA DayItemsFinite ==
    ASSUME Happenings, NEW first \in Nat, NEW d \in Nat
    PROVE  LET D == T!DayItems(first, d)
           IN  IsFiniteSet(D) /\ Identified(D) /\ \A i \in D : IsItem(i)
  <1> DEFINE D == T!DayItems(first, d)
             F == [p \in Events \X (0..MaxSteps) |-> T!Item(p[1], p[2], first, d)]
             W == {F[p] : p \in Events \X (0..MaxSteps)}
  <1>1. ASSUME NEW i \in D
        PROVE  \E e \in DOMAIN events, n \in 0..MaxSteps :
                  i = T!Item(e, n, first, d) /\ i.from < i.to
    <2>1. PICK e \in DOMAIN events : i \in {T!Item(e, n, first, d) : n \in T!Occurrences(e, first)}
      BY DEF T!DayItems
    <2>2. PICK n \in T!Occurrences(e, first) : i = T!Item(e, n, first, d)
      BY <2>1
    <2>3. n \in 0..MaxSteps
      BY TimelineConstants DEF T!Occurrences
    <2>4. i.from < i.to
      BY DEF T!DayItems
    <2> QED BY <2>2, <2>3, <2>4
  <1>2. IsFiniteSet(Events \X (0..MaxSteps))
    <2>1. IsFiniteSet(0..MaxSteps)
      BY TimelineConstants, FS_Interval
    <2> QED BY <2>1, TimelineConstants, FS_Product
  <1>3. IsFiniteSet(W)
    <2>1. F \in [Events \X (0..MaxSteps) -> W] /\ \A w \in W : \E p \in Events \X (0..MaxSteps) : F[p] = w
      OBVIOUS
    <2>2. F \in Surjection(Events \X (0..MaxSteps), W)
      <3> HIDE DEF F, W
      <3> QED BY <2>1 DEF Surjection
    <2> HIDE DEF F, W
    <2> QED BY <1>2, <2>2, FS_Surjection
  <1>4. D \subseteq W
    <2>1. ASSUME NEW i \in D PROVE i \in W
      <3>1. PICK e \in DOMAIN events, n \in 0..MaxSteps : i = T!Item(e, n, first, d)
        BY <1>1
      <3>2. <<e, n>> \in Events \X (0..MaxSteps)
        BY DEF Happenings
      <3>3. F[<<e, n>>] = i
        BY <3>1, <3>2
      <3> QED BY <3>2, <3>3
    <2> QED BY <2>1
  <1>5. IsFiniteSet(D)
    <2> HIDE DEF D, W
    <2> QED BY <1>3, <1>4, FS_Subset
  <1>6. ASSUME NEW i \in D PROVE IsItem(i)
    <2>1. PICK e \in DOMAIN events, n \in 0..MaxSteps : i = T!Item(e, n, first, d) /\ i.from < i.to
      BY <1>1
    <2>2. n \in Nat /\ e \in Nat
      <3>1. MaxSteps \in Nat /\ Events \subseteq Nat
        BY TimelineConstants
      <3>2. e \in Events
        BY DEF Happenings
      <3>3. e \in Nat
        BY <3>1, <3>2, Zenon
      <3> HIDE DEF D, F, W
      <3> QED BY <3>1, <3>3
    <2>3. i.event = e /\ i.nth = n /\ i.from \in Nat /\ i.to \in Int /\ i.to <= DayLength
      BY <2>1, <2>2, ItemShape
    <2>4. i.to \in Nat
      BY <2>1, <2>3
    <2> QED BY <2>1, <2>2, <2>3, <2>4 DEF IsItem
  <1>7. ASSUME NEW i \in D, NEW j \in D, i.event = j.event, i.nth = j.nth
        PROVE  i = j
    <2>1. PICK e \in DOMAIN events, n \in 0..MaxSteps : i = T!Item(e, n, first, d)
      BY <1>1
    <2>2. PICK f \in DOMAIN events, m \in 0..MaxSteps : j = T!Item(f, m, first, d)
      BY <1>1
    <2>3. n \in Nat /\ m \in Nat
      BY TimelineConstants
    <2>4. i.event = e /\ i.nth = n /\ j.event = f /\ j.nth = m
      BY <2>1, <2>2, <2>3, ItemShape
    <2> QED BY <1>7, <2>1, <2>2, <2>4
  <1>8. Identified(D)
    BY <1>7 DEF Identified
  <1> QED BY <1>5, <1>6, <1>8

\* Sorted, every item has its place, and nobody begins before the one ahead.
LEMMA SortedItems ==
    ASSUME NEW D, IsFiniteSet(D), Identified(D), \A i \in D : IsItem(i)
    PROVE  \E n \in Nat :
              LET l == T!Sorted(D)
              IN  /\ Len(l) = n /\ l \in [1..n -> D]
                  /\ \A p, q \in 1..n : p < q => l[p] # l[q] /\ l[p].from <= l[q].from
  <1> DEFINE n == Cardinality(D)
             r == {p \in D \X D : T!Before(p[1], p[2])}
             rank == Ranks(D, r)
             l == T!Sorted(D)
  <1>1. \A i \in D : i.event \in Nat /\ i.nth \in Nat /\ i.from \in Nat
    BY DEF IsItem
  <1>2. \A i, j \in D : <<i, j>> \in r <=> T!Before(i, j)
    OBVIOUS
  <1> HIDE DEF r
  <1>3. Orders(D, r)
    <2>1. \A i \in D : ~T!Before(i, i)
      BY <1>1 DEF T!Before
    <2>2. \A i, j \in D : i # j => T!Before(i, j) \/ T!Before(j, i)
      BY <1>1 DEF T!Before, Identified
    <2>3. \A i, j, k \in D : T!Before(i, j) /\ T!Before(j, k) => T!Before(i, k)
      BY <1>1 DEF T!Before
    <2> QED BY <1>2, <2>1, <2>2, <2>3 DEF Orders
  <1>4. rank = [i \in D |-> Cardinality({j \in D : T!Before(j, i)})]
    <2>1. \A i \in D : {j \in D : T!Before(j, i)} = {j \in D : <<j, i>> \in r}
      BY <1>2
    <2> QED BY <2>1 DEF Ranks
  <1> HIDE DEF rank
  <1>5. l = ByRank(D, rank)
    <2>1. l = [k \in 1..n |-> CHOOSE i \in D : Cardinality({j \in D : T!Before(j, i)}) = k - 1]
      BY Zenon DEF T!Sorted, T!Cardinality, Cardinality
    <2>2. \A k : (CHOOSE i \in D : Cardinality({j \in D : T!Before(j, i)}) = k) =
                 (CHOOSE i \in D : rank[i] = k)
      BY <1>4
    <2> QED BY <2>1, <2>2 DEF ByRank
  <1> HIDE DEF l
  <1>6. n \in Nat /\ Lists(l, D, r, n)
    BY <1>3, <1>5, ListedLists DEF rank
  <1> HIDE DEF n
  <1>7. l \in [1..n -> D] /\ \A p, q \in 1..n : p < q => <<l[p], l[q]>> \in r
    BY <1>6 DEF Lists
  <1>8. Len(l) = n
    <2>1. l \in Seq(D)
      BY <1>6, <1>7, SeqDef
    <2> QED BY <1>6, <1>7, <2>1, LenProperties
  <1>9. ASSUME NEW p \in 1..n, NEW q \in 1..n, p < q
        PROVE  l[p] # l[q] /\ l[p].from <= l[q].from
    <2>1. l[p] \in D /\ l[q] \in D /\ T!Before(l[p], l[q])
      BY <1>2, <1>7, <1>9
    <2>2. l[p].from < l[q].from \/ l[p].from = l[q].from
      BY <2>1 DEF T!Before
    <2>3. ~T!Before(l[q], l[q])
      BY <1>1, <2>1 DEF T!Before
    <2>4. l[p].from \in Nat /\ l[q].from \in Nat
      BY <1>1, <2>1
    <2>5. l[p] # l[q]
      BY <2>1, <2>3
    <2> QED BY <2>2, <2>4, <2>5
  <1> QED BY <1>6, <1>7, <1>8, <1>9 DEF l

\* What makes the places of all days right: each is within its day and its columns, no
\* two have one key, those that overlap have different columns, and a column further
\* left is taken where a place begins.
IsPlace(p) == /\ p.from \in Nat /\ p.to \in Nat /\ p.from < p.to /\ p.to <= DayLength
              /\ p.among \in Nat /\ p.col \in 1..p.among

Taken(P, p, k) == \E q \in P : /\ q.key[3] = p.key[3] /\ q.col = k
                               /\ q.from <= p.from /\ p.from < q.to

PlacesFit(P) ==
    /\ \A p \in P : IsPlace(p) /\ \A k \in 1..(p.col - 1) : Taken(P, p, k)
    /\ \A p, q \in P : p.key = q.key => p = q
    /\ \A p, q \in P : p # q /\ p.key[3] = q.key[3] /\ T!Overlap(p, q) => p.col # q.col

\* f gives the items of day d their places, in the columns of s.
Placing(f, items, s, n, d) ==
    \A k \in 1..n : /\ f[k].key = <<items[k].event, items[k].nth, d>>
                    /\ f[k].from = items[k].from /\ f[k].to = items[k].to
                    /\ f[k].col = s.cols[k] /\ f[k].among \in Nat /\ f[k].col <= f[k].among

Values(f, n) == {f[k] : k \in 1..n}

LEMMA GreatestColumn ==
    ASSUME NEW D \in SUBSET Nat, NEW k \in D, NEW m \in Nat, \A j \in D : j <= m
    PROVE  T!Max(D) \in Nat /\ k <= T!Max(D)
  <1>1. \E x \in D : \A y \in D : y <= x
    BY NatMax
  <1>2. \A x, y \in D : y <= x => x >= y
    OBVIOUS
  <1>3. \E x \in D : \A y \in D : x >= y
    BY <1>1, <1>2
  <1>4. T!Max(D) \in D /\ \A y \in D : T!Max(D) >= y
    BY <1>3 DEF T!Max
  <1> HIDE DEF T!Max
  <1> QED BY <1>4

LEMMA PlacesOfItems ==
    ASSUME NEW items, NEW n \in Nat, Len(items) = n, DOMAIN items = 1..n, Timed(items, n), NEW d
    PROVE  \E s, f : /\ Fits(s, items, n) /\ Placing(f, items, s, n, d)
                     /\ T!Places(items, d) = Values(f, n)
  <1>1. PICK s : T!Columns(items) = s.cols /\ Fits(s, items, n)
    BY ColumnsFit
  <1> DEFINE cols == s.cols
             near(k) == {j \in 1..n : j = k \/ T!Overlap(items[j], items[k])}
             among(k) == T!Max({cols[j] : j \in near(k)})
             f == [k \in 1..n |-> [key |-> <<items[k].event, items[k].nth, d>>,
                                   from |-> items[k].from, to |-> items[k].to,
                                   col |-> cols[k], among |-> among(k)]]
  <1>2. T!Places(items, d) = {f[k] : k \in 1..n}
    <2>1. T!Places(items, d) =
             {[key |-> <<items[k].event, items[k].nth, d>>,
               from |-> items[k].from, to |-> items[k].to,
               col |-> cols[k], among |-> among(k)] : k \in 1..n}
      BY <1>1, Zenon DEF T!Places
    <2> HIDE DEF among
    <2> QED BY <2>1
  <1>3. \A k \in 1..n : cols[k] \in Nat /\ cols[k] <= Len(s.ends) /\ Len(s.ends) \in Nat
    <2>1. \A k \in 1..n : cols[k] \in 1..Len(s.ends)
      BY <1>1 DEF Fits
    <2>2. Len(s.ends) \in Nat
      BY <1>1 DEF Fits, Seats
    <2> HIDE DEF cols
    <2> QED BY <2>1, <2>2
  <1> HIDE DEF cols
  <1>4. ASSUME NEW k \in 1..n
        PROVE  among(k) \in Nat /\ cols[k] <= among(k)
    <2> DEFINE D == {cols[j] : j \in near(k)}
    <2>1. D \in SUBSET Nat /\ cols[k] \in D /\ \A j \in D : j <= Len(s.ends)
      BY <1>3
    <2>2. Len(s.ends) \in Nat
      BY <1>3
    <2> HIDE DEF D, near
    <2>3. T!Max(D) \in Nat /\ cols[k] <= T!Max(D)
      BY <2>1, <2>2, GreatestColumn
    <2> QED BY <2>3 DEF D
  <1> HIDE DEF among
  <1>5. ASSUME NEW k \in 1..n
        PROVE  /\ f[k].key = <<items[k].event, items[k].nth, d>>
               /\ f[k].from = items[k].from /\ f[k].to = items[k].to
               /\ f[k].col = s.cols[k] /\ f[k].among \in Nat /\ f[k].col <= f[k].among
    BY <1>4 DEF cols
  <1> HIDE DEF f
  <1>6. Placing(f, items, s, n, d)
    BY <1>5 DEF Placing
  <1>7. T!Places(items, d) = Values(f, n)
    BY <1>2 DEF Values
  <1> QED BY <1>1, <1>6, <1>7

\* The items of a day and their places.
LEMMA DayFits ==
    ASSUME Happenings, NEW first \in Nat, NEW d \in Nat
    PROVE  LET P == T!Places(T!Items(first, d), d)
           IN  PlacesFit(P) /\ \A p \in P : p.key[3] = d
  <1> DEFINE D == T!DayItems(first, d)
             items == T!Items(first, d)
             P == T!Places(items, d)
  <1>1. IsFiniteSet(D) /\ Identified(D) /\ \A i \in D : IsItem(i)
    BY DayItemsFinite
  <1>2. items = T!Sorted(D)
    BY DEF T!Items
  <1> HIDE DEF D, items
  <1>3. PICK n \in Nat : /\ Len(items) = n /\ items \in [1..n -> D]
                         /\ \A p, q \in 1..n : p < q => items[p] # items[q] /\ items[p].from <= items[q].from
    BY <1>1, <1>2, SortedItems
  <1>4. \A k \in 1..n : items[k] \in D /\ IsItem(items[k])
    BY <1>1, <1>3
  <1>5. Timed(items, n)
    BY <1>4 DEF Timed, IsItem
  <1>6. DOMAIN items = 1..n
    BY <1>3
  <1>7. PICK s, f : /\ Fits(s, items, n) /\ Placing(f, items, s, n, d)
                    /\ P = Values(f, n)
    BY <1>3, <1>5, <1>6, PlacesOfItems
  <1> HIDE DEF P
  <1>8. \A k \in 1..n : /\ f[k].key = <<items[k].event, items[k].nth, d>>
                        /\ f[k].from = items[k].from /\ f[k].to = items[k].to
                        /\ f[k].col = s.cols[k] /\ f[k].among \in Nat /\ f[k].col <= f[k].among
    BY <1>7 DEF Placing
  <1>9. /\ \A k \in 1..n : s.cols[k] \in 1..Len(s.ends)
        /\ \A j, k \in 1..n : j < k /\ s.cols[j] = s.cols[k] => items[j].to <= items[k].from
        /\ \A k \in 1..n : \A c \in 1..(s.cols[k] - 1) :
              \E j \in 1..n : j < k /\ s.cols[j] = c /\ items[k].from < items[j].to
    BY <1>7, Zenon DEF Fits
  <1>10. \A k \in 1..n : /\ items[k].from \in Nat /\ items[k].to \in Nat
                         /\ items[k].from < items[k].to /\ items[k].to <= DayLength
    BY <1>4 DEF IsItem
  <1>11. \A p \in P : \E k \in 1..n : p = f[k]
    BY <1>7 DEF Values
  <1>12. \A k \in 1..n : f[k] \in P
    BY <1>7 DEF Values
  <1>13. ASSUME NEW p \in P PROVE IsPlace(p) /\ p.key[3] = d
    <2>1. PICK k \in 1..n : p = f[k]
      BY <1>11
    <2>2. p.col \in 1..Len(s.ends) /\ p.among \in Nat /\ p.col <= p.among
      BY <1>8, <1>9, <2>1
    <2>3. p.col \in 1..p.among
      BY <2>2
    <2>4. p.key[3] = d
      BY <1>8, <2>1
    <2> QED BY <1>8, <1>10, <2>1, <2>2, <2>3, <2>4 DEF IsPlace
  <1>14. ASSUME NEW p \in P, NEW c \in 1..(p.col - 1) PROVE Taken(P, p, c)
    <2>1. PICK k \in 1..n : p = f[k]
      BY <1>11
    <2>2. c \in 1..(s.cols[k] - 1)
      BY <1>8, <2>1
    <2>3. PICK j \in 1..n : j < k /\ s.cols[j] = c /\ items[k].from < items[j].to
      BY <1>9, <2>2
    <2>4. f[j] \in P /\ f[j].key[3] = p.key[3]
      BY <1>12, <1>13, <2>1
    <2>5. f[j].col = c /\ f[j].from <= p.from /\ p.from < f[j].to
      <3>1. items[j].from <= items[k].from
        BY <1>3, <2>3
      <3> QED BY <1>8, <2>1, <2>3, <3>1
    <2> QED BY <2>4, <2>5 DEF Taken
  <1>15. ASSUME NEW p \in P, NEW q \in P, p.key = q.key PROVE p = q
    <2>1. PICK k \in 1..n : p = f[k]
      BY <1>11
    <2>2. PICK j \in 1..n : q = f[j]
      BY <1>11
    <2>3. items[k].event = items[j].event /\ items[k].nth = items[j].nth
      BY <1>8, <1>15, <2>1, <2>2
    <2>4. items[k] = items[j]
      BY <1>1, <1>4, <2>3 DEF Identified
    <2>5. ~(k < j) /\ ~(j < k)
      BY <1>3, <2>4
    <2>6. k = j
      BY <2>5
    <2> QED BY <2>1, <2>2, <2>6
  <1>16. ASSUME NEW j \in 1..n, NEW k \in 1..n, j < k, s.cols[j] = s.cols[k]
         PROVE  ~T!Overlap(f[j], f[k]) /\ ~T!Overlap(f[k], f[j])
    <2>1. items[j].to <= items[k].from
      BY <1>9, <1>16
    <2>2. ~(f[k].from < f[j].to)
      BY <1>8, <1>10, <2>1
    <2> QED BY <2>2 DEF T!Overlap
  <1>17. ASSUME NEW p \in P, NEW q \in P, p # q, T!Overlap(p, q) PROVE p.col # q.col
    <2>1. PICK k \in 1..n : p = f[k]
      BY <1>11
    <2>2. PICK j \in 1..n : q = f[j]
      BY <1>11
    <2>3. k < j \/ j < k
      BY <1>17, <2>1, <2>2
    <2> QED BY <1>8, <1>16, <1>17, <2>1, <2>2, <2>3
  <1>18. PlacesFit(P)
    BY <1>13, <1>14, <1>15, <1>17 DEF PlacesFit
  <1> QED BY <1>13, <1>18 DEF P, items

LEMMA DesiredFits ==
    ASSUME Happenings, NEW first \in Nat
    PROVE  PlacesFit(T!Desired(first))
  <1> DEFINE P(d) == T!Places(T!Items(first, d), d)
             all == T!Desired(first)
  <1>1. \A d \in 0..(Days - 1) : PlacesFit(P(d)) /\ \A p \in P(d) : p.key[3] = d
    <2>1. \A d \in 0..(Days - 1) : d \in Nat
      BY TimelineConstants
    <2> QED BY <2>1, DayFits
  <1>2. all = UNION {P(d) : d \in 0..(Days - 1)}
    BY Zenon DEF T!Desired
  <1> HIDE DEF P, all
  <1>3. /\ \A p \in all : \E d \in 0..(Days - 1) : p \in P(d) /\ p.key[3] = d
        /\ \A d \in 0..(Days - 1) : P(d) \subseteq all
    BY <1>1, <1>2
  <1>4. ASSUME NEW p \in all
        PROVE  IsPlace(p) /\ \A k \in 1..(p.col - 1) : Taken(all, p, k)
    <2>1. PICK d \in 0..(Days - 1) : p \in P(d)
      BY <1>3
    <2>2. IsPlace(p) /\ \A k \in 1..(p.col - 1) : Taken(P(d), p, k)
      BY <1>1, <2>1 DEF PlacesFit
    <2>3. \A k : Taken(P(d), p, k) => Taken(all, p, k)
      BY <1>3, <2>1 DEF Taken
    <2> QED BY <2>2, <2>3
  <1>5. ASSUME NEW p \in all, NEW q \in all, p.key[3] = q.key[3]
        PROVE  /\ p.key = q.key => p = q
               /\ p # q /\ T!Overlap(p, q) => p.col # q.col
    <2>1. PICK d \in 0..(Days - 1) : p \in P(d) /\ q \in P(d)
      BY <1>3, <1>5
    <2> QED BY <1>1, <1>5, <2>1 DEF PlacesFit
  <1> QED BY <1>4, <1>5 DEF PlacesFit, all

(***************************************************************************)
(* The blocks on the page: one for each place, and the places are right.       *)
(***************************************************************************)
PlacesOf(bs) == {b.place : b \in bs}

BlocksFit(bs) == PlacesFit(PlacesOf(bs)) /\ \A b, c \in bs : b.place = c.place => b = c

\* A frame draws one block for each place: the page has at most one with its key to keep.
LEMMA DrawsOnce ==
    ASSUME TimelineInv, BlocksFit(blocks), NEW days \in Windows,
           \/ blocks' = T!Patched(T!Desired(days))
           \/ blocks' = {T!Block(p) : p \in T!Desired(days)}
    PROVE  \A b, c \in blocks' : b.place = c.place => b = c
  <1> DEFINE D == T!Desired(days)
  <1> HIDE DEF D
  <1>1. \A p : T!Block(p).place = p
    BY DEF T!Block
  <1>2. ASSUME NEW p, NEW x \in T!Reusable(p), NEW y \in T!Reusable(p) PROVE x = y
    <2>1. x \in blocks /\ y \in blocks /\ x.place.key = y.place.key
      BY DEF T!Reusable, T!Found
    <2>2. x.place \in PlacesOf(blocks) /\ y.place \in PlacesOf(blocks)
      BY <2>1 DEF PlacesOf
    <2>3. x.place = y.place
      BY <2>1, <2>2 DEF BlocksFit, PlacesFit
    <2> QED BY <2>1, <2>3 DEF BlocksFit
  <1>3. CASE blocks' = {T!Block(p) : p \in D}
    <2>1. \A b \in blocks' : \E p \in D : b = T!Block(p)
      BY <1>3
    <2> QED BY <1>1, <2>1
  <1>4. CASE blocks' = T!Patched(D)
    <2> DEFINE Kept(b) == \E p \in D : \E c \in T!Reusable(p) : b = [c EXCEPT !.place = p]
               New(b) == \E p \in D : T!Reusable(p) = {} /\ b = T!Block(p)
    <2>1. blocks' = {b \in blocks : ~b.tracked}
                    \cup {[x[1] EXCEPT !.place = x[2]] :
                            x \in {y \in blocks \X D : y[1] \in T!Reusable(y[2])}}
                    \cup {T!Block(p) : p \in {q \in D : T!Reusable(q) = {}}}
      BY <1>4 DEF T!Patched
    <2>2. {b \in blocks : ~b.tracked} = {}
      BY DEF TimelineInv, IsBlock
    <2>3. \A b \in blocks' : Kept(b) \/ New(b)
      BY <2>1, <2>2
    <2>4. \A p : \A c \in T!Reusable(p) : [c EXCEPT !.place = p].place = p
      <3>1. ASSUME NEW p, NEW c \in T!Reusable(p) PROVE [c EXCEPT !.place = p].place = p
        BY Reused
      <3> QED BY <3>1
    <2>5. ASSUME NEW b \in blocks', NEW c \in blocks', b.place = c.place PROVE b = c
      <3>1. ASSUME NEW x \in blocks', NEW p, Kept(x), x.place = p
            PROVE  \E y \in T!Reusable(p) : x = [y EXCEPT !.place = p]
        BY <2>4, <3>1
      <3>2. ASSUME NEW x \in blocks', NEW p, New(x), x.place = p
            PROVE  T!Reusable(p) = {} /\ x = T!Block(p)
        BY <1>1, <3>2
      <3> DEFINE p == b.place
      <3> HIDE DEF p, Kept, New
      <3>3. b.place = p /\ c.place = p
        BY <2>5 DEF p
      <3>4. CASE Kept(b) /\ Kept(c)
        <4>1. PICK x \in T!Reusable(p) : b = [x EXCEPT !.place = p]
          BY <3>1, <3>3, <3>4
        <4>2. PICK y \in T!Reusable(p) : c = [y EXCEPT !.place = p]
          BY <3>1, <3>3, <3>4
        <4>3. x = y
          BY <1>2
        <4> QED BY <4>1, <4>2, <4>3
      <3>5. CASE New(b) /\ New(c)
        BY <3>2, <3>3, <3>5
      <3>6. ~(Kept(b) /\ New(c)) /\ ~(New(b) /\ Kept(c))
        BY <3>1, <3>2, <3>3
      <3> QED BY <2>3, <3>4, <3>5, <3>6
    <2> QED BY <2>5
  <1> QED BY <1>3, <1>4 DEF D

\* Nothing is on the page.
LEMMA EmptyFits == BlocksFit({})
  <1>1. PlacesOf({}) = {}
    BY DEF PlacesOf
  <1> QED BY <1>1 DEF BlocksFit, PlacesFit

LayoutInv == /\ TimelineInv /\ Happenings /\ BlocksFit(blocks)
             /\ Len(frames) <= MaxFrames

LEMMA LayoutInit == ASSUME T!Init PROVE LayoutInv
  <1>1. /\ blocks = {} /\ frames = <<[days |-> window, patch |-> FALSE]>>
        /\ events \in UNION {[S -> {x \in T!Event : x.text = CHOOSE y \in Texts : TRUE}] :
                               S \in SUBSET Events}
    BY DEF T!Init
  <1>2. \E S \in SUBSET Events : events \in [S -> T!Event]
    BY <1>1
  <1>3. Happenings
    BY <1>2 DEF Happenings, T!Event
  <1>4. Len(frames) = 1
    BY <1>1
  <1>5. Len(frames) <= MaxFrames
    BY <1>4, BrowserAssumption DEF T!TimelineAssumption
  <1> QED BY <1>1, <1>3, <1>5, EmptyFits, TimelineInit DEF LayoutInv

LEMMA HappeningsNext == ASSUME Happenings, T!Change PROVE Happenings'
  <1>1. PICK e \in Events :
           \/ \E x \in T!Event :
                 events' = [f \in DOMAIN events \cup {e} |-> IF f = e THEN x ELSE events[f]]
           \/ events' = [f \in DOMAIN events \ {e} |-> events[f]]
    BY DEF T!Change
  <1> QED BY <1>1 DEF Happenings, T!Event

LEMMA LayoutNext == ASSUME LayoutInv, [T!Next]_(T!vars) PROVE LayoutInv'
  <1>1. TimelineInv /\ TimelineInv' /\ Happenings /\ BlocksFit(blocks)
    BY TimelineNext DEF LayoutInv
  <1>2. Len(frames) <= MaxFrames /\ Len(frames) \in Nat /\ MaxFrames \in Nat
    BY BrowserAssumption DEF LayoutInv, TimelineInv, T!TimelineAssumption
  <1>3. ASSUME events' = events PROVE Happenings'
    BY <1>1, <1>3 DEF Happenings
  <1>4. ASSUME blocks' = blocks PROVE BlocksFit(blocks)'
    BY <1>1, <1>4 DEF BlocksFit, PlacesFit, PlacesOf, IsPlace, Taken
  <1>5. ASSUME NEW f, Len(frames) < MaxFrames, frames' = Append(frames, f)
        PROVE  Len(frames)' <= MaxFrames
    BY <1>1, <1>2, <1>5 DEF TimelineInv
  <1>6. ASSUME T!FullDrawing, events' = events PROVE LayoutInv'
    <2>1. blocks' = {} /\ Len(frames) < MaxFrames
          /\ frames' = Append(frames, [days |-> window, patch |-> FALSE])
      BY <1>6 DEF T!FullDrawing
    <2>2. BlocksFit(blocks)'
      BY <2>1, EmptyFits DEF BlocksFit, PlacesFit, PlacesOf, IsPlace, Taken
    <2> QED BY <1>1, <1>3, <1>5, <1>6, <2>1, <2>2 DEF LayoutInv
  <1>7. CASE T!Change
    <2>1. UNCHANGED <<blocks, frames>>
      BY <1>7 DEF T!Change, T!Edit
    <2> QED BY <1>1, <1>2, <1>4, <1>7, <2>1, HappeningsNext DEF LayoutInv
  <1>8. CASE T!Recolour \/ T!Navigate \/ UNCHANGED T!vars
    <2>1. UNCHANGED <<events, blocks, frames>>
      BY <1>8 DEF T!Recolour, T!Navigate, T!Edit, T!vars
    <2> QED BY <1>1, <1>2, <1>3, <1>4, <2>1 DEF LayoutInv
  <1>9. CASE T!Render
    BY <1>6, <1>9 DEF T!Render
  <1>10. CASE T!Patch
    <2>1. events' = events
      BY <1>10 DEF T!Patch
    <2>2. CASE ~T!FullDrawing
      <3>1. /\ Len(frames) < MaxFrames /\ blocks' = blocks
            /\ frames' = Append(frames, [days |-> grid, patch |-> TRUE])
        BY <1>10, <2>2 DEF T!Patch
      <3> QED BY <1>1, <1>3, <1>4, <1>5, <2>1, <3>1 DEF LayoutInv
    <2> QED BY <1>6, <2>1, <2>2
  <1>11. CASE T!Frame
    <2> DEFINE days == Head(frames).days
    <2>1. /\ frames # <<>> /\ frames' = Tail(frames) /\ events' = events
          /\ \/ blocks' = T!Patched(T!Desired(days))
             \/ blocks' = {T!Block(p) : p \in T!Desired(days)}
      BY <1>11 DEF T!Frame
    <2>2. frames \in Seq(FrameOrder)
      BY <1>1 DEF TimelineInv
    <2>3. Head(frames) \in FrameOrder /\ Len(Tail(frames)) = Len(frames) - 1
      BY <2>1, <2>2, HeadTailProperties
    <2>4. days \in Windows
      BY <2>3 DEF FrameOrder
    <2>5. days \in Nat
      BY <2>4, TimelineConstants
    <2> HIDE DEF days
    <2>6. {b.place : b \in blocks'} = T!Desired(days)
      BY <1>1, <2>1, <2>4, TimelineDraws
    <2>7. \A b, c \in blocks' : b.place = c.place => b = c
      BY <1>1, <2>1, <2>4, DrawsOnce
    <2>8. PlacesFit(T!Desired(days))
      BY <1>1, <2>5, DesiredFits
    <2>9. BlocksFit(blocks)'
      <3>1. PlacesOf(blocks') = T!Desired(days)
        BY <2>6, Zenon DEF PlacesOf
      <3>2. BlocksFit(blocks')
        BY <2>7, <2>8, <3>1 DEF BlocksFit
      <3> QED BY <3>2 DEF BlocksFit, PlacesFit, PlacesOf, IsPlace, Taken
    <2>10. Len(frames)' <= MaxFrames
      BY <1>2, <2>1, <2>3
    <2> QED BY <1>1, <1>3, <2>1, <2>9, <2>10 DEF LayoutInv
  <1> QED BY <1>7, <1>8, <1>9, <1>10, <1>11 DEF T!Next

\* What is on the page then: no shared column, none without need, and the blocks' types.
LEMMA LayoutFits ==
    ASSUME LayoutInv
    PROVE  T!NoSharedColumn /\ T!ColumnsAreNeeded /\ T!TypeOK
  <1>1. /\ BlocksFit(blocks) /\ \A b \in blocks : IsBlock(b) /\ b.place \in PlacesOf(blocks)
        /\ Len(frames) <= MaxFrames
    BY DEF LayoutInv, TimelineInv, PlacesOf
  <1>2. \A p \in PlacesOf(blocks) : \E b \in blocks : b.place = p
    BY DEF PlacesOf
  <1>3. T!NoSharedColumn
    BY <1>1 DEF T!NoSharedColumn, T!SameDay, BlocksFit, PlacesFit
  <1>4. ASSUME NEW b \in blocks, NEW k \in 1..(b.place.col - 1)
        PROVE  \E c \in blocks : /\ T!SameDay(b, c) /\ c.place.col = k
                                 /\ c.place.from <= b.place.from
                                 /\ b.place.from < c.place.to
    <2>1. Taken(PlacesOf(blocks), b.place, k)
      BY <1>1 DEF BlocksFit, PlacesFit
    <2>2. PICK q \in PlacesOf(blocks) : /\ q.key[3] = b.place.key[3] /\ q.col = k
                                        /\ q.from <= b.place.from /\ b.place.from < q.to
      BY <2>1 DEF Taken
    <2> QED BY <1>2, <2>2 DEF T!SameDay
  <1>5. T!ColumnsAreNeeded
    BY <1>4 DEF T!ColumnsAreNeeded
  <1>6. ASSUME NEW b \in blocks
        PROVE  /\ b.tracked /\ 0 <= b.place.from /\ b.place.from < b.place.to
               /\ b.place.to <= DayLength /\ b.place.col \in 1..b.place.among
    <2>1. IsPlace(b.place)
      BY <1>1 DEF BlocksFit, PlacesFit
    <2>2. b.tracked
      BY <1>1 DEF IsBlock
    <2>3. 0 <= b.place.from
      BY <2>1 DEF IsPlace
    <2> QED BY <2>1, <2>2, <2>3 DEF IsPlace
  <1>7. \A b, c \in blocks : b.place.key = c.place.key => b = c
    BY <1>1 DEF BlocksFit, PlacesFit
  <1> QED BY <1>1, <1>3, <1>5, <1>6, <1>7 DEF T!TypeOK

LayoutPart == script = "timeline" => LayoutInv

LEMMA LayoutPartAlways == BrowserSpec => []LayoutPart
  <1>1. BrowserInit => LayoutPart
    BY LayoutInit DEF BrowserInit, LayoutPart
  <1>2. LayoutPart /\ [BrowserNext]_browserVars => LayoutPart'
    BY Steps, LayoutNext DEF LayoutPart
  <1> QED BY <1>1, <1>2, PTL DEF BrowserSpec

\* On a day, items that overlap never share a column, and where one begins every column
\* to its left is taken, for every number of events and every way they overlap
\* (computeColumnLayout, called for each day by _renderEventBlocksInner).
THEOREM TimelineColumnsAlwaysFit == BrowserSpec => []TimelineColumnsFit
  <1>1. LayoutPart => TimelineColumnsFit
    BY LayoutFits DEF LayoutPart, TimelineColumnsFit
  <1> QED BY <1>1, LayoutPartAlways, PTL

(***************************************************************************)
(* EditingLocks.                                                             *)
(***************************************************************************)
Kinds == {"lock", "unlock", "save"}
Said == [what : {"lock", "unlock"}, by : People]

EditingTypes ==
    /\ lock \in People \cup {Nobody} /\ pending \in Seq(Said)
    /\ requests \in [People -> Seq(Kinds)] /\ news \in [People -> Seq(Said)]
    /\ known \in [People -> People \cup {Nobody}]
    /\ open \in [People -> BOOLEAN] /\ saved \in [People -> Nat]
    /\ disturbed \in BOOLEAN

Unlocks(u) == {i \in DOMAIN requests[u] : requests[u][i] = "unlock"}

\* A closed form has sent a release after every request for the lock.
GivesBack ==
    \A u \in People \ unruly : ~open[u] =>
       /\ lock = u => Unlocks(u) # {}
       /\ \A i \in DOMAIN requests[u] :
             requests[u][i] = "lock" => \E j \in Unlocks(u) : i < j

\* What a page will know when all that was said has come to it.
WillKnow(u) == IF pending # <<>> THEN E!KnownAfter(u, pending[1])
               ELSE IF news[u] # <<>> THEN E!KnownAfter(u, news[u][Len(news[u])])
               ELSE known[u]

\* A save releases the lock in silence, but the release of the form follows.
ReleaseToCome == \E v \in People : saved[v] > 0 \/ Unlocks(v) # {}

Told == /\ Len(pending) <= 1
        /\ \A u \in People : WillKnow(u) = lock \/ (lock = Nobody /\ ReleaseToCome)

EditingInv == EditingTypes /\ GivesBack /\ (~disturbed => Told)

LEMMA NobodyIsNoUser == Nobody \notin People
  BY BrowserAssumption DEF E!EditingLocksAssumption

LEMMA EditingSends ==
    ASSUME EditingTypes, NEW u \in People, NEW what \in Kinds, E!Send(u, what)
    PROVE  /\ requests' \in [People -> Seq(Kinds)]
           /\ \A v \in People \ {u} : requests'[v] = requests[v]
           /\ Len(requests'[u]) = Len(requests[u]) + 1
           /\ \A i \in DOMAIN requests[u] : /\ i \in DOMAIN requests'[u]
                                            /\ requests'[u][i] = requests[u][i]
           /\ requests'[u][Len(requests[u]) + 1] = what
           /\ DOMAIN requests'[u] = DOMAIN requests[u] \cup {Len(requests[u]) + 1}
           /\ \A i \in DOMAIN requests[u] : i < Len(requests[u]) + 1
  <1>1. requests \in [People -> Seq(Kinds)]
    BY DEF EditingTypes
  <1>2. requests' = [requests EXCEPT ![u] = Append(requests[u], what)]
    BY DEF E!Send
  <1>3. /\ requests[u] \in Seq(Kinds) /\ requests'[u] = Append(requests[u], what)
        /\ requests' \in [People -> Seq(Kinds)]
        /\ \A v \in People \ {u} : requests'[v] = requests[v]
    BY <1>1, <1>2
  <1> QED BY <1>3, AppendProperties

\* Requests stay in order when one of them is served.
LEMMA EditingServes ==
    ASSUME EditingTypes, NEW u \in People, NEW i \in DOMAIN requests[u],
           requests' = [requests EXCEPT ![u] = E!RemoveAt(@, i)]
    PROVE  /\ requests' \in [People -> Seq(Kinds)]
           /\ \A v \in People \ {u} : requests'[v] = requests[v]
           /\ Len(requests'[u]) = Len(requests[u]) - 1
           /\ \A n \in DOMAIN requests'[u] :
                 /\ requests'[u][n] = IF n < i THEN requests[u][n] ELSE requests[u][n + 1]
                 /\ (IF n < i THEN n ELSE n + 1) \in DOMAIN requests[u]
           /\ \A n \in DOMAIN requests[u] \ {i} :
                 /\ requests'[u][IF n < i THEN n ELSE n - 1] = requests[u][n]
                 /\ (IF n < i THEN n ELSE n - 1) \in DOMAIN requests'[u]
  <1>1. requests \in [People -> Seq(Kinds)]
    BY DEF EditingTypes
  <1>2. requests[u] \in Seq(Kinds)
    BY <1>1
  <1> DEFINE r == Without(requests[u], i)
  <1>3. /\ r \in Seq(Kinds) /\ Len(r) = Len(requests[u]) - 1
        /\ \A n \in DOMAIN r : r[n] = IF n < i THEN requests[u][n] ELSE requests[u][n + 1]
    BY <1>2, Removing
  <1>4. requests' = [requests EXCEPT ![u] = r]
    BY DEF E!RemoveAt, Without
  <1> HIDE DEF r
  <1>5. /\ requests' \in [People -> Seq(Kinds)] /\ requests'[u] = r
        /\ \A v \in People \ {u} : requests'[v] = requests[v]
    BY <1>1, <1>3, <1>4
  <1>6. /\ DOMAIN r = 1..(Len(requests[u]) - 1) /\ DOMAIN requests[u] = 1..Len(requests[u])
        /\ Len(requests[u]) \in Nat
    BY <1>2, <1>3
  <1>7. ASSUME NEW n \in DOMAIN r PROVE (IF n < i THEN n ELSE n + 1) \in DOMAIN requests[u]
    BY <1>6
  <1>8. ASSUME NEW n \in DOMAIN requests[u] \ {i}
        PROVE  /\ r[IF n < i THEN n ELSE n - 1] = requests[u][n]
               /\ (IF n < i THEN n ELSE n - 1) \in DOMAIN r
    <2>1. CASE n < i
      BY <1>3, <1>6, <2>1
    <2>2. CASE ~(n < i)
      <3>1. n - 1 \in DOMAIN r /\ ~(n - 1 < i) /\ n - 1 + 1 = n
        BY <1>6, <2>2
      <3> QED BY <1>3, <2>2, <3>1
    <2> QED BY <2>1, <2>2
  <1> QED BY <1>3, <1>5, <1>7, <1>8

LEMMA EditingInit == BrowserInit /\ script = "editing" => EditingInv
  <1> SUFFICES ASSUME BrowserInit, script = "editing" PROVE EditingInv
    OBVIOUS
  <1>1. E!Init
    BY DEF BrowserInit
  <1>2. EditingTypes
    <2>1. /\ [u \in People |-> <<>>] \in [People -> Seq(Kinds)]
          /\ [u \in People |-> <<>>] \in [People -> Seq(Said)] /\ <<>> \in Seq(Said)
          /\ [u \in People |-> 0] \in [People -> Nat]
      OBVIOUS
    <2> QED BY <1>1, <2>1 DEF E!Init, EditingTypes
  <1>3. GivesBack
    BY <1>1, NobodyIsNoUser DEF E!Init, GivesBack
  <1>4. Told
    BY <1>1 DEF E!Init, Told, WillKnow
  <1> QED BY <1>2, <1>3, <1>4 DEF EditingInv

\* A page that sends a request: its form is open then, or it gives the lock back.
LEMMA EditingAsks ==
    ASSUME EditingInv, NEW u \in People, NEW what \in Kinds, E!Send(u, what),
           UNCHANGED <<lock, pending, news, known, disturbed, unruly>>,
           open' \in [People -> BOOLEAN], saved' \in [People -> Nat],
           \A v \in People \ {u} : open'[v] = open[v],
           what = "unlock" \/ (open'[u] /\ saved' = saved)
    PROVE  EditingInv'
  <1>1. EditingTypes /\ GivesBack /\ (~disturbed => Told)
    BY DEF EditingInv
  <1> DEFINE last == Len(requests[u]) + 1
  <1>2. /\ requests' \in [People -> Seq(Kinds)]
        /\ \A v \in People \ {u} : requests'[v] = requests[v]
        /\ \A i \in DOMAIN requests[u] : /\ i \in DOMAIN requests'[u]
                                         /\ requests'[u][i] = requests[u][i]
        /\ requests'[u][last] = what
        /\ DOMAIN requests'[u] = DOMAIN requests[u] \cup {last}
        /\ \A i \in DOMAIN requests[u] : i < last
    BY <1>1, EditingSends
  <1> HIDE DEF last
  <1>3. EditingTypes'
    BY <1>1, <1>2 DEF EditingTypes
  <1>4. /\ \A v \in People \ {u} : Unlocks(v)' = Unlocks(v)
        /\ Unlocks(u) \subseteq Unlocks(u)'
        /\ what = "unlock" => last \in Unlocks(u)'
    BY <1>2 DEF Unlocks
  <1>5. GivesBack'
    <2> SUFFICES ASSUME NEW v \in People \ unruly, ~open'[v]
                 PROVE  /\ lock = v => Unlocks(v)' # {}
                        /\ \A i \in DOMAIN requests'[v] :
                              requests'[v][i] = "lock" => \E j \in Unlocks(v)' : i < j
      BY DEF GivesBack
    <2>1. CASE v = u
      BY <1>2, <1>4, <2>1
    <2>2. CASE v # u
      BY <1>1, <1>2, <1>4, <2>2 DEF GivesBack
    <2> QED BY <2>1, <2>2
  <1>6. ASSUME ~disturbed PROVE Told'
    <2>1. \A v \in People : WillKnow(v)' = WillKnow(v)
      BY DEF WillKnow, E!KnownAfter
    <2>2. ReleaseToCome => ReleaseToCome'
      <3>1. CASE what = "unlock"
        BY <1>4, <3>1 DEF ReleaseToCome
      <3>2. CASE what # "unlock"
        BY <1>4, <3>2 DEF ReleaseToCome
      <3> QED BY <3>1, <3>2
    <2> QED BY <1>1, <1>6, <2>1, <2>2 DEF Told
  <1> QED BY <1>3, <1>5, <1>6 DEF EditingInv

\* A request that is taken away, as after it was served.
LEMMA EditingTakes ==
    ASSUME EditingTypes, NEW u \in People, NEW i \in DOMAIN requests[u],
           requests' = [requests EXCEPT ![u] = E!RemoveAt(@, i)]
    PROVE  /\ requests' \in [People -> Seq(Kinds)]
           /\ \A v \in People \ {u} : requests'[v] = requests[v] /\ Unlocks(v)' = Unlocks(v)
           /\ requests[u][i] # "unlock" => (Unlocks(u) # {} => Unlocks(u)' # {})
           /\ (/\ requests[u][i] # "unlock" \/ i = 1
               /\ \A n \in DOMAIN requests[u] :
                     requests[u][n] = "lock" => \E j \in Unlocks(u) : n < j)
              => \A n \in DOMAIN requests'[u] :
                    requests'[u][n] = "lock" => \E j \in Unlocks(u)' : n < j
  <1>0. /\ requests' \in [People -> Seq(Kinds)]
        /\ \A v \in People \ {u} : requests'[v] = requests[v]
        /\ Len(requests'[u]) = Len(requests[u]) - 1
        /\ \A n \in DOMAIN requests'[u] :
              /\ requests'[u][n] = IF n < i THEN requests[u][n] ELSE requests[u][n + 1]
              /\ (IF n < i THEN n ELSE n + 1) \in DOMAIN requests[u]
        /\ \A n \in DOMAIN requests[u] \ {i} :
              /\ requests'[u][IF n < i THEN n ELSE n - 1] = requests[u][n]
              /\ (IF n < i THEN n ELSE n - 1) \in DOMAIN requests'[u]
    BY EditingServes
  <1> DEFINE was(n) == IF n < i THEN n ELSE n + 1
             is(n) == IF n < i THEN n ELSE n - 1
  <1>1. /\ requests' \in [People -> Seq(Kinds)]
        /\ \A v \in People \ {u} : requests'[v] = requests[v]
        /\ \A n \in DOMAIN requests'[u] : /\ requests'[u][n] = requests[u][was(n)]
                                          /\ was(n) \in DOMAIN requests[u]
        /\ \A n \in DOMAIN requests[u] \ {i} :
              requests'[u][is(n)] = requests[u][n] /\ is(n) \in DOMAIN requests'[u]
    BY <1>0
  <1>2. /\ requests[u] \in Seq(Kinds) /\ requests'[u] \in Seq(Kinds)
        /\ DOMAIN requests[u] \subseteq Nat /\ DOMAIN requests'[u] \subseteq Nat
    BY <1>1 DEF EditingTypes
  <1> HIDE DEF is, was
  <1>3. \A v \in People \ {u} : Unlocks(v)' = Unlocks(v)
    BY <1>1 DEF Unlocks
  <1>4. \A j \in Unlocks(u) \ {i} : is(j) \in Unlocks(u)'
    BY <1>1 DEF Unlocks
  <1>5. ASSUME requests[u][i] # "unlock", Unlocks(u) # {} PROVE Unlocks(u)' # {}
    BY <1>4, <1>5 DEF Unlocks
  <1>6. ASSUME requests[u][i] # "unlock" \/ i = 1,
               \A n \in DOMAIN requests[u] :
                  requests[u][n] = "lock" => \E j \in Unlocks(u) : n < j,
               NEW n \in DOMAIN requests'[u], requests'[u][n] = "lock"
        PROVE  \E j \in Unlocks(u)' : n < j
    <2>1. was(n) \in DOMAIN requests[u] /\ requests[u][was(n)] = "lock"
      BY <1>1, <1>6
    <2>2. PICK j \in Unlocks(u) : was(n) < j
      BY <1>6, <2>1
    <2>3. j \in DOMAIN requests[u] /\ requests[u][j] = "unlock"
      BY <2>2 DEF Unlocks
    <2>4. n \in Nat /\ j \in Nat /\ i \in Nat /\ n >= 1
      BY <1>2, <2>3
    <2>5. j # i
      <3>1. CASE i = 1
        BY <2>2, <2>4, <3>1 DEF was
      <3>2. CASE requests[u][i] # "unlock"
        BY <2>3, <3>2
      <3> QED BY <1>6, <3>1, <3>2
    <2>6. n < is(j)
      BY <2>2, <2>4, <2>5 DEF was, is
    <2> QED BY <1>4, <2>2, <2>5, <2>6
  <1> QED BY <1>1, <1>3, <1>5, <1>6

\* A handler serves a request.
LEMMA EditingServeInv ==
    ASSUME EditingInv, NEW u \in People, NEW i \in DOMAIN requests[u], E!Serve(u, i)
    PROVE  EditingInv'
  <1> DEFINE what == requests[u][i]
  <1>1. EditingTypes /\ GivesBack /\ (~disturbed => Told)
    BY DEF EditingInv
  <1>2. /\ lock' = IF what = "lock" THEN E!Acquired(u) ELSE E!Released(u)
        /\ pending' = IF E!SaysAfter(u, what) THEN Append(pending, [what |-> what, by |-> u])
                      ELSE pending
        /\ saved' = IF what = "save" THEN [saved EXCEPT ![u] = @ + 1] ELSE saved
        /\ disturbed' = (\/ disturbed \/ pending # <<>>
                         \/ (what = "unlock" /\ lock \notin {u, Nobody}))
        /\ requests' = [requests EXCEPT ![u] = E!RemoveAt(@, i)]
        /\ unruly' = IF i = 1 THEN unruly ELSE unruly \cup {u}
        /\ UNCHANGED <<news, known, open, acts>>
    BY DEF E!Serve
  <1>3. /\ requests' \in [People -> Seq(Kinds)]
        /\ \A v \in People \ {u} : requests'[v] = requests[v] /\ Unlocks(v)' = Unlocks(v)
        /\ what # "unlock" => (Unlocks(u) # {} => Unlocks(u)' # {})
        /\ (/\ what # "unlock" \/ i = 1
            /\ \A n \in DOMAIN requests[u] :
                  requests[u][n] = "lock" => \E j \in Unlocks(u) : n < j)
           => \A n \in DOMAIN requests'[u] :
                 requests'[u][n] = "lock" => \E j \in Unlocks(u)' : n < j
    BY <1>1, <1>2, EditingTakes
  <1>4. what \in Kinds
    BY <1>1 DEF EditingTypes
  <1> HIDE DEF what
  <1>5. EditingTypes'
    <2>1. lock' \in People \cup {Nobody}
      BY <1>1, <1>2 DEF EditingTypes, E!Acquired, E!Released
    <2>2. pending' \in Seq(Said)
      <3>1. CASE E!SaysAfter(u, what)
        <4>1. [what |-> what, by |-> u] \in Said /\ pending \in Seq(Said)
          BY <1>1, <3>1 DEF E!SaysAfter, Said, EditingTypes
        <4> QED BY <1>2, <3>1, <4>1, AppendProperties
      <3>2. CASE ~E!SaysAfter(u, what)
        BY <1>1, <1>2, <3>2 DEF EditingTypes
      <3> QED BY <3>1, <3>2
    <2>3. saved' \in [People -> Nat] /\ disturbed' \in BOOLEAN
      BY <1>1, <1>2 DEF EditingTypes
    <2> QED BY <1>1, <1>2, <1>3, <2>1, <2>2, <2>3 DEF EditingTypes
  <1>6. GivesBack'
    <2> SUFFICES ASSUME NEW v \in People \ unruly', ~open'[v]
                 PROVE  /\ lock' = v => Unlocks(v)' # {}
                        /\ \A n \in DOMAIN requests'[v] :
                              requests'[v][n] = "lock" => \E j \in Unlocks(v)' : n < j
      BY DEF GivesBack
    <2>1. v \notin unruly /\ ~open[v]
      BY <1>2
    <2>2. /\ lock = v => Unlocks(v) # {}
          /\ \A n \in DOMAIN requests[v] :
                requests[v][n] = "lock" => \E j \in Unlocks(v) : n < j
      BY <1>1, <2>1 DEF GivesBack
    <2>3. CASE v # u
      <3>1. lock' = v => lock = v
        BY <1>2, <2>3, NobodyIsNoUser DEF E!Acquired, E!Released
      <3> QED BY <1>3, <2>2, <2>3, <3>1
    <2>4. CASE v = u
      <3>1. i = 1
        BY <1>2, <2>4
      <3>2. \A n \in DOMAIN requests'[u] :
               requests'[u][n] = "lock" => \E j \in Unlocks(u)' : n < j
        BY <1>3, <2>2, <2>4, <3>1
      <3>3. ASSUME lock' = u PROVE Unlocks(u)' # {}
        <4>1. what = "lock"
          BY <1>2, <3>3, NobodyIsNoUser DEF E!Released
        <4>2. Unlocks(u) # {}
          BY <2>2, <2>4, <4>1 DEF what
        <4> QED BY <1>3, <4>1, <4>2
      <3> QED BY <2>4, <3>2, <3>3
    <2> QED BY <2>3, <2>4
  <1>7. ASSUME ~disturbed' PROVE Told'
    <2>1. /\ ~disturbed /\ Told /\ pending = <<>>
          /\ what = "unlock" => lock \in {u, Nobody}
      BY <1>1, <1>2, <1>7
    <2>2. CASE E!SaysAfter(u, what)
      <3> DEFINE said == [what |-> what, by |-> u]
      <3>1. pending' = <<said>>
        BY <1>2, <2>1, <2>2
      <3>2. lock' = IF what = "lock" THEN u ELSE Nobody
        BY <1>2, <2>1, <2>2 DEF E!SaysAfter, E!Acquired, E!Released
      <3>3. \A v \in People : WillKnow(v)' = IF what = "lock" THEN u ELSE Nobody
        BY <3>1 DEF WillKnow, E!KnownAfter
      <3> QED BY <3>1, <3>2, <3>3 DEF Told
    <2>3. CASE ~E!SaysAfter(u, what)
      <3>1. pending' = pending /\ what # "unlock"
        BY <1>2, <2>3 DEF E!SaysAfter
      <3>2. \A v \in People : WillKnow(v)' = WillKnow(v)
        BY <1>2, <3>1 DEF WillKnow, E!KnownAfter
      <3>3. CASE what = "lock"
        <4>1. lock' = lock
          BY <1>2, <2>3, <3>3 DEF E!SaysAfter, E!Acquired
        <4>2. ReleaseToCome => ReleaseToCome'
          BY <1>2, <1>3, <3>3 DEF ReleaseToCome
        <4> QED BY <2>1, <3>1, <3>2, <4>1, <4>2 DEF Told
      <3>4. CASE what = "save"
        <4>1. ReleaseToCome'
          <5>1. saved'[u] > 0
            BY <1>1, <1>2, <3>4 DEF EditingTypes
          <5> QED BY <5>1 DEF ReleaseToCome
        <4>2. lock' = lock \/ lock' = Nobody
          BY <1>2, <3>4 DEF E!Released
        <4> QED BY <1>1, <2>1, <3>1, <3>2, <4>1, <4>2 DEF Told
      <3> QED BY <1>4, <3>1, <3>3, <3>4 DEF Kinds
    <2> QED BY <2>2, <2>3
  <1> QED BY <1>5, <1>6, <1>7 DEF EditingInv

\* A save is refused.
LEMMA EditingRefuseInv ==
    ASSUME EditingInv, NEW u \in People, NEW i \in DOMAIN requests[u], E!Refuse(u, i)
    PROVE  EditingInv'
  <1>1. EditingTypes /\ GivesBack /\ (~disturbed => Told)
    BY DEF EditingInv
  <1>2. /\ requests[u][i] = "save" /\ requests' = [requests EXCEPT ![u] = E!RemoveAt(@, i)]
        /\ UNCHANGED <<lock, pending, news, known, open, saved, disturbed, unruly>>
    BY DEF E!Refuse, E!history
  <1>3. /\ requests' \in [People -> Seq(Kinds)]
        /\ \A v \in People \ {u} : requests'[v] = requests[v] /\ Unlocks(v)' = Unlocks(v)
        /\ Unlocks(u) # {} => Unlocks(u)' # {}
        /\ (\A n \in DOMAIN requests[u] :
               requests[u][n] = "lock" => \E j \in Unlocks(u) : n < j)
           => \A n \in DOMAIN requests'[u] :
                 requests'[u][n] = "lock" => \E j \in Unlocks(u)' : n < j
    BY <1>1, <1>2, EditingTakes
  <1>4. EditingTypes'
    BY <1>1, <1>2, <1>3 DEF EditingTypes
  <1>5. GivesBack'
    <2> SUFFICES ASSUME NEW v \in People \ unruly, ~open[v]
                 PROVE  /\ lock = v => Unlocks(v)' # {}
                        /\ \A n \in DOMAIN requests'[v] :
                              requests'[v][n] = "lock" => \E j \in Unlocks(v)' : n < j
      BY <1>2 DEF GivesBack
    <2>1. /\ lock = v => Unlocks(v) # {}
          /\ \A n \in DOMAIN requests[v] :
                requests[v][n] = "lock" => \E j \in Unlocks(v) : n < j
      BY <1>1 DEF GivesBack
    <2>2. CASE v = u
      BY <1>3, <2>1, <2>2
    <2>3. CASE v # u
      BY <1>3, <2>1, <2>3
    <2> QED BY <2>2, <2>3
  <1>6. ReleaseToCome => ReleaseToCome'
    BY <1>2, <1>3 DEF ReleaseToCome
  <1>7. ~disturbed' => Told'
    BY <1>1, <1>2, <1>6 DEF Told, WillKnow, E!KnownAfter
  <1> QED BY <1>4, <1>5, <1>7 DEF EditingInv

\* Broadcasts on their way: those who ask are not concerned.
LEMMA EditingTells ==
    ASSUME EditingInv, UNCHANGED <<lock, requests, open, saved, unruly>>,
           pending' \in Seq(Said), news' \in [People -> Seq(Said)],
           known' \in [People -> People \cup {Nobody}], disturbed' \in BOOLEAN,
           ~disturbed' => /\ ~disturbed /\ Len(pending') <= 1
                          /\ \A v \in People : WillKnow(v)' = WillKnow(v)
    PROVE  EditingInv'
  <1>1. EditingTypes' /\ GivesBack'
    BY DEF EditingInv, EditingTypes, GivesBack, Unlocks
  <1>2. ASSUME ~disturbed' PROVE Told'
    <2>1. ReleaseToCome' <=> ReleaseToCome
      BY DEF ReleaseToCome, Unlocks
    <2>2. Told
      BY <1>2 DEF EditingInv
    <2> QED BY <1>2, <2>1, <2>2 DEF Told
  <1> QED BY <1>1, <1>2 DEF EditingInv

\* A broadcast is made, lost, or heard.
LEMMA EditingNewsInv ==
    ASSUME EditingInv,
           \/ \E i \in DOMAIN pending : E!Broadcast(i)
           \/ \E u \in People : E!Miss(u) \/ E!Hear(u)
    PROVE  EditingInv'
  <1>1. EditingTypes /\ (~disturbed => Told)
    BY DEF EditingInv
  <1>2. /\ pending \in Seq(Said) /\ news \in [People -> Seq(Said)]
        /\ known \in [People -> People \cup {Nobody}] /\ disturbed \in BOOLEAN
    BY <1>1 DEF EditingTypes
  <1>3. ASSUME NEW i \in DOMAIN pending, E!Broadcast(i) PROVE EditingInv'
    <2>1. /\ pending' = Without(pending, i)
          /\ news' = [u \in People |-> Append(news[u], pending[i])]
          /\ UNCHANGED <<lock, requests, known, open, saved, disturbed, unruly>>
      BY <1>3 DEF E!Broadcast, E!RemoveAt, E!history, Without
    <2>2. pending' \in Seq(Said) /\ Len(pending') = Len(pending) - 1
      BY <1>2, <2>1, Removing
    <2>3. pending[i] \in Said
      BY <1>2
    <2>4. /\ news' \in [People -> Seq(Said)]
          /\ \A u \in People : /\ news'[u] # <<>>
                               /\ news'[u][Len(news'[u])] = pending[i]
      <3>1. ASSUME NEW u \in People
            PROVE  LET more == Append(news[u], pending[i])
                   IN  more \in Seq(Said) /\ more # <<>> /\ more[Len(more)] = pending[i]
        <4>1. news[u] \in Seq(Said)
          BY <1>2
        <4> QED BY <2>3, <4>1, AppendProperties
      <3> QED BY <2>1, <3>1
    <2>5. ASSUME ~disturbed'
          PROVE  /\ ~disturbed /\ Len(pending') <= 1
                 /\ \A v \in People : WillKnow(v)' = WillKnow(v)
      <3>1. Len(pending) <= 1
        BY <1>1, <2>1, <2>5 DEF Told
      <3>2. i = 1 /\ Len(pending') = 0 /\ pending # <<>>
        BY <1>2, <2>2, <3>1
      <3>3. pending' = <<>>
        BY <2>2, <3>2
      <3> QED BY <2>1, <2>4, <2>5, <3>2, <3>3 DEF WillKnow, E!KnownAfter
    <2> QED BY <1>2, <2>1, <2>2, <2>4, <2>5, EditingTells
  <1>4. ASSUME NEW u \in People, E!Miss(u) PROVE EditingInv'
    <2>1. /\ news[u] # <<>> /\ disturbed' = TRUE
          /\ news' = [news EXCEPT ![u] = SubSeq(news[u], 1, Len(news[u]) - 1)]
          /\ UNCHANGED <<lock, pending, requests, known, open, saved, unruly>>
      BY <1>4 DEF E!Miss, E!Front
    <2>2. SubSeq(news[u], 1, Len(news[u]) - 1) \in Seq(Said)
      BY <1>2
    <2>3. news' \in [People -> Seq(Said)]
      BY <1>2, <2>1, <2>2
    <2> QED BY <1>2, <2>1, <2>3, EditingTells
  <1>5. ASSUME NEW u \in People, E!Hear(u) PROVE EditingInv'
    <2>1. /\ news[u] # <<>>
          /\ known' = [known EXCEPT ![u] = E!KnownAfter(u, Head(news[u]))]
          /\ news' = [news EXCEPT ![u] = Tail(@)]
          /\ UNCHANGED <<lock, pending, requests, open, saved, disturbed, unruly>>
      BY <1>5 DEF E!Hear, E!history
    <2>2. /\ Head(news[u]) \in Said /\ Tail(news[u]) \in Seq(Said) /\ Head(news[u]) = news[u][1]
          /\ Len(Tail(news[u])) = Len(news[u]) - 1 /\ Len(news[u]) \in Nat
          /\ \A n \in 1..Len(Tail(news[u])) : Tail(news[u])[n] = news[u][n + 1]
      BY <1>2, <2>1, HeadTailProperties
    <2>3. /\ known' \in [People -> People \cup {Nobody}]
          /\ news' \in [People -> Seq(Said)]
      BY <1>2, <2>1, <2>2 DEF E!KnownAfter, Said
    <2>4. ASSUME ~disturbed'
          PROVE  /\ ~disturbed /\ Len(pending') <= 1
                 /\ \A v \in People : WillKnow(v)' = WillKnow(v)
      <3>1. ~disturbed /\ Len(pending') <= 1
        BY <1>1, <2>1, <2>4 DEF Told
      <3>2. ASSUME NEW v \in People, v # u PROVE WillKnow(v)' = WillKnow(v)
        BY <1>2, <2>1, <3>2 DEF WillKnow, E!KnownAfter
      <3>3. WillKnow(u)' = WillKnow(u)
        <4>1. CASE Tail(news[u]) = <<>>
          <5>1. Len(news[u]) = 1
            <6>1. Len(<<>>) = 0
              OBVIOUS
            <6>2. Len(news[u]) - 1 = 0 /\ Len(news[u]) \in Nat
              BY <2>2, <4>1, <6>1, Zenon
            <6> QED BY <6>2
          <5> QED BY <1>2, <2>1, <2>2, <4>1, <5>1 DEF WillKnow, E!KnownAfter
        <4>2. CASE Tail(news[u]) # <<>>
          <5>1. Len(Tail(news[u])) \in 1..Len(Tail(news[u]))
            BY <2>2, <4>2
          <5>2. news'[u] = Tail(news[u])
            BY <1>2, <2>1
          <5>3. news'[u][Len(news'[u])] = news[u][Len(news[u])]
            BY <2>2, <5>1, <5>2
          <5> QED BY <2>1, <4>2, <5>2, <5>3 DEF WillKnow, E!KnownAfter
        <4> QED BY <4>1, <4>2
      <3> QED BY <3>1, <3>2, <3>3
    <2> QED BY <1>2, <2>1, <2>3, <2>4, EditingTells
  <1> QED BY <1>3, <1>4, <1>5

\* Something that disturbs: the lock runs out, a page is left.
LEMMA EditingDisturbs ==
    ASSUME EditingInv, E!Expire \/ \E u \in People : E!Leave(u) PROVE EditingInv'
  <1>1. EditingTypes /\ GivesBack
    BY DEF EditingInv
  <1>2. CASE E!Expire
    <2>1. /\ lock' = Nobody /\ disturbed' = TRUE
          /\ UNCHANGED <<pending, requests, news, known, open, saved, unruly>>
      BY <1>2 DEF E!Expire
    <2> QED BY <1>1, <2>1, NobodyIsNoUser DEF EditingInv, EditingTypes, GivesBack, Unlocks
  <1>3. ASSUME NEW u \in People, E!Leave(u) PROVE EditingInv'
    <2>1. /\ open' = [open EXCEPT ![u] = FALSE] /\ known' = [known EXCEPT ![u] = Nobody]
          /\ news' = [news EXCEPT ![u] = <<>>] /\ requests' = [requests EXCEPT ![u] = <<>>]
          /\ saved' = [saved EXCEPT ![u] = 0]
          /\ disturbed' = TRUE /\ unruly' = unruly \cup {u}
          /\ UNCHANGED <<lock, pending>>
      BY <1>3 DEF E!Leave
    <2>2. EditingTypes'
      BY <1>1, <2>1 DEF EditingTypes
    <2>3. GivesBack'
      BY <1>1, <2>1 DEF GivesBack, Unlocks, EditingTypes
    <2> QED BY <2>1, <2>2, <2>3 DEF EditingInv
  <1> QED BY <1>2, <1>3

LEMMA EditingNext ==
    ASSUME EditingInv, [E!Next]_(E!vars) PROVE EditingInv'
  <1>1. /\ open \in [People -> BOOLEAN] /\ saved \in [People -> Nat]
    BY DEF EditingInv, EditingTypes
  <1>2. ASSUME NEW u \in People, E!Open(u) \/ E!Save(u) PROVE EditingInv'
    <2>1. PICK what \in {"lock", "save"} : E!Send(u, what)
      BY <1>2 DEF E!Open, E!Save
    <2>2. /\ UNCHANGED <<lock, pending, news, known, disturbed, unruly, saved>>
          /\ open' = [open EXCEPT ![u] = TRUE] \/ (open[u] /\ open' = open)
      BY <1>2 DEF E!Open, E!Save, E!history
    <2>3. /\ open' \in [People -> BOOLEAN] /\ open'[u]
          /\ \A v \in People \ {u} : open'[v] = open[v]
      BY <1>1, <2>2
    <2> QED BY <1>1, <2>1, <2>2, <2>3, EditingAsks DEF Kinds
  <1>3. ASSUME NEW u \in People, E!Close(u) \/ E!SaveAnswered(u) PROVE EditingInv'
    <2>1. /\ UNCHANGED <<lock, pending, news, known, disturbed, unruly>>
          /\ E!Send(u, "unlock") /\ open' = [open EXCEPT ![u] = FALSE]
          /\ saved' = saved \/ (saved[u] > 0 /\ saved' = [saved EXCEPT ![u] = @ - 1])
      BY <1>3 DEF E!Close, E!SaveAnswered, E!history
    <2>2. /\ open' \in [People -> BOOLEAN] /\ saved' \in [People -> Nat]
          /\ \A v \in People \ {u} : open'[v] = open[v]
      BY <1>1, <2>1
    <2> QED BY <2>1, <2>2, EditingAsks DEF Kinds
  <1>4. CASE UNCHANGED E!vars
    BY <1>4 DEF E!vars, E!history, EditingInv, EditingTypes, GivesBack, Told, WillKnow,
                ReleaseToCome, Unlocks, E!KnownAfter
  <1> QED BY <1>2, <1>3, <1>4, EditingServeInv, EditingRefuseInv, EditingNewsInv, EditingDisturbs
          DEF E!Next

EditingPart == script = "editing" => EditingInv

LEMMA EditingHolds == BrowserSpec => []EditingPart
  <1>1. BrowserInit => EditingPart
    BY EditingInit DEF EditingPart
  <1>2. EditingPart /\ [BrowserNext]_browserVars => EditingPart'
    BY Steps, EditingNext DEF EditingPart
  <1> QED BY <1>1, <1>2, PTL DEF BrowserSpec

\* When everything sent has been served and heard, every page knows who holds the
\* lock, unless a broadcast was lost, two handlers overlapped, the lock ran out, or
\* someone else's form was closed while it was held; and whoever holds it has the form
\* open, unless that user's requests overtook one another or the page was left
\* (SetEditingLock, handleEditingLockEvent).
THEOREM EditingAlwaysSettles == BrowserSpec => []EditingSettles
  <1>1. ASSUME EditingInv PROVE E!PagesKnowTheHolder
    <2> SUFFICES ASSUME E!Quiet, ~disturbed, NEW u \in People PROVE known[u] = lock
      BY DEF E!PagesKnowTheHolder
    <2>1. Told /\ EditingTypes
      BY <1>1 DEF EditingInv
    <2>2. WillKnow(u) = known[u]
      BY DEF E!Quiet, WillKnow
    <2>3. ~ReleaseToCome
      BY DEF E!Quiet, ReleaseToCome, Unlocks
    <2> QED BY <2>1, <2>2, <2>3 DEF Told
  <1>2. ASSUME EditingInv PROVE E!HolderIsEditing
    <2> SUFFICES ASSUME E!Quiet, NEW u \in People \ unruly, lock = u, ~open[u] PROVE FALSE
      BY DEF E!HolderIsEditing
    <2>1. Unlocks(u) # {}
      BY <1>2 DEF EditingInv, GivesBack
    <2> QED BY <2>1 DEF E!Quiet, Unlocks
  <1>3. EditingPart => EditingSettles
    BY <1>1, <1>2 DEF EditingPart, EditingSettles
  <1> QED BY <1>3, EditingHolds, PTL

(***************************************************************************)
(* EditingLocks: no page has more answers to its saves under way than it saved. *)
(***************************************************************************)
SavesIn(q) == {i \in DOMAIN q : q[i] = "save"}

SavesCounted ==
    /\ acts \in 0..MaxActs /\ unruly \subseteq People
    /\ \A u \in People : saved[u] + Cardinality(SavesIn(requests[u])) <= acts

LEMMA SavesFinite ==
    ASSUME NEW q \in Seq(Kinds)
    PROVE  IsFiniteSet(SavesIn(q)) /\ Cardinality(SavesIn(q)) \in Nat
  <1>1. Len(q) \in Nat /\ SavesIn(q) \subseteq 1..Len(q)
    BY DEF SavesIn
  <1>2. IsFiniteSet(1..Len(q))
    BY <1>1, FS_Interval
  <1>3. IsFiniteSet(SavesIn(q))
    BY <1>1, <1>2, FS_Subset
  <1> QED BY <1>3, FS_CardinalityType

\* A page sends a request.
LEMMA SavesSent ==
    ASSUME NEW q \in Seq(Kinds), NEW what \in Kinds
    PROVE  /\ what = "save" => Cardinality(SavesIn(Append(q, what))) =
                                  Cardinality(SavesIn(q)) + 1
           /\ what # "save" => SavesIn(Append(q, what)) = SavesIn(q)
  <1> DEFINE r == Append(q, what)
             last == Len(q) + 1
  <1>1. /\ DOMAIN r = DOMAIN q \cup {last} /\ last \notin DOMAIN q /\ r[last] = what
        /\ \A i \in DOMAIN q : r[i] = q[i]
    <2>1. /\ Len(q) \in Nat /\ DOMAIN q = 1..Len(q) /\ DOMAIN r = 1..last
          /\ r[last] = what /\ \A i \in 1..Len(q) : r[i] = q[i]
      BY AppendProperties
    <2> QED BY <2>1
  <1> HIDE DEF r, last
  <1>2. CASE what = "save"
    <2>1. SavesIn(r) = SavesIn(q) \cup {last} /\ last \notin SavesIn(q)
      BY <1>1, <1>2 DEF SavesIn
    <2>2. Cardinality(SavesIn(q) \cup {last}) = Cardinality(SavesIn(q)) + 1
      BY <2>1, SavesFinite, FS_AddElement
    <2> QED BY <1>2, <2>1, <2>2 DEF r
  <1>3. CASE what # "save"
    <2>1. SavesIn(r) = SavesIn(q)
      BY <1>1, <1>3 DEF SavesIn
    <2> QED BY <1>3, <2>1 DEF r
  <1> QED BY <1>2, <1>3

\* A request is taken away: the saves that are left were there before.
LEMMA SavesTaken ==
    ASSUME NEW q \in Seq(Kinds), NEW i \in DOMAIN q
    PROVE  /\ Without(q, i) \in Seq(Kinds)
           /\ Cardinality(SavesIn(Without(q, i))) <= Cardinality(SavesIn(q))
           /\ q[i] = "save" =>
                 Cardinality(SavesIn(Without(q, i))) + 1 <= Cardinality(SavesIn(q))
  <1> DEFINE r == Without(q, i)
             was(n) == IF n < i THEN n ELSE n + 1
             rest == SavesIn(q) \ {i}
             f == [n \in SavesIn(r) |-> was(n)]
  <1>1. /\ r \in Seq(Kinds) /\ Len(r) = Len(q) - 1
        /\ \A n \in DOMAIN r : r[n] = IF n < i THEN q[n] ELSE q[n + 1]
    BY Removing
  <1>2. DOMAIN r = 1..(Len(q) - 1) /\ DOMAIN q = 1..Len(q) /\ Len(q) \in Nat /\ i \in 1..Len(q)
    BY <1>1
  <1> HIDE DEF r
  <1>3. \A n \in DOMAIN r : was(n) \in DOMAIN q /\ was(n) # i /\ r[n] = q[was(n)]
    BY <1>1, <1>2
  <1>4. \A m, n \in DOMAIN r : was(m) = was(n) => m = n
    BY <1>2
  <1> HIDE DEF was
  <1>5. f \in Injection(SavesIn(r), rest)
    <2>1. \A n \in SavesIn(r) : n \in DOMAIN r /\ was(n) \in rest
      BY <1>3 DEF SavesIn
    <2>2. f \in [SavesIn(r) -> rest]
      BY <2>1
    <2>3. \A m, n \in SavesIn(r) : f[m] = f[n] => m = n
      BY <1>4, <2>1
    <2> HIDE DEF f, rest
    <2> QED BY <2>2, <2>3 DEF Injection, IsInjective
  <1>6. IsFiniteSet(rest) /\ Cardinality(rest) <= Cardinality(SavesIn(q))
    <2>1. IsFiniteSet(SavesIn(q)) /\ rest \subseteq SavesIn(q)
      BY SavesFinite
    <2> HIDE DEF rest
    <2> QED BY <2>1, FS_Subset
  <1> HIDE DEF f
  <1>7. Cardinality(SavesIn(r)) <= Cardinality(rest)
    <2> HIDE DEF rest
    <2> QED BY <1>5, <1>6, FS_Injection
  <1>8. q[i] = "save" => Cardinality(rest) = Cardinality(SavesIn(q)) - 1
    BY SavesFinite, FS_RemoveElement DEF SavesIn
  <1>9. /\ Cardinality(SavesIn(q)) \in Nat /\ Cardinality(SavesIn(r)) \in Nat
        /\ Cardinality(rest) \in Nat
    BY <1>1, <1>6, SavesFinite, FS_CardinalityType
  <1> HIDE DEF rest
  <1>10. /\ Cardinality(SavesIn(r)) <= Cardinality(SavesIn(q))
         /\ q[i] = "save" => Cardinality(SavesIn(r)) + 1 <= Cardinality(SavesIn(q))
    BY <1>6, <1>7, <1>8, <1>9
  <1> QED BY <1>1, <1>10 DEF r

\* What a page's requests and answers count to when they are those of one page only.
LEMMA SavesOf ==
    ASSUME EditingTypes, EditingTypes', SavesCounted, NEW u \in People,
           acts' \in 0..MaxActs, acts <= acts', unruly' \subseteq People,
           \A v \in People \ {u} : requests'[v] = requests[v] /\ saved'[v] = saved[v],
           saved'[u] + Cardinality(SavesIn(requests'[u])) <= acts'
    PROVE  SavesCounted'
  <1>1. ASSUME NEW v \in People
        PROVE  saved'[v] + Cardinality(SavesIn(requests'[v])) <= acts'
    <2>1. CASE v = u
      BY <2>1
    <2>2. CASE v # u
      <3> DEFINE n == Cardinality(SavesIn(requests[v]))
      <3>1. saved[v] + n <= acts /\ requests'[v] = requests[v] /\ saved'[v] = saved[v]
        BY <2>2 DEF SavesCounted
      <3>2. acts \in Nat /\ acts' \in Nat /\ saved[v] \in Nat /\ n \in Nat
        BY SavesFinite DEF SavesCounted, EditingTypes
      <3>3. Cardinality(SavesIn(requests'[v])) = n
        BY <3>1
      <3> HIDE DEF n
      <3> QED BY <3>1, <3>2, <3>3
    <2> QED BY <2>1, <2>2
  <1> QED BY <1>1 DEF SavesCounted, SavesIn

LEMMA SavesNext ==
    ASSUME EditingInv, EditingInv', SavesCounted, [E!Next]_(E!vars)
    PROVE  SavesCounted'
  <1>1. /\ EditingTypes /\ EditingTypes' /\ acts \in 0..MaxActs /\ unruly \subseteq People
        /\ requests \in [People -> Seq(Kinds)] /\ saved \in [People -> Nat]
    BY DEF EditingInv, EditingTypes, SavesCounted
  <1>2. /\ MaxActs \in Nat /\ acts \in Nat
        /\ (E!Act => acts' \in 0..MaxActs /\ acts' = acts + 1 /\ acts <= acts')
        /\ (acts' = acts => acts' \in 0..MaxActs /\ acts <= acts')
    BY <1>1, BrowserAssumption DEF E!EditingLocksAssumption, E!Act
  <1>3. \A u \in People : /\ saved[u] \in Nat /\ Cardinality(SavesIn(requests[u])) \in Nat
                          /\ saved[u] + Cardinality(SavesIn(requests[u])) <= acts
    BY <1>1, SavesFinite DEF SavesCounted
  <1>4. ASSUME NEW u \in People, E!Open(u) \/ E!Save(u) \/ E!Close(u) \/ E!SaveAnswered(u)
        PROVE  SavesCounted'
    <2>1. PICK what \in Kinds :
             /\ requests' = [requests EXCEPT ![u] = Append(requests[u], what)]
             /\ \/ /\ what = "save" /\ E!Act /\ saved' = saved
                \/ /\ what # "save"
                   /\ E!Act \/ acts' = acts
                   /\ saved' = saved \/ (saved[u] > 0 /\ saved' = [saved EXCEPT ![u] = saved[u] - 1])
      BY <1>4 DEF E!Open, E!Save, E!Close, E!SaveAnswered, E!Send, Kinds
    <2>2. /\ unruly' \subseteq People
          /\ \A v \in People \ {u} : requests'[v] = requests[v] /\ saved'[v] = saved[v]
          /\ requests'[u] = Append(requests[u], what)
      BY <1>1, <1>4, <2>1 DEF E!Open, E!Save, E!Close, E!SaveAnswered, E!history
    <2> DEFINE n == Cardinality(SavesIn(requests[u]))
               k == Cardinality(SavesIn(requests'[u]))
    <2>3. (what = "save" => k = n + 1) /\ (what # "save" => k = n)
      BY <1>1, <2>2, SavesSent
    <2>4. saved[u] \in Nat /\ n \in Nat /\ saved[u] + n <= acts
      BY <1>3
    <2>5. \/ saved'[u] = saved[u]
          \/ saved[u] > 0 /\ saved'[u] = saved[u] - 1
      BY <1>1, <2>1
    <2>6. what = "save" => saved'[u] = saved[u] /\ acts' = acts + 1
      BY <1>2, <2>1
    <2>7. acts' \in 0..MaxActs /\ acts <= acts'
      BY <1>2, <2>1
    <2> HIDE DEF n, k
    <2>8. saved'[u] + k <= acts'
      BY <1>2, <2>3, <2>4, <2>5, <2>6, <2>7
    <2> QED BY <1>1, <2>2, <2>7, <2>8, SavesOf DEF k
  <1>5. ASSUME NEW u \in People, E!Leave(u) PROVE SavesCounted'
    <2>1. /\ requests' = [requests EXCEPT ![u] = <<>>] /\ saved' = [saved EXCEPT ![u] = 0]
          /\ unruly' = unruly \cup {u} /\ E!Act
      BY <1>5 DEF E!Leave
    <2>2. /\ \A v \in People \ {u} : requests'[v] = requests[v] /\ saved'[v] = saved[v]
          /\ requests'[u] = <<>> /\ saved'[u] = 0 /\ unruly' \subseteq People
      BY <1>1, <2>1
    <2>3. SavesIn(<<>>) = {}
      BY DEF SavesIn
    <2>4. Cardinality(SavesIn(requests'[u])) = 0
      BY <2>2, <2>3, FS_EmptySet
    <2>5. saved'[u] + Cardinality(SavesIn(requests'[u])) <= acts'
      BY <1>2, <2>1, <2>2, <2>4
    <2> QED BY <1>1, <1>2, <2>1, <2>2, <2>5, SavesOf
  <1>6. ASSUME NEW u \in People, NEW i \in DOMAIN requests[u], E!Serve(u, i) \/ E!Refuse(u, i)
        PROVE  SavesCounted'
    <2>1. /\ requests' = [requests EXCEPT ![u] = Without(requests[u], i)]
          /\ \/ saved' = saved
             \/ requests[u][i] = "save" /\ saved' = [saved EXCEPT ![u] = saved[u] + 1]
          /\ acts' = acts /\ unruly' \subseteq unruly \cup {u}
      BY <1>6 DEF E!Serve, E!Refuse, E!RemoveAt, Without, E!history
    <2>2. /\ \A v \in People \ {u} : requests'[v] = requests[v] /\ saved'[v] = saved[v]
          /\ requests'[u] = Without(requests[u], i) /\ unruly' \subseteq People
          /\ \/ saved'[u] = saved[u]
             \/ requests[u][i] = "save" /\ saved'[u] = saved[u] + 1
      BY <1>1, <2>1
    <2> DEFINE n == Cardinality(SavesIn(requests[u]))
               k == Cardinality(SavesIn(requests'[u]))
    <2>3. /\ k <= n /\ k \in Nat
          /\ requests[u][i] = "save" => k + 1 <= n
      BY <1>1, <2>2, SavesTaken, SavesFinite
    <2>4. saved[u] \in Nat /\ n \in Nat /\ saved[u] + n <= acts
      BY <1>3
    <2> HIDE DEF n, k
    <2>5. saved'[u] + k <= acts'
      BY <1>2, <2>1, <2>2, <2>3, <2>4
    <2> QED BY <1>1, <1>2, <2>1, <2>2, <2>5, SavesOf DEF k
  <1>7. ASSUME UNCHANGED <<requests, saved, unruly>>, E!Act \/ acts' = acts PROVE SavesCounted'
    <2>1. acts' \in 0..MaxActs /\ acts <= acts'
      BY <1>2, <1>7
    <2>2. ASSUME NEW u \in People
          PROVE  saved[u] + Cardinality(SavesIn(requests[u])) <= acts'
      <3> DEFINE n == Cardinality(SavesIn(requests[u]))
      <3>1. saved[u] \in Nat /\ n \in Nat /\ saved[u] + n <= acts
        BY <1>3
      <3> HIDE DEF n
      <3>2. saved[u] + n <= acts'
        BY <1>2, <2>1, <3>1
      <3> QED BY <3>2 DEF n
    <2> QED BY <1>1, <1>7, <2>1, <2>2 DEF SavesCounted, SavesIn
  <1>8. ASSUME \/ \E u \in People : E!Miss(u) \/ E!Hear(u)
               \/ \E i \in DOMAIN pending : E!Broadcast(i)
               \/ E!Expire \/ UNCHANGED E!vars
        PROVE  SavesCounted'
    BY <1>7, <1>8 DEF E!Miss, E!Hear, E!Broadcast, E!Expire, E!vars, E!history
  <1> QED BY <1>4, <1>5, <1>6, <1>8 DEF E!Next

EditingTypePart == script = "editing" => EditingInv /\ SavesCounted

\* The variables of EditingLocks have their types.
LEMMA EditingTypesHold == BrowserSpec => [](script = "editing" => E!TypeOK)
  <1>1. BrowserInit => EditingTypePart
    <2> SUFFICES ASSUME BrowserInit, script = "editing" PROVE EditingInv /\ SavesCounted
      BY DEF EditingTypePart
    <2>1. E!Init /\ MaxActs \in Nat
      BY BrowserAssumption DEF BrowserInit, E!EditingLocksAssumption
    <2>2. SavesIn(<<>>) = {}
      BY DEF SavesIn
    <2>3. Cardinality(SavesIn(<<>>)) = 0
      BY <2>2, FS_EmptySet
    <2>4. \A u \in People : saved[u] = 0 /\ requests[u] = <<>>
      BY <2>1 DEF E!Init
    <2>5. \A u \in People : saved[u] + Cardinality(SavesIn(requests[u])) <= acts
      BY <2>1, <2>3, <2>4 DEF E!Init
    <2>6. SavesCounted
      BY <2>1, <2>5 DEF E!Init, SavesCounted
    <2> QED BY <2>6, EditingInit
  <1>2. EditingTypePart /\ [BrowserNext]_browserVars => EditingTypePart'
    BY Steps, EditingNext, SavesNext DEF EditingTypePart
  <1>3. EditingTypePart => (script = "editing" => E!TypeOK)
    <2> SUFFICES ASSUME EditingInv, SavesCounted PROVE E!TypeOK
      BY DEF EditingTypePart
    <2>1. EditingTypes
      BY DEF EditingInv
    <2>2. ASSUME NEW u \in People
          PROVE  saved[u] \in 0..MaxActs /\ E!Range(requests[u]) \subseteq Kinds
      <3> DEFINE n == Cardinality(SavesIn(requests[u]))
      <3>1. requests[u] \in Seq(Kinds) /\ saved[u] \in Nat
        BY <2>1 DEF EditingTypes
      <3>2. n \in Nat /\ saved[u] + n <= acts /\ acts \in 0..MaxActs
        BY <3>1, SavesFinite DEF SavesCounted
      <3> HIDE DEF n
      <3>3. saved[u] \in 0..MaxActs
        BY <3>1, <3>2, BrowserAssumption DEF E!EditingLocksAssumption
      <3>4. E!Range(requests[u]) \subseteq Kinds
        BY <3>1 DEF E!Range
      <3> QED BY <3>3, <3>4
    <2>3. saved \in [People -> 0..MaxActs]
      BY <2>1, <2>2 DEF EditingTypes
    <2> QED BY <2>1, <2>2, <2>3 DEF EditingTypes, SavesCounted, E!TypeOK, Kinds
  <1> QED BY <1>1, <1>2, <1>3, PTL DEF BrowserSpec

(***************************************************************************)
(* OfflineQueue.                                                             *)
(***************************************************************************)
Queue == Seq(Actions)

Replay == [todo : Queue, failed : Queue, attempt : Nat, pc : {"idle", "call", "reply", "pause"}]

Tab == [page : {"app", "login"}, offline : BOOLEAN, forced : BOOLEAN, failures : Nat,
        queue : Queue, syncs : [1..Slots -> Replay]]

Distinct(q) == \A i, j \in 1..Len(q) : q[i] = q[j] => i = j

\* What a replay still has in hand.
InHand(y) == O!ToSet(y.todo) \cup O!ToSet(y.failed)

IsReplay(y) == IF y.pc = "idle" THEN y = O!Resting ELSE y.todo # <<>>

IsTidy(y) == /\ Distinct(y.todo) /\ Distinct(y.failed)
             /\ O!ToSet(y.todo) \cap O!ToSet(y.failed) = {}

TabShape(c) == /\ c \in Tab /\ Distinct(c.queue)
               /\ \A s \in 1..Slots : IsReplay(c.syncs[s]) /\ IsTidy(c.syncs[s])

\* The queue, the replays and the server know of posted actions only, and an action
\* whose answer is awaited was executed.
Within(c, ex, po) ==
    /\ O!ToSet(c.queue) \subseteq po
    /\ \A s \in 1..Slots : /\ InHand(c.syncs[s]) \subseteq po
                           /\ c.syncs[s].pc = "reply" => ex[Head(c.syncs[s].todo)] > 0
    /\ \A a \in Actions : ex[a] > 0 => a \in po

\* An action that is not late is executed, or in the queue and in every replay.
IsSafe(c, ex, a) ==
    ex[a] = 0 => /\ a \in O!ToSet(c.queue)
                 /\ \A s \in O!Running(c) : a \in InHand(c.syncs[s])

\* One that is not doubtful is in the hand of one replay, and after it was executed
\* that replay waits for the answer or is through with it.
IsSure(c, ex, a) ==
    /\ ex[a] # 2
    /\ \A s, t \in 1..Slots : a \in InHand(c.syncs[s]) /\ a \in InHand(c.syncs[t]) => s = t
    /\ ex[a] > 0 =>
          /\ \A s \in 1..Slots :
                /\ a \notin O!ToSet(c.syncs[s].failed)
                /\ a \in O!ToSet(c.syncs[s].todo) =>
                      c.syncs[s].pc = "reply" /\ a = Head(c.syncs[s].todo)
          /\ a \in O!ToSet(c.queue) => O!Running(c) # {}

Sound(c, ex, po, la, do) == /\ TabShape(c) /\ Within(c, ex, po)
                            /\ \A a \in po \ la : IsSafe(c, ex, a)
                            /\ \A a \in Actions \ do : IsSure(c, ex, a)

OfflineInv == /\ executed \in [Actions -> 0..2] /\ posted \subseteq Actions
              /\ Sound(tab, executed, posted, late, doubtful)
              /\ tab.offline => O!Running(tab) # 1..Slots

LEMMA Members ==
    ASSUME NEW q \in Queue
    PROVE  O!ToSet(q) = {q[i] : i \in 1..Len(q)}
  <1>1. DOMAIN q = 1..Len(q)
    BY DEF Queue
  <1> QED BY <1>1, Zenon DEF O!ToSet

LEMMA HeadAndTail ==
    ASSUME NEW q \in Queue, q # <<>>
    PROVE  /\ Tail(q) \in Queue /\ Head(q) \in Actions
           /\ O!ToSet(q) = {Head(q)} \cup O!ToSet(Tail(q))
           /\ Tail(q) = <<>> => O!ToSet(Tail(q)) = {}
           /\ Distinct(q) => Distinct(Tail(q)) /\ Head(q) \notin O!ToSet(Tail(q))
  <1>1. /\ q \in Seq(Actions) /\ Len(q) \in Nat /\ Len(q) > 0 /\ Head(q) = q[1]
        /\ Tail(q) \in Seq(Actions) /\ Len(Tail(q)) = Len(q) - 1
        /\ \A i \in 1..(Len(q) - 1) : Tail(q)[i] = q[i + 1]
    BY DEF Queue
  <1>2. Tail(q) \in Queue /\ Head(q) \in Actions
    BY <1>1 DEF Queue
  <1>3. /\ O!ToSet(q) = {q[i] : i \in 1..Len(q)}
        /\ O!ToSet(Tail(q)) = {Tail(q)[i] : i \in 1..(Len(q) - 1)}
    <2>1. O!ToSet(Tail(q)) = {Tail(q)[i] : i \in 1..Len(Tail(q))}
      BY <1>2, Members
    <2> QED BY <1>1, <2>1, Members, Zenon
  <1>4. O!ToSet(q) = {Head(q)} \cup O!ToSet(Tail(q))
    <2>1. ASSUME NEW x \in O!ToSet(q) PROVE x = Head(q) \/ x \in O!ToSet(Tail(q))
      <3>1. PICK i \in 1..Len(q) : x = q[i]
        BY <1>3, <2>1
      <3>2. CASE i = 1
        BY <1>1, <3>1, <3>2
      <3>3. CASE i # 1
        <4>1. i - 1 \in 1..(Len(q) - 1) /\ Tail(q)[i - 1] = q[i - 1 + 1] /\ i - 1 + 1 = i
          BY <1>1, <3>3
        <4> QED BY <1>3, <3>1, <4>1
      <3> QED BY <3>2, <3>3
    <2>2. Head(q) \in O!ToSet(q)
      BY <1>1, <1>3
    <2>3. ASSUME NEW x \in O!ToSet(Tail(q)) PROVE x \in O!ToSet(q)
      <3>1. PICK i \in 1..(Len(q) - 1) : x = Tail(q)[i]
        BY <1>3, <2>3
      <3>2. i + 1 \in 1..Len(q) /\ x = q[i + 1]
        BY <1>1, <3>1
      <3> QED BY <1>3, <3>2
    <2> QED BY <2>1, <2>2, <2>3
  <1>5. Tail(q) = <<>> => O!ToSet(Tail(q)) = {}
    <2>1. O!ToSet(<<>>) = {}
      BY DEF O!ToSet
    <2> QED BY <2>1, Zenon
  <1>6. ASSUME Distinct(q) PROVE Distinct(Tail(q)) /\ Head(q) \notin O!ToSet(Tail(q))
    <2>1. \A i, j \in 1..Len(q) : q[i] = q[j] => i = j
      BY <1>6 DEF Distinct
    <2>2. ASSUME NEW i \in 1..(Len(q) - 1), NEW j \in 1..(Len(q) - 1), Tail(q)[i] = Tail(q)[j]
          PROVE  i = j
      <3>1. i + 1 \in 1..Len(q) /\ j + 1 \in 1..Len(q) /\ q[i + 1] = q[j + 1]
        BY <1>1, <2>2
      <3>2. i + 1 = j + 1
        BY <2>1, <3>1
      <3> QED BY <3>2
    <2>3. ASSUME NEW i \in 1..(Len(q) - 1), Tail(q)[i] = Head(q) PROVE FALSE
      <3>1. i + 1 \in 1..Len(q) /\ 1 \in 1..Len(q) /\ q[i + 1] = q[1]
        BY <1>1, <2>3
      <3>2. i + 1 = 1
        BY <2>1, <3>1
      <3> QED BY <3>2
    <2> QED BY <1>1, <1>3, <2>2, <2>3 DEF Distinct
  <1> QED BY <1>2, <1>4, <1>5, <1>6

LEMMA Appending ==
    ASSUME NEW q \in Queue, NEW a \in Actions
    PROVE  /\ Append(q, a) \in Queue
           /\ O!ToSet(Append(q, a)) = O!ToSet(q) \cup {a}
           /\ Distinct(q) /\ a \notin O!ToSet(q) => Distinct(Append(q, a))
  <1> DEFINE r == Append(q, a)
  <1>1. /\ q \in Seq(Actions) /\ Len(q) \in Nat /\ r \in Seq(Actions) /\ Len(r) = Len(q) + 1
        /\ \A i \in 1..Len(q) : r[i] = q[i]
        /\ r[Len(q) + 1] = a
    BY DEF Queue
  <1> HIDE DEF r
  <1>2. O!ToSet(q) = {q[i] : i \in 1..Len(q)} /\ O!ToSet(r) = {r[i] : i \in 1..(Len(q) + 1)}
    BY <1>1 DEF O!ToSet
  <1>3. O!ToSet(r) = O!ToSet(q) \cup {a}
    <2>1. ASSUME NEW x \in O!ToSet(r) PROVE x \in O!ToSet(q) \cup {a}
      BY <1>1, <1>2, <2>1
    <2>2. ASSUME NEW x \in O!ToSet(q) PROVE x \in O!ToSet(r)
      BY <1>1, <1>2, <2>2
    <2>3. a \in O!ToSet(r)
      BY <1>1, <1>2
    <2> QED BY <2>1, <2>2, <2>3
  <1>4. ASSUME Distinct(q), a \notin O!ToSet(q) PROVE Distinct(r)
    <2>1. \A i, j \in 1..Len(q) : q[i] = q[j] => i = j
      BY <1>4 DEF Distinct
    <2>2. \A i \in 1..Len(q) : q[i] # a
      BY <1>2, <1>4
    <2>3. ASSUME NEW i \in 1..(Len(q) + 1), NEW j \in 1..(Len(q) + 1), r[i] = r[j] PROVE i = j
      BY <1>1, <2>1, <2>2, <2>3
    <2> QED BY <1>1, <2>3 DEF Distinct
  <1>5. r \in Queue
    BY <1>1 DEF Queue
  <1> QED BY <1>3, <1>4, <1>5 DEF r

LEMMA NothingQueued == <<>> \in Queue /\ O!ToSet(<<>>) = {} /\ Distinct(<<>>)
  <1>1. Len(<<>>) = 0
    OBVIOUS
  <1> QED BY <1>1 DEF Queue, O!ToSet, Distinct

\* What failed, with one more action or none.
LEMMA Missing ==
    ASSUME NEW q \in Queue, NEW a \in Actions
    PROVE  q \o <<>> = q /\ q \o <<a>> = Append(q, a)
  BY DEF Queue

LEMMA ReplayFields ==
    ASSUME NEW y \in Replay
    PROVE  /\ y.todo \in Queue /\ y.failed \in Queue /\ y.attempt \in Nat
           /\ y.pc \in {"idle", "call", "reply", "pause"}
  <1> DEFINE queues == Queue
  <1>1. y \in [todo : queues, failed : queues, attempt : Nat,
               pc : {"idle", "call", "reply", "pause"}]
    BY DEF Replay
  <1> HIDE DEF queues
  <1> QED BY <1>1 DEF queues

LEMMA TabFields ==
    ASSUME NEW c \in Tab
    PROVE  /\ c.page \in {"app", "login"} /\ c.offline \in BOOLEAN /\ c.forced \in BOOLEAN
           /\ c.failures \in Nat /\ c.queue \in Queue /\ c.syncs \in [1..Slots -> Replay]
  <1> DEFINE queues == Queue
             replays == [1..Slots -> Replay]
  <1>1. c \in [page : {"app", "login"}, offline : BOOLEAN, forced : BOOLEAN, failures : Nat,
               queue : queues, syncs : replays]
    BY DEF Tab
  <1> HIDE DEF queues, replays
  <1> QED BY <1>1 DEF queues, replays

LEMMA RestingReplay ==
    /\ O!Resting \in Replay /\ IsReplay(O!Resting) /\ IsTidy(O!Resting)
    /\ O!Resting.pc = "idle" /\ InHand(O!Resting) = {}
    /\ O!Resting.todo = <<>> /\ O!Resting.failed = <<>>
  <1>1. /\ O!Resting.pc = "idle" /\ O!Resting.todo = <<>> /\ O!Resting.failed = <<>>
        /\ O!Resting.attempt = 1
    BY DEF O!Resting
  <1>2. O!Resting \in Replay
    <2> DEFINE queues == Queue
    <2>1. <<>> \in queues
      BY NothingQueued
    <2> HIDE DEF queues
    <2>2. O!Resting \in [todo : queues, failed : queues, attempt : Nat,
                         pc : {"idle", "call", "reply", "pause"}]
      BY <2>1 DEF O!Resting
    <2> QED BY <2>2 DEF queues, Replay
  <1>3. IsTidy(O!Resting) /\ InHand(O!Resting) = {}
    BY <1>1, NothingQueued, Zenon DEF IsTidy, InHand
  <1> QED BY <1>1, <1>2, <1>3 DEF IsReplay

\* One replay is replaced.
Replaces(c, r, s, z) == r \in Tab /\ r.syncs = [c.syncs EXCEPT ![s] = z]

LEMMA Replaced ==
    ASSUME NEW c, TabShape(c), NEW s \in 1..Slots, NEW z, NEW r, Replaces(c, r, s, z)
    PROVE  /\ \A t \in 1..Slots : r.syncs[t] = IF t = s THEN z ELSE c.syncs[t]
           /\ \A t \in 1..Slots : /\ c.syncs[t] \in Replay
                                  /\ c.syncs[t].todo \in Queue /\ c.syncs[t].failed \in Queue
           /\ O!Running(r) \ {s} = O!Running(c) \ {s}
           /\ s \in O!Running(r) <=> z.pc # "idle"
           /\ s \in O!Running(c) <=> c.syncs[s].pc # "idle"
           /\ c.queue \in Queue /\ r.queue \in Queue
  <1>1. c.syncs \in [1..Slots -> Replay] /\ c.queue \in Queue /\ r.queue \in Queue
    BY TabFields DEF TabShape, Replaces
  <1>2. \A t \in 1..Slots : r.syncs[t] = IF t = s THEN z ELSE c.syncs[t]
    BY <1>1 DEF Replaces
  <1>3. \A t \in 1..Slots : c.syncs[t] \in Replay
    BY <1>1
  <1>4. \A t \in 1..Slots : c.syncs[t].todo \in Queue /\ c.syncs[t].failed \in Queue
    BY <1>3, ReplayFields
  <1>5. /\ O!Running(r) \ {s} = O!Running(c) \ {s}
        /\ s \in O!Running(r) <=> z.pc # "idle"
        /\ s \in O!Running(c) <=> c.syncs[s].pc # "idle"
    BY <1>2 DEF O!Running
  <1> QED BY <1>1, <1>2, <1>3, <1>4, <1>5

LEMMA StartSound ==
    ASSUME NEW c, NEW r, NEW ex \in [Actions -> 0..2], NEW po, NEW la, NEW do, NEW more,
           Sound(c, ex, po, la, do), NEW s \in 1..Slots, c.syncs[s].pc = "idle",
           r.queue = c.queue, c.queue # <<>>,
           Replaces(c, r, s, [todo |-> c.queue, failed |-> <<>>, attempt |-> 1, pc |-> "call"]),
           do \subseteq more, O!Running(c) # {} => O!ToSet(c.queue) \subseteq more
    PROVE  Sound(r, ex, po, la, more)
  <1> DEFINE z == [todo |-> c.queue, failed |-> <<>>, attempt |-> 1, pc |-> "call"]
  <1>1. z.todo = c.queue /\ z.failed = <<>> /\ z.pc = "call"
    OBVIOUS
  <1>2. Replaces(c, r, s, z) /\ TabShape(c) /\ Within(c, ex, po)
    BY DEF Sound
  <1> HIDE DEF z
  <1>3. /\ \A t \in 1..Slots : r.syncs[t] = IF t = s THEN z ELSE c.syncs[t]
        /\ c.queue \in Queue /\ s \in O!Running(r)
        /\ O!Running(r) \ {s} = O!Running(c) \ {s}
    BY <1>1, <1>2, Replaced
  <1>4. InHand(z) = O!ToSet(c.queue) /\ O!ToSet(z.failed) = {} /\ O!ToSet(z.todo) = O!ToSet(c.queue)
    BY <1>1, NothingQueued, Zenon DEF InHand
  <1>5. IsReplay(z) /\ IsTidy(z)
    <2>1. Distinct(z.todo) /\ Distinct(z.failed)
      BY <1>1, <1>2, NothingQueued, Zenon DEF TabShape
    <2> QED BY <1>1, <1>4, <2>1 DEF IsReplay, IsTidy
  <1>6. TabShape(r)
    BY <1>2, <1>3, <1>5 DEF TabShape, Replaces
  <1>7. Within(r, ex, po)
    <2>1. O!ToSet(r.queue) = O!ToSet(c.queue)
      BY Zenon
    <2> QED BY <1>1, <1>2, <1>3, <1>4, <2>1 DEF Within
  <1>8. ASSUME NEW a \in po \ la PROVE IsSafe(r, ex, a)
    <2> SUFFICES ASSUME ex[a] = 0
                 PROVE  /\ a \in O!ToSet(r.queue)
                        /\ \A t \in O!Running(r) : a \in InHand(r.syncs[t])
      BY DEF IsSafe
    <2>1. a \in O!ToSet(c.queue) /\ \A t \in O!Running(c) : a \in InHand(c.syncs[t])
      BY DEF Sound, IsSafe
    <2>2. ASSUME NEW t \in O!Running(r) PROVE a \in InHand(r.syncs[t])
      <3>1. t \in 1..Slots
        BY DEF O!Running
      <3>2. CASE t = s
        BY <1>3, <1>4, <2>1, <3>1, <3>2
      <3>3. CASE t # s
        BY <1>3, <2>1, <3>1, <3>3
      <3> QED BY <3>2, <3>3
    <2> QED BY <2>1, <2>2
  <1>9. ASSUME NEW a \in Actions \ more PROVE IsSure(r, ex, a)
    <2>1. IsSure(c, ex, a)
      BY DEF Sound
    <2>2. \A t \in 1..Slots : c.syncs[t].pc = "idle" => InHand(c.syncs[t]) = {}
      BY <1>2, RestingReplay DEF TabShape, IsReplay
    <2>3. \A t, u \in 1..Slots : a \in InHand(r.syncs[t]) /\ a \in InHand(r.syncs[u]) => t = u
      <3>1. CASE O!Running(c) = {}
        <4>1. \A t \in 1..Slots : InHand(c.syncs[t]) = {}
          BY <2>2, <3>1 DEF O!Running
        <4> QED BY <1>3, <4>1
      <3>2. CASE O!Running(c) # {}
        <4>1. a \notin InHand(z)
          BY <1>4, <3>2
        <4> QED BY <1>3, <2>1, <4>1 DEF IsSure
      <3> QED BY <3>1, <3>2
    <2>4. ASSUME ex[a] > 0, NEW t \in 1..Slots
          PROVE  /\ a \notin O!ToSet(r.syncs[t].failed)
                 /\ a \in O!ToSet(r.syncs[t].todo) =>
                       r.syncs[t].pc = "reply" /\ a = Head(r.syncs[t].todo)
      <3>1. CASE t # s
        <4>1. r.syncs[t] = c.syncs[t]
          BY <1>3, <3>1
        <4> QED BY <2>1, <2>4, <4>1 DEF IsSure
      <3>2. CASE t = s
        <4>1. r.syncs[t] = z
          BY <1>3, <3>2
        <4>2. a \notin O!ToSet(c.queue)
          BY <2>1, <2>4 DEF IsSure
        <4> QED BY <1>4, <4>1, <4>2
      <3> QED BY <3>1, <3>2
    <2>5. O!Running(r) # {} /\ ex[a] # 2
      BY <1>3, <2>1 DEF IsSure
    <2> QED BY <2>3, <2>4, <2>5 DEF IsSure
  <1> QED BY <1>6, <1>7, <1>8, <1>9 DEF Sound

\* Nothing that counts has changed, but for what is doubtful.
LEMMA SameSound ==
    ASSUME NEW c, NEW r \in Tab, NEW ex, NEW po, NEW la, NEW do, NEW more,
           Sound(c, ex, po, la, do), r.queue = c.queue, r.syncs = c.syncs, do \subseteq more
    PROVE  Sound(r, ex, po, la, more)
  <1>1. O!Running(r) = O!Running(c)
    BY DEF O!Running
  <1>2. TabShape(r)
    BY DEF Sound, TabShape
  <1>3. Within(r, ex, po)
    BY DEF Sound, Within
  <1>4. ASSUME NEW a \in po \ la PROVE IsSafe(r, ex, a)
    BY <1>1 DEF Sound, IsSafe
  <1>5. ASSUME NEW a \in Actions \ more PROVE IsSure(r, ex, a)
    <2>1. IsSure(c, ex, a)
      BY DEF Sound
    <2> QED BY <1>1, <2>1 DEF IsSure
  <1> QED BY <1>2, <1>3, <1>4, <1>5 DEF Sound

\* The page is loaded again: replays are gone, and their actions are still queued.
LEMMA ReloadSound ==
    ASSUME NEW c, NEW r \in Tab, NEW ex, NEW po, NEW la, NEW do, NEW more,
           Sound(c, ex, po, la, do), r.queue = c.queue,
           \A s \in 1..Slots : r.syncs[s] = O!Resting,
           do \subseteq more, O!Running(c) # {} => O!ToSet(c.queue) \subseteq more
    PROVE  Sound(r, ex, po, la, more)
  <1>1. O!Running(r) = {}
    BY RestingReplay DEF O!Running
  <1>2. \A s \in 1..Slots : /\ InHand(r.syncs[s]) = {} /\ r.syncs[s].pc = "idle"
                            /\ O!ToSet(r.syncs[s].todo) = {} /\ O!ToSet(r.syncs[s].failed) = {}
    BY RestingReplay, NothingQueued DEF InHand
  <1>3. TabShape(r)
    BY RestingReplay DEF Sound, TabShape
  <1>4. Within(r, ex, po)
    <2>1. O!ToSet(r.queue) \subseteq po /\ \A a \in Actions : ex[a] > 0 => a \in po
      BY DEF Sound, Within
    <2> QED BY <1>2, <2>1 DEF Within
  <1>5. ASSUME NEW a \in po \ la PROVE IsSafe(r, ex, a)
    <2>1. IsSafe(c, ex, a)
      BY DEF Sound
    <2> QED BY <1>1, <2>1 DEF IsSafe
  <1>6. ASSUME NEW a \in Actions \ more PROVE IsSure(r, ex, a)
    <2>1. IsSure(c, ex, a)
      BY DEF Sound
    <2>2. ex[a] # 2 /\ (ex[a] > 0 => a \notin O!ToSet(r.queue))
      BY <2>1 DEF IsSure
    <2> QED BY <1>2, <2>2 DEF IsSure
  <1> QED BY <1>3, <1>4, <1>5, <1>6 DEF Sound

\* A new action is queued.
LEMMA PostSound ==
    ASSUME NEW c, NEW r \in Tab, NEW ex \in [Actions -> 0..2], NEW po, NEW la, NEW do,
           Sound(c, ex, po, la, do), NEW a \in Actions, a \notin po,
           r.queue = Append(c.queue, a), r.syncs = c.syncs
    PROVE  Sound(r, ex, po \cup {a}, IF O!Running(c) = {} THEN la ELSE la \cup {a}, do)
  <1> DEFINE later == IF O!Running(c) = {} THEN la ELSE la \cup {a}
  <1>1. O!Running(r) = O!Running(c)
    BY DEF O!Running
  <1>2. TabShape(c) /\ Within(c, ex, po) /\ c.queue \in Queue
    BY TabFields DEF Sound, TabShape
  <1>3. O!ToSet(r.queue) = O!ToSet(c.queue) \cup {a} /\ a \notin O!ToSet(c.queue)
    BY <1>2, Appending DEF Within
  <1>4. Distinct(r.queue)
    BY <1>2, <1>3, Appending DEF TabShape
  <1>5. TabShape(r)
    BY <1>2, <1>4 DEF TabShape
  <1>6. Within(r, ex, po \cup {a})
    BY <1>2, <1>3 DEF Within
  <1>7. ASSUME NEW b \in (po \cup {a}) \ later PROVE IsSafe(r, ex, b)
    <2>1. CASE b = a
      BY <1>1, <1>3, <2>1 DEF IsSafe
    <2>2. CASE b # a
      <3>1. IsSafe(c, ex, b)
        BY <2>2 DEF Sound
      <3> QED BY <1>1, <1>3, <3>1 DEF IsSafe
    <2> QED BY <2>1, <2>2
  <1>8. ASSUME NEW b \in Actions \ do PROVE IsSure(r, ex, b)
    <2>1. IsSure(c, ex, b)
      BY DEF Sound
    <2>2. ~(ex[a] > 0)
      BY <1>2 DEF Within
    <2>3. ex[b] > 0 => b # a
      BY <2>2
    <2>4. ex[b] > 0 /\ b \in O!ToSet(r.queue) => b \in O!ToSet(c.queue)
      BY <1>3, <2>3
    <2> QED BY <1>1, <2>1, <2>4 DEF IsSure
  <1> QED BY <1>5, <1>6, <1>7, <1>8 DEF Sound

\* A replay pauses or calls again: what it has in hand stays.
LEMMA CallSound ==
    ASSUME NEW c, NEW r, NEW ex \in [Actions -> 0..2], NEW po, NEW la, NEW do,
           Sound(c, ex, po, la, do), NEW s \in 1..Slots, NEW z, IsReplay(z),
           c.syncs[s].pc \notin {"idle"}, z.pc \in {"pause", "call"},
           c.syncs[s].pc = "reply" => Head(c.syncs[s].todo) \in do,
           z.todo = c.syncs[s].todo, z.failed = c.syncs[s].failed,
           r.queue = c.queue, Replaces(c, r, s, z)
    PROVE  Sound(r, ex, po, la, do)
  <1>1. TabShape(c) /\ Within(c, ex, po)
    BY DEF Sound
  <1>2. /\ \A t \in 1..Slots : r.syncs[t] = IF t = s THEN z ELSE c.syncs[t]
        /\ O!Running(r) \ {s} = O!Running(c) \ {s}
        /\ s \in O!Running(r) /\ s \in O!Running(c)
    BY <1>1, Replaced
  <1>3. O!Running(r) = O!Running(c)
    BY <1>2
  <1>4. /\ \A t \in 1..Slots : /\ r.syncs[t].todo = c.syncs[t].todo
                               /\ r.syncs[t].failed = c.syncs[t].failed
        /\ \A t \in 1..Slots : InHand(r.syncs[t]) = InHand(c.syncs[t])
    BY <1>2 DEF InHand
  <1>5. TabShape(r)
    <2>1. IsTidy(z)
      BY <1>1 DEF TabShape, IsTidy
    <2> QED BY <1>1, <1>2, <2>1 DEF TabShape, Replaces
  <1>6. Within(r, ex, po)
    BY <1>1, <1>2, <1>4 DEF Within
  <1>7. ASSUME NEW a \in po \ la PROVE IsSafe(r, ex, a)
    <2>1. IsSafe(c, ex, a) /\ \A t \in O!Running(c) : t \in 1..Slots
      BY DEF Sound, O!Running
    <2> QED BY <1>3, <1>4, <2>1 DEF IsSafe
  <1>8. ASSUME NEW a \in Actions \ do PROVE IsSure(r, ex, a)
    <2>1. IsSure(c, ex, a)
      BY DEF Sound
    <2>2. ASSUME ex[a] > 0, NEW t \in 1..Slots, a \in O!ToSet(r.syncs[t].todo)
          PROVE  r.syncs[t].pc = "reply" /\ a = Head(r.syncs[t].todo)
      <3>1. c.syncs[t].pc = "reply" /\ a = Head(c.syncs[t].todo)
        BY <1>4, <2>1, <2>2 DEF IsSure
      <3>2. t # s
        BY <3>1
      <3> QED BY <1>2, <3>1, <3>2
    <2> QED BY <1>3, <1>4, <2>1, <2>2 DEF IsSure
  <1> QED BY <1>5, <1>6, <1>7, <1>8 DEF Sound

\* The server executes the action a replay calls for.
LEMMA ReachSound ==
    ASSUME NEW c, NEW r, NEW ex \in [Actions -> 0..2], NEW fx \in [Actions -> 0..2],
           NEW po, NEW la, NEW do,
           Sound(c, ex, po, la, do), NEW s \in 1..Slots, NEW z, IsReplay(z),
           c.syncs[s].pc = "call", z.pc = "reply",
           z.todo = c.syncs[s].todo, z.failed = c.syncs[s].failed,
           fx = [ex EXCEPT ![Head(z.todo)] = IF @ = 2 THEN 2 ELSE @ + 1],
           r.queue = c.queue, Replaces(c, r, s, z)
    PROVE  Sound(r, fx, po, la, do)
  <1> DEFINE h == Head(z.todo)
  <1>1. TabShape(c) /\ Within(c, ex, po)
    BY DEF Sound
  <1>2. /\ \A t \in 1..Slots : r.syncs[t] = IF t = s THEN z ELSE c.syncs[t]
        /\ O!Running(r) \ {s} = O!Running(c) \ {s}
        /\ s \in O!Running(r) /\ s \in O!Running(c)
    <2>1. z.pc # "idle" /\ c.syncs[s].pc # "idle"
      OBVIOUS
    <2> QED BY <1>1, <2>1, Replaced
  <1>11. \A t \in 1..Slots : c.syncs[t].todo \in Queue /\ c.syncs[t].failed \in Queue
    BY <1>1, Replaced
  <1>3. O!Running(r) = O!Running(c)
    BY <1>2
  <1>4. /\ \A t \in 1..Slots : /\ r.syncs[t].todo = c.syncs[t].todo
                               /\ r.syncs[t].failed = c.syncs[t].failed
        /\ \A t \in 1..Slots : InHand(r.syncs[t]) = InHand(c.syncs[t])
    BY <1>2 DEF InHand
  <1>5. h \in Actions /\ h \in O!ToSet(z.todo) /\ h \in InHand(c.syncs[s])
    <2>1. z.todo \in Queue /\ z.todo # <<>>
      BY <1>11 DEF IsReplay
    <2> QED BY <2>1, HeadAndTail DEF InHand
  <1>6. /\ fx[h] > 0 /\ (ex[h] = 0 => fx[h] = 1) /\ \A a \in Actions \ {h} : fx[a] = ex[a]
    <2>1. fx[h] = IF ex[h] = 2 THEN 2 ELSE ex[h] + 1
      BY <1>5
    <2>2. ex[h] \in 0..2
      BY <1>5
    <2> QED BY <1>5, <2>1, <2>2
  <1> HIDE DEF h
  <1>7. TabShape(r)
    <2>1. IsTidy(z)
      BY <1>1 DEF TabShape, IsTidy
    <2> QED BY <1>1, <1>2, <2>1 DEF TabShape, Replaces
  <1>8. Within(r, fx, po)
    <2>1. \A a \in Actions : fx[a] > 0 => a \in po
      BY <1>1, <1>5, <1>6 DEF Within
    <2>2. O!ToSet(r.queue) \subseteq po /\ \A t \in 1..Slots : InHand(r.syncs[t]) \subseteq po
      BY <1>1, <1>4 DEF Within
    <2>3. ASSUME NEW t \in 1..Slots, r.syncs[t].pc = "reply"
          PROVE  fx[Head(r.syncs[t].todo)] > 0
      <3>1. CASE t = s
        BY <1>2, <1>6, <3>1 DEF h
      <3>2. CASE t # s
        <4>1. r.syncs[t] = c.syncs[t] /\ ex[Head(c.syncs[t].todo)] > 0
          BY <1>1, <1>2, <2>3, <3>2 DEF Within
        <4>2. Head(c.syncs[t].todo) \in Actions
          <5>1. c.syncs[t].pc # "idle"
            BY <2>3, <4>1
          <5>2. c.syncs[t].todo # <<>>
            BY <1>1, <5>1 DEF TabShape, IsReplay
          <5> QED BY <1>11, <5>2, HeadAndTail
        <4>3. CASE Head(c.syncs[t].todo) = h
          BY <1>6, <4>1, <4>3
        <4>4. CASE Head(c.syncs[t].todo) # h
          <5>1. fx[Head(c.syncs[t].todo)] = ex[Head(c.syncs[t].todo)]
            BY <1>6, <4>2, <4>4
          <5> QED BY <4>1, <5>1
        <4> QED BY <4>3, <4>4
      <3> QED BY <3>1, <3>2
    <2> QED BY <2>1, <2>2, <2>3 DEF Within
  <1>9. ASSUME NEW a \in po \ la PROVE IsSafe(r, fx, a)
    <2>1. IsSafe(c, ex, a) /\ \A t \in O!Running(c) : t \in 1..Slots
      BY DEF Sound, O!Running
    <2>2. fx[a] = 0 => ex[a] = 0
      <3>1. CASE a \in Actions
        <4>1. a = h => fx[a] > 0
          BY <1>6
        <4>2. a # h => fx[a] = ex[a]
          BY <1>6, <3>1
        <4> QED BY <4>1, <4>2
      <3>2. CASE a \notin Actions
        <4>1. fx[a] = ex[a]
          BY <1>5, <3>2 DEF h
        <4> QED BY <4>1
      <3> QED BY <3>1, <3>2
    <2> QED BY <1>3, <1>4, <2>1, <2>2 DEF IsSafe
  <1>10. ASSUME NEW a \in Actions \ do PROVE IsSure(r, fx, a)
    <2>1. IsSure(c, ex, a)
      BY DEF Sound
    <2>2. CASE a # h
      <3>1. fx[a] = ex[a]
        BY <1>6, <2>2
      <3>2. ASSUME ex[a] > 0, NEW t \in 1..Slots, a \in O!ToSet(r.syncs[t].todo)
            PROVE  r.syncs[t].pc = "reply" /\ a = Head(r.syncs[t].todo)
        <4>1. c.syncs[t].pc = "reply" /\ a = Head(c.syncs[t].todo)
          BY <1>4, <2>1, <3>2 DEF IsSure
        <4>2. t # s
          BY <4>1
        <4> QED BY <1>2, <4>1, <4>2
      <3> QED BY <1>3, <1>4, <2>1, <3>1, <3>2 DEF IsSure
    <2>3. CASE a = h
      <3>1. \A t \in 1..Slots : a \in InHand(r.syncs[t]) => t = s
        BY <1>4, <1>5, <2>1, <2>3 DEF IsSure
      <3>2. ex[a] = 0
        <4>1. a \in O!ToSet(c.syncs[s].todo) /\ c.syncs[s].pc # "reply"
          BY <1>5, <2>3
        <4>2. ~(ex[a] > 0) /\ ex[a] \in 0..2
          BY <2>1, <4>1 DEF IsSure
        <4> QED BY <4>2
      <3>3. fx[a] # 2
        BY <1>6, <2>3, <3>2
      <3>4. ASSUME NEW t \in 1..Slots
            PROVE  /\ a \notin O!ToSet(r.syncs[t].failed)
                   /\ a \in O!ToSet(r.syncs[t].todo) =>
                         r.syncs[t].pc = "reply" /\ a = Head(r.syncs[t].todo)
        <4>1. CASE t = s
          <5>1. a \notin O!ToSet(z.failed)
            <6>1. O!ToSet(z.todo) \cap O!ToSet(z.failed) = {}
              BY <1>1 DEF TabShape, IsTidy
            <6> QED BY <1>5, <2>3, <6>1
          <5> QED BY <1>2, <2>3, <4>1, <5>1 DEF h
        <4>2. CASE t # s
          BY <3>1, <4>2 DEF InHand
        <4> QED BY <4>1, <4>2
      <3>5. \A t, u \in 1..Slots : a \in InHand(r.syncs[t]) /\ a \in InHand(r.syncs[u]) => t = u
        BY <3>1
      <3>6. O!Running(r) # {}
        BY <1>2
      <3> QED BY <3>3, <3>4, <3>5, <3>6 DEF IsSure
    <2> QED BY <2>2, <2>3
  <1> QED BY <1>7, <1>8, <1>9, <1>10 DEF Sound

\* A replay is through with its first action, which was executed or stays queued.
LEMMA NextSound ==
    ASSUME NEW c \in Tab, NEW ex \in [Actions -> 0..2], NEW po, NEW la, NEW do,
           Sound(c, ex, po, la, do), NEW s \in 1..Slots, c.syncs[s].pc # "idle",
           NEW f,
           \/ f = <<>> /\ ex[Head(c.syncs[s].todo)] > 0
           \/ /\ f = <<Head(c.syncs[s].todo)>>
              /\ Head(c.syncs[s].todo) \in do \/ ex[Head(c.syncs[s].todo)] = 0
    PROVE  Sound(O!NextAction(c, s, f), ex, po, la, do) /\ O!NextAction(c, s, f) \in Tab
  <1> DEFINE y == c.syncs[s]
             h == Head(y.todo)
             left == Tail(y.todo)
             missed == y.failed \o f
             z == IF left = <<>> THEN O!Resting
                  ELSE [todo |-> left, failed |-> missed, attempt |-> 1, pc |-> "call"]
             r == O!NextAction(c, s, f)
  <1>1. TabShape(c) /\ Within(c, ex, po) /\ c.syncs \in [1..Slots -> Replay]
        /\ c.queue \in Queue
    BY TabFields DEF Sound
  <1>2. y \in Replay /\ y.todo \in Queue /\ y.failed \in Queue /\ y.todo # <<>> /\ IsTidy(y)
    <2>1. y \in Replay /\ y.todo # <<>> /\ IsTidy(y)
      BY <1>1 DEF TabShape, IsReplay
    <2> QED BY <2>1, ReplayFields
  <1>3. /\ left \in Queue /\ h \in Actions /\ Distinct(left) /\ h \notin O!ToSet(left)
        /\ O!ToSet(y.todo) = {h} \cup O!ToSet(left)
        /\ left = <<>> => O!ToSet(left) = {}
    BY <1>2, HeadAndTail DEF IsTidy
  <1>4. /\ missed \in Queue /\ Distinct(missed)
        /\ O!ToSet(missed) = O!ToSet(y.failed) \cup (IF f = <<>> THEN {} ELSE {h})
    <2>1. Distinct(y.failed) /\ h \notin O!ToSet(y.failed)
      BY <1>2, <1>3 DEF IsTidy
    <2>2. CASE f = <<>>
      <3>1. missed = y.failed
        BY <1>2, <1>3, <2>2, Missing
      <3> QED BY <1>2, <2>1, <2>2, <3>1
    <2>3. CASE f = <<h>>
      <3>1. missed = Append(y.failed, h)
        BY <1>2, <1>3, <2>3, Missing
      <3>2. f # <<>>
        BY <2>3
      <3>3. /\ Append(y.failed, h) \in Queue
            /\ O!ToSet(Append(y.failed, h)) = O!ToSet(y.failed) \cup {h}
            /\ Distinct(y.failed) /\ h \notin O!ToSet(y.failed) => Distinct(Append(y.failed, h))
        BY <1>2, <1>3, Appending
      <3> HIDE DEF missed, y, h
      <3> QED BY <2>1, <3>1, <3>2, <3>3
    <2> QED BY <2>2, <2>3
  <1>5. O!ToSet(left) \cap O!ToSet(missed) = {}
    BY <1>2, <1>3, <1>4 DEF IsTidy
  <1>6. /\ z \in Replay /\ IsReplay(z) /\ IsTidy(z)
        /\ O!ToSet(z.todo) = O!ToSet(left)
        /\ IF left = <<>> THEN z.pc = "idle" /\ O!ToSet(z.failed) = {}
           ELSE z.pc = "call" /\ O!ToSet(z.failed) = O!ToSet(missed)
    <2>1. CASE left = <<>>
      BY <1>3, <2>1, RestingReplay, NothingQueued
    <2>2. CASE left # <<>>
      <3> DEFINE w == [todo |-> left, failed |-> missed, attempt |-> 1, pc |-> "call"]
      <3>1. z = w
        BY <2>2
      <3>2. w.todo = left /\ w.failed = missed /\ w.pc = "call"
        OBVIOUS
      <3>3. w \in Replay
        <4> DEFINE queues == Queue
        <4>1. left \in queues /\ missed \in queues
          BY <1>3, <1>4
        <4> HIDE DEF queues, left, missed
        <4>2. w \in [todo : queues, failed : queues, attempt : Nat,
                     pc : {"idle", "call", "reply", "pause"}]
          BY <4>1
        <4> QED BY <4>2 DEF Replay, queues
      <3> HIDE DEF w, left, missed, z
      <3> QED BY <1>3, <1>4, <1>5, <2>2, <3>1, <3>2, <3>3 DEF IsReplay, IsTidy
    <2> QED BY <2>1, <2>2
  <1>7. /\ r \in Tab /\ r.syncs = [c.syncs EXCEPT ![s] = z]
        /\ r.queue = IF left = <<>> THEN missed ELSE c.queue
    <2>1. r = IF left = <<>> THEN [c EXCEPT !.queue = missed, !.syncs[s] = O!Resting]
              ELSE [c EXCEPT !.syncs[s] = [todo |-> left, failed |-> missed, attempt |-> 1,
                                           pc |-> "call"]]
      BY DEF O!NextAction
    <2> HIDE DEF r
    <2> DEFINE ss == [c.syncs EXCEPT ![s] = z]
               replays == [1..Slots -> Replay]
               queues == Queue
    <2>2. ss \in replays
      BY <1>1, <1>6
    <2>3. r = IF left = <<>> THEN [c EXCEPT !.queue = missed, !.syncs = ss]
              ELSE [c EXCEPT !.syncs = ss]
      BY <2>1
    <2>4. c \in [page : {"app", "login"}, offline : BOOLEAN, forced : BOOLEAN, failures : Nat,
                 queue : queues, syncs : replays]
      BY DEF Tab
    <2>5. missed \in queues
      BY <1>4
    <2> HIDE DEF ss, replays, queues, left, missed
    <2>6. /\ r \in [page : {"app", "login"}, offline : BOOLEAN, forced : BOOLEAN, failures : Nat,
                    queue : queues, syncs : replays]
          /\ r.syncs = ss
          /\ r.queue = IF left = <<>> THEN missed ELSE c.queue
      BY <2>2, <2>3, <2>4, <2>5
    <2> QED BY <2>6 DEF Tab, ss, replays, queues
  <1>8. /\ h \in Actions
        /\ \/ f = <<>> /\ ex[h] > 0
           \/ f # <<>> /\ (h \in do \/ ex[h] = 0)
        /\ c.syncs[s] = y /\ y.pc # "idle"
    BY <1>3
  <1>9. y.pc = "reply" => ex[h] > 0
    BY <1>1 DEF Within
  <1> HIDE DEF left, missed, z, r, h, y
  <1>10. Replaces(c, r, s, z)
    BY <1>7 DEF Replaces
  <1>11. /\ \A t \in 1..Slots : r.syncs[t] = IF t = s THEN z ELSE c.syncs[t]
         /\ O!Running(r) \ {s} = O!Running(c) \ {s}
         /\ s \in O!Running(r) <=> z.pc # "idle"
         /\ s \in O!Running(c)
    BY <1>1, <1>8, <1>10, Replaced
  <1>12. TabShape(r)
    <2>1. Distinct(r.queue)
      BY <1>1, <1>4, <1>7 DEF TabShape
    <2> QED BY <1>1, <1>6, <1>7, <1>11, <2>1 DEF TabShape
  <1>13. O!ToSet(missed) \subseteq InHand(y) /\ InHand(z) \subseteq InHand(y)
         /\ InHand(y) = {h} \cup O!ToSet(left) \cup O!ToSet(y.failed)
    BY <1>3, <1>4, <1>6 DEF InHand
  <1>14. Within(r, ex, po)
    <2>1. /\ InHand(y) \subseteq po /\ O!ToSet(c.queue) \subseteq po
          /\ \A a \in Actions : ex[a] > 0 => a \in po
      BY <1>1, <1>8 DEF Within
    <2>2. O!ToSet(r.queue) \subseteq po
      BY <1>7, <1>13, <2>1
    <2>3. z.pc # "reply"
      BY <1>6
    <2> QED BY <1>1, <1>11, <1>13, <2>1, <2>2, <2>3 DEF Within
  <1>15. ASSUME NEW a \in po \ la PROVE IsSafe(r, ex, a)
    <2> SUFFICES ASSUME ex[a] = 0
                 PROVE  /\ a \in O!ToSet(r.queue)
                        /\ \A t \in O!Running(r) : a \in InHand(r.syncs[t])
      BY DEF IsSafe
    <2>1. a \in O!ToSet(c.queue) /\ \A t \in O!Running(c) : a \in InHand(c.syncs[t])
      BY DEF Sound, IsSafe
    <2>2. a \in InHand(y)
      BY <1>8, <1>11, <2>1
    <2>3. a \in O!ToSet(left) \cup O!ToSet(missed)
      <3>1. CASE a = h
        <4>1. f # <<>>
          BY <1>8, <3>1
        <4> QED BY <1>4, <3>1, <4>1
      <3>2. CASE a # h
        BY <1>4, <1>13, <2>2, <3>2
      <3> QED BY <3>1, <3>2
    <2>4. a \in O!ToSet(r.queue)
      BY <1>3, <1>7, <2>1, <2>3
    <2>5. ASSUME NEW t \in O!Running(r) PROVE a \in InHand(r.syncs[t])
      <3>1. t \in 1..Slots
        BY DEF O!Running
      <3>2. CASE t = s
        BY <1>6, <1>11, <2>3, <3>2 DEF InHand
      <3>3. CASE t # s
        BY <1>11, <2>1, <3>1, <3>3
      <3> QED BY <3>2, <3>3
    <2> QED BY <2>4, <2>5
  <1>16. ASSUME NEW a \in Actions \ do PROVE IsSure(r, ex, a)
    <2>1. IsSure(c, ex, a)
      BY DEF Sound
    <2>2. \A t, u \in 1..Slots : a \in InHand(r.syncs[t]) /\ a \in InHand(r.syncs[u]) => t = u
      <3>1. \A t \in 1..Slots : a \in InHand(r.syncs[t]) => a \in InHand(c.syncs[t])
        BY <1>8, <1>11, <1>13
      <3> QED BY <2>1, <3>1 DEF IsSure
    <2>3. ASSUME ex[a] > 0
          PROVE  a \notin O!ToSet(left) /\ a \notin O!ToSet(missed)
      <3>1. a \notin O!ToSet(y.failed) /\ (a \in O!ToSet(y.todo) => a = h)
        BY <1>8, <2>1, <2>3 DEF IsSure, h
      <3>2. f # <<>> => a # h
        BY <1>8, <2>3
      <3> QED BY <1>3, <1>4, <3>1, <3>2
    <2>4. ASSUME ex[a] > 0, NEW t \in 1..Slots
          PROVE  /\ a \notin O!ToSet(r.syncs[t].failed)
                 /\ a \in O!ToSet(r.syncs[t].todo) =>
                       r.syncs[t].pc = "reply" /\ a = Head(r.syncs[t].todo)
      <3>1. CASE t = s
        BY <1>6, <1>11, <2>3, <2>4, <3>1
      <3>2. CASE t # s
        <4>1. r.syncs[t] = c.syncs[t]
          BY <1>11, <3>2
        <4> QED BY <2>1, <2>4, <4>1 DEF IsSure
      <3> QED BY <3>1, <3>2
    <2>5. ex[a] > 0 /\ a \in O!ToSet(r.queue) => O!Running(r) # {}
      BY <1>6, <1>7, <1>11, <2>3
    <2>6. ex[a] # 2
      BY <2>1 DEF IsSure
    <2> QED BY <2>2, <2>4, <2>5, <2>6 DEF IsSure
  <1> QED BY <1>7, <1>12, <1>14, <1>15, <1>16 DEF Sound, r

\* The fields of a tab that its functions set.
LEMMA TabSet ==
    ASSUME NEW c \in Tab, NEW b \in BOOLEAN, NEW d \in BOOLEAN, NEW n \in Nat,
           NEW q \in Queue, NEW ss \in [1..Slots -> Replay], NEW p \in {"app", "login"}
    PROVE  /\ [c EXCEPT !.failures = n] \in Tab
           /\ [c EXCEPT !.offline = b] \in Tab
           /\ [c EXCEPT !.offline = b, !.failures = n] \in Tab
           /\ [c EXCEPT !.forced = b, !.offline = d] \in Tab
           /\ [c EXCEPT !.queue = q] \in Tab
           /\ [c EXCEPT !.syncs = ss] \in Tab
           /\ [c EXCEPT !.page = p, !.offline = b, !.failures = n, !.syncs = ss] \in Tab
  <1> DEFINE queues == Queue
             replays == [1..Slots -> Replay]
             tabs == [page : {"app", "login"}, offline : BOOLEAN, forced : BOOLEAN,
                      failures : Nat, queue : queues, syncs : replays]
  <1>1. c \in tabs /\ q \in queues /\ ss \in replays
    BY DEF Tab
  <1> HIDE DEF queues, replays
  <1>2. /\ [c EXCEPT !.failures = n] \in tabs
        /\ [c EXCEPT !.offline = b] \in tabs
        /\ [c EXCEPT !.offline = b, !.failures = n] \in tabs
        /\ [c EXCEPT !.forced = b, !.offline = d] \in tabs
        /\ [c EXCEPT !.queue = q] \in tabs
        /\ [c EXCEPT !.syncs = ss] \in tabs
        /\ [c EXCEPT !.page = p, !.offline = b, !.failures = n, !.syncs = ss] \in tabs
    BY <1>1
  <1> QED BY <1>2 DEF Tab, queues, replays

\* What they leave alone.
LEMMA TabKept ==
    ASSUME NEW c \in Tab, NEW b, NEW d, NEW n, NEW q, NEW ss, NEW p
    PROVE  /\ [c EXCEPT !.failures = n].queue = c.queue
           /\ [c EXCEPT !.failures = n].syncs = c.syncs
           /\ [c EXCEPT !.failures = n].offline = c.offline
           /\ [c EXCEPT !.offline = b].queue = c.queue
           /\ [c EXCEPT !.offline = b].syncs = c.syncs
           /\ [c EXCEPT !.offline = b, !.failures = n].queue = c.queue
           /\ [c EXCEPT !.offline = b, !.failures = n].syncs = c.syncs
           /\ [c EXCEPT !.forced = b, !.offline = d].queue = c.queue
           /\ [c EXCEPT !.forced = b, !.offline = d].syncs = c.syncs
           /\ [c EXCEPT !.queue = q].queue = q
           /\ [c EXCEPT !.queue = q].syncs = c.syncs
           /\ [c EXCEPT !.syncs = ss].queue = c.queue
           /\ [c EXCEPT !.syncs = ss].syncs = ss
           /\ [c EXCEPT !.syncs = ss].offline = c.offline
           /\ [c EXCEPT !.page = p, !.offline = b, !.failures = n, !.syncs = ss].queue = c.queue
           /\ [c EXCEPT !.page = p, !.offline = b, !.failures = n, !.syncs = ss].syncs = ss
  BY DEF Tab

\* A replay of the whole queue begins.
Starts(c, r) ==
    /\ c.queue # <<>>
    /\ \E s \in 1..Slots :
          /\ c.syncs[s].pc = "idle"
          /\ Replaces(c, r, s, [todo |-> c.queue, failed |-> <<>>, attempt |-> 1, pc |-> "call"])

\* What a report of the network does to the tab.
Reports(c, r) == r \in Tab /\ r.queue = c.queue /\ (r.syncs = c.syncs \/ Starts(c, r))

LEMMA Chosen ==
    ASSUME NEW X, NEW Y, NEW x \in X, x \notin Y
    PROVE  /\ (CHOOSE y \in X : y \notin Y) \in X
           /\ (CHOOSE y \in X : y \notin Y) \notin Y
  OBVIOUS

LEMMA FreshReplay ==
    ASSUME NEW q
    PROVE  [O!Resting EXCEPT !.todo = q, !.pc = "call"] =
              [todo |-> q, failed |-> <<>>, attempt |-> 1, pc |-> "call"]
  <1> DEFINE none == <<>>
             rest == O!Resting
             full == [rest EXCEPT !.todo = q]
  <1>1. rest = [todo |-> none, failed |-> none, attempt |-> 1, pc |-> "idle"]
    BY DEF O!Resting
  <1> HIDE DEF none, rest
  <1>2. full = [todo |-> q, failed |-> none, attempt |-> 1, pc |-> "idle"]
    BY <1>1
  <1>3. [rest EXCEPT !.todo = q, !.pc = "call"] = [full EXCEPT !.pc = "call"]
    OBVIOUS
  <1> HIDE DEF full
  <1>4. [full EXCEPT !.pc = "call"] = [todo |-> q, failed |-> none, attempt |-> 1, pc |-> "call"]
    BY <1>2
  <1> QED BY <1>3, <1>4 DEF none, rest

LEMMA StartReports ==
    ASSUME NEW c \in Tab, O!Running(c) # 1..Slots
    PROVE  Reports(c, O!StartSync(c))
  <1>1. CASE c.queue = <<>>
    BY <1>1 DEF O!StartSync, Reports
  <1>2. CASE c.queue # <<>>
    <2> DEFINE s == CHOOSE y \in 1..Slots : y \notin O!Running(c)
               fresh == [O!Resting EXCEPT !.todo = c.queue, !.pc = "call"]
               z == [todo |-> c.queue, failed |-> <<>>, attempt |-> 1, pc |-> "call"]
               ss == [c.syncs EXCEPT ![s] = z]
    <2>1. s \in 1..Slots /\ s \notin O!Running(c)
      <3>1. O!Running(c) \subseteq 1..Slots
        BY DEF O!Running
      <3>2. PICK x \in 1..Slots : x \notin O!Running(c)
        BY <3>1
      <3>3. /\ (CHOOSE y \in 1..Slots : y \notin O!Running(c)) \in 1..Slots
            /\ (CHOOSE y \in 1..Slots : y \notin O!Running(c)) \notin O!Running(c)
        BY <3>2, Chosen
      <3> QED BY <3>3, Zenon
    <2>2. c.syncs[s].pc = "idle"
      BY <2>1 DEF O!Running
    <2>3. fresh = z
      BY FreshReplay
    <2>4. O!StartSync(c) = [c EXCEPT !.syncs = ss]
      <3>1. O!StartSync(c) = [c EXCEPT !.syncs[s] = fresh]
        BY <1>2 DEF O!StartSync
      <3>2. O!StartSync(c) = [c EXCEPT !.syncs = [c.syncs EXCEPT ![s] = fresh]]
        BY <3>1
      <3> HIDE DEF s, fresh, z
      <3> QED BY <2>3, <3>2
    <2>5. c.queue \in Queue /\ c.syncs \in [1..Slots -> Replay]
      BY TabFields
    <2>6. z \in Replay
      <3> DEFINE queues == Queue
      <3>1. c.queue \in queues /\ <<>> \in queues
        BY <2>5, NothingQueued
      <3> HIDE DEF queues
      <3>2. z \in [todo : queues, failed : queues, attempt : Nat,
                   pc : {"idle", "call", "reply", "pause"}]
        BY <3>1
      <3> QED BY <3>2 DEF Replay, queues
    <2> HIDE DEF s, z
    <2>7. ss \in [1..Slots -> Replay]
      BY <2>5, <2>6
    <2> HIDE DEF ss
    <2>8. [c EXCEPT !.syncs = ss] \in Tab
      BY <2>5, <2>7, TabSet
    <2>9. [c EXCEPT !.syncs = ss].queue = c.queue /\ [c EXCEPT !.syncs = ss].syncs = ss
      BY TabKept
    <2>10. Replaces(c, O!StartSync(c), s, z)
      BY <2>4, <2>8, <2>9 DEF Replaces, ss
    <2>11. Starts(c, O!StartSync(c))
      BY <1>2, <2>1, <2>2, <2>10 DEF Starts, z
    <2> QED BY <2>4, <2>8, <2>9, <2>11 DEF Reports
  <1> QED BY <1>1, <1>2

\* A tab with the same queue and replays reports what the first would.
LEMMA ReportsLike ==
    ASSUME NEW c \in Tab, NEW d \in Tab, d.queue = c.queue, d.syncs = c.syncs, NEW r, Reports(d, r)
    PROVE  Reports(c, r)
  BY DEF Reports, Starts, Replaces

LEMMA OnlineReports ==
    ASSUME NEW c \in Tab, c.offline => O!Running(c) # 1..Slots
    PROVE  Reports(c, O!MarkOnline(c))
  <1>1. CASE c.offline
    <2> DEFINE b == FALSE
               d == [c EXCEPT !.offline = b, !.failures = 0]
    <2>1. b \in BOOLEAN
      BY Zenon
    <2>2. O!MarkOnline(c) = O!StartSync(d)
      BY <1>1 DEF O!MarkOnline
    <2> HIDE DEF b
    <2>3. \E q \in Queue, ss \in [1..Slots -> Replay] : TRUE
      BY TabFields
    <2>4. d \in Tab
      BY <2>1, <2>3, TabSet
    <2>5. d.queue = c.queue /\ d.syncs = c.syncs
      BY TabKept
    <2> HIDE DEF d
    <2>6. O!Running(d) = O!Running(c)
      BY <2>5 DEF O!Running
    <2>7. Reports(d, O!StartSync(d))
      BY <1>1, <2>4, <2>6, StartReports
    <2> QED BY <2>2, <2>4, <2>5, <2>7, ReportsLike
  <1>2. CASE ~c.offline
    <2>1. O!MarkOnline(c) = c
      BY <1>2 DEF O!MarkOnline
    <2> QED BY <2>1 DEF Reports
  <1> QED BY <1>1, <1>2

LEMMA SuccessReports ==
    ASSUME NEW c \in Tab, c.offline => O!Running(c) # 1..Slots
    PROVE  Reports(c, O!ReportSuccess(c))
  <1> DEFINE d == [c EXCEPT !.failures = 0]
  <1>1. d \in Tab
    <2>1. c.queue \in Queue /\ c.syncs \in [1..Slots -> Replay] /\ c.offline \in BOOLEAN
      BY TabFields
    <2> QED BY <2>1, TabSet
  <1>2. d.queue = c.queue /\ d.syncs = c.syncs /\ d.offline = c.offline
    BY TabKept
  <1>3. O!ReportSuccess(c) = IF c.forced THEN d ELSE O!MarkOnline(d)
    BY DEF O!ReportSuccess
  <1> HIDE DEF d
  <1>4. O!Running(d) = O!Running(c)
    BY <1>2 DEF O!Running
  <1>5. Reports(d, O!MarkOnline(d))
    BY <1>1, <1>2, <1>4, OnlineReports
  <1>6. Reports(c, O!MarkOnline(d))
    BY <1>1, <1>2, <1>5, ReportsLike
  <1>7. Reports(c, d)
    BY <1>1, <1>2 DEF Reports
  <1> QED BY <1>3, <1>6, <1>7

\* Failures are counted, and the tab may go offline.
LEMMA FailureReports ==
    ASSUME NEW c \in Tab
    PROVE  /\ O!ReportFailure(c) \in Tab /\ O!HeartbeatFailure(c) \in Tab
           /\ O!MarkOffline(c) \in Tab
           /\ O!ReportFailure(c).queue = c.queue /\ O!ReportFailure(c).syncs = c.syncs
           /\ O!ReportFailure(c).offline = c.offline
           /\ O!HeartbeatFailure(c).queue = c.queue /\ O!HeartbeatFailure(c).syncs = c.syncs
           /\ O!MarkOffline(c).queue = c.queue /\ O!MarkOffline(c).syncs = c.syncs
  <1>1. \A d \in Tab : d.queue \in Queue /\ d.syncs \in [1..Slots -> Replay] /\ d.failures \in Nat
                       /\ d.failures + 1 \in Nat /\ d.offline \in BOOLEAN
    <2>1. ASSUME NEW d \in Tab
          PROVE  d.queue \in Queue /\ d.syncs \in [1..Slots -> Replay] /\ d.failures \in Nat
                 /\ d.offline \in BOOLEAN
      BY TabFields
    <2> QED BY <2>1
  <1>2. ASSUME NEW d \in Tab
        PROVE  /\ O!MarkOffline(d) \in Tab
               /\ O!MarkOffline(d).queue = d.queue /\ O!MarkOffline(d).syncs = d.syncs
    <2> DEFINE b == TRUE
    <2>1. b \in BOOLEAN
      BY Zenon
    <2>2. O!MarkOffline(d) = [d EXCEPT !.offline = b]
      BY DEF O!MarkOffline
    <2> HIDE DEF b
    <2>3. [d EXCEPT !.offline = b] \in Tab
      BY <1>1, <2>1, TabSet
    <2>4. [d EXCEPT !.offline = b].queue = d.queue /\ [d EXCEPT !.offline = b].syncs = d.syncs
      BY TabKept
    <2> QED BY <2>2, <2>3, <2>4
  <1>3. /\ O!CountFailure(c) \in Tab
        /\ O!CountFailure(c).queue = c.queue /\ O!CountFailure(c).syncs = c.syncs
        /\ O!CountFailure(c).offline = c.offline
    <2> DEFINE n == c.failures + 1
               d == [c EXCEPT !.failures = n]
    <2>1. O!CountFailure(c) = c \/ O!CountFailure(c) = d
      BY DEF O!CountFailure
    <2>2. n \in Nat
      BY <1>1
    <2> HIDE DEF n
    <2>3. d \in Tab
      BY <1>1, <2>2, TabSet
    <2>4. d.queue = c.queue /\ d.syncs = c.syncs /\ d.offline = c.offline
      BY TabKept
    <2> HIDE DEF d
    <2> QED BY <2>1, <2>3, <2>4
  <1>4. O!ReportFailure(c) = c \/ O!ReportFailure(c) = O!CountFailure(c)
    BY DEF O!ReportFailure
  <1>5. \/ O!HeartbeatFailure(c) = O!CountFailure(c)
        \/ O!HeartbeatFailure(c) = O!MarkOffline(O!CountFailure(c))
    BY DEF O!HeartbeatFailure
  <1>6. /\ O!MarkOffline(O!CountFailure(c)) \in Tab
        /\ O!MarkOffline(O!CountFailure(c)).queue = c.queue
        /\ O!MarkOffline(O!CountFailure(c)).syncs = c.syncs
    BY <1>2, <1>3
  <1>7. /\ O!MarkOffline(c) \in Tab
        /\ O!MarkOffline(c).queue = c.queue /\ O!MarkOffline(c).syncs = c.syncs
    BY <1>2
  <1> QED BY <1>3, <1>4, <1>5, <1>6, <1>7, Zenon

\* The other replays, and whether the tab is offline, stay as they were.
Leaves(c, r, s) == /\ \A t \in 1..Slots : t # s => r.syncs[t] = c.syncs[t]
                   /\ r.offline = c.offline

LEMMA NextLeaves ==
    ASSUME NEW c \in Tab, NEW s \in 1..Slots, NEW f
    PROVE  Leaves(c, O!NextAction(c, s, f), s)
  <1> DEFINE missed == c.syncs[s].failed \o f
             left == Tail(c.syncs[s].todo)
             z == [todo |-> left, failed |-> missed, attempt |-> 1, pc |-> "call"]
  <1>1. c.syncs \in [1..Slots -> Replay]
    BY TabFields
  <1>2. \/ O!NextAction(c, s, f) = [c EXCEPT !.queue = missed, !.syncs[s] = O!Resting]
        \/ O!NextAction(c, s, f) = [c EXCEPT !.syncs[s] = z]
    BY DEF O!NextAction
  <1> HIDE DEF missed, z
  <1>3. /\ [c EXCEPT !.queue = missed, !.syncs[s] = O!Resting].syncs =
               [c.syncs EXCEPT ![s] = O!Resting]
        /\ [c EXCEPT !.queue = missed, !.syncs[s] = O!Resting].offline = c.offline
        /\ [c EXCEPT !.syncs[s] = z].syncs = [c.syncs EXCEPT ![s] = z]
        /\ [c EXCEPT !.syncs[s] = z].offline = c.offline
    BY DEF Tab
  <1>4. \A t \in 1..Slots : t # s => /\ [c.syncs EXCEPT ![s] = O!Resting][t] = c.syncs[t]
                                     /\ [c.syncs EXCEPT ![s] = z][t] = c.syncs[t]
    BY <1>1
  <1>5. CASE O!NextAction(c, s, f) = [c EXCEPT !.queue = missed, !.syncs[s] = O!Resting]
    BY <1>3, <1>4, <1>5 DEF Leaves
  <1>6. CASE O!NextAction(c, s, f) = [c EXCEPT !.syncs[s] = z]
    BY <1>3, <1>4, <1>6 DEF Leaves
  <1> QED BY <1>2, <1>5, <1>6

\* A replay with another state.
LEMMA ReplaySet ==
    ASSUME NEW c \in Tab, NEW s \in 1..Slots, NEW z \in Replay
    PROVE  /\ [c EXCEPT !.syncs = [c.syncs EXCEPT ![s] = z]] \in Tab
           /\ [c EXCEPT !.syncs = [c.syncs EXCEPT ![s] = z]].queue = c.queue
           /\ Replaces(c, [c EXCEPT !.syncs = [c.syncs EXCEPT ![s] = z]], s, z)
           /\ Leaves(c, [c EXCEPT !.syncs = [c.syncs EXCEPT ![s] = z]], s)
  <1> DEFINE ss == [c.syncs EXCEPT ![s] = z]
             r == [c EXCEPT !.syncs = ss]
  <1>1. c.syncs \in [1..Slots -> Replay] /\ c.queue \in Queue /\ c.offline \in BOOLEAN
    BY TabFields
  <1>2. ss \in [1..Slots -> Replay] /\ \A t \in 1..Slots : t # s => ss[t] = c.syncs[t]
    BY <1>1
  <1> HIDE DEF ss
  <1>3. r \in Tab
    BY <1>1, <1>2, TabSet
  <1>4. r.queue = c.queue /\ r.syncs = ss /\ r.offline = c.offline
    BY TabKept
  <1> HIDE DEF r
  <1>5. Replaces(c, r, s, z) /\ Leaves(c, r, s)
    BY <1>2, <1>3, <1>4 DEF Replaces, Leaves, ss
  <1> QED BY <1>3, <1>4, <1>5 DEF r, ss

LEMMA PcSet ==
    ASSUME NEW y \in Replay, NEW p \in {"call", "reply", "pause"}, y.todo # <<>>
    PROVE  /\ [y EXCEPT !.pc = p] \in Replay /\ IsReplay([y EXCEPT !.pc = p])
           /\ [y EXCEPT !.pc = p].pc = p
           /\ [y EXCEPT !.pc = p].todo = y.todo /\ [y EXCEPT !.pc = p].failed = y.failed
  <1> DEFINE queues == Queue
             replays == [todo : queues, failed : queues, attempt : Nat,
                         pc : {"idle", "call", "reply", "pause"}]
  <1>1. y \in replays
    BY DEF Replay
  <1> HIDE DEF queues
  <1>2. [y EXCEPT !.pc = p] \in replays
    BY <1>1
  <1>3. /\ [y EXCEPT !.pc = p].pc = p
        /\ [y EXCEPT !.pc = p].todo = y.todo /\ [y EXCEPT !.pc = p].failed = y.failed
    BY <1>1
  <1>4. IsReplay([y EXCEPT !.pc = p])
    BY <1>3 DEF IsReplay
  <1> QED BY <1>2, <1>3, <1>4 DEF Replay, queues

\* An attempt failed, and the first action stays in hand or will be queued again.
LEMMA RetrySound ==
    ASSUME NEW c \in Tab, NEW ex \in [Actions -> 0..2], NEW po, NEW la, NEW do,
           Sound(c, ex, po, la, do), NEW s \in 1..Slots, c.syncs[s].pc \in {"call", "reply"},
           c.syncs[s].pc = "reply" => Head(c.syncs[s].todo) \in do
    PROVE  /\ Sound(O!Retry(c, s), ex, po, la, do) /\ O!Retry(c, s) \in Tab
           /\ Leaves(c, O!Retry(c, s), s)
  <1> DEFINE y == c.syncs[s]
             h == Head(y.todo)
             z == [y EXCEPT !.pc = "pause"]
             paused == [c EXCEPT !.syncs = [c.syncs EXCEPT ![s] = z]]
  <1>1. c.syncs \in [1..Slots -> Replay] /\ TabShape(c)
    BY TabFields DEF Sound
  <1>2. y \in Replay /\ y.todo \in Queue /\ y.todo # <<>>
    <2>1. y \in Replay
      BY <1>1
    <2>2. y.pc # "idle" /\ IsReplay(y)
      BY <1>1 DEF TabShape
    <2> QED BY <2>1, <2>2, ReplayFields DEF IsReplay
  <1>3. h \in Actions /\ h \in O!ToSet(y.todo)
    BY <1>2, HeadAndTail
  <1>4. \/ O!Retry(c, s) = paused
        \/ O!Retry(c, s) = O!NextAction(c, s, <<h>>)
    <2>1. [c EXCEPT !.syncs[s].pc = "pause"] = paused
      OBVIOUS
    <2> HIDE DEF paused
    <2> QED BY <2>1 DEF O!Retry
  <1>5. h \in do \/ ex[h] = 0
    <2> SUFFICES ASSUME h \notin do, ex[h] # 0 PROVE FALSE
      OBVIOUS
    <2>1. IsSure(c, ex, h) /\ ex[h] \in 0..2
      BY <1>3 DEF Sound
    <2>2. ex[h] > 0
      BY <2>1
    <2>3. y.pc = "reply"
      BY <1>3, <2>1, <2>2 DEF IsSure
    <2> QED BY <2>3
  <1>6. /\ Sound(O!NextAction(c, s, <<h>>), ex, po, la, do) /\ O!NextAction(c, s, <<h>>) \in Tab
        /\ Leaves(c, O!NextAction(c, s, <<h>>), s)
    <2>1. c.syncs[s].pc # "idle"
      OBVIOUS
    <2>2. Leaves(c, O!NextAction(c, s, <<h>>), s)
      BY NextLeaves
    <2>3. Head(c.syncs[s].todo) \in do \/ ex[Head(c.syncs[s].todo)] = 0
      BY <1>5
    <2>4. Sound(O!NextAction(c, s, <<Head(c.syncs[s].todo)>>), ex, po, la, do)
          /\ O!NextAction(c, s, <<Head(c.syncs[s].todo)>>) \in Tab
      BY <2>1, <2>3, NextSound
    <2> QED BY <2>2, <2>4
  <1>7. Sound(paused, ex, po, la, do) /\ paused \in Tab /\ Leaves(c, paused, s)
    <2>1. z \in Replay /\ IsReplay(z) /\ z.pc = "pause" /\ z.todo = y.todo /\ z.failed = y.failed
      <3>1. y.attempt \in Nat
        BY <1>2, ReplayFields
      <3> HIDE DEF y
      <3> QED BY <1>2, <3>1, PcSet
    <2> HIDE DEF z
    <2>2. /\ paused \in Tab /\ paused.queue = c.queue /\ Replaces(c, paused, s, z)
          /\ Leaves(c, paused, s)
      BY <2>1, ReplaySet
    <2> HIDE DEF paused
    <2>3. z.todo = c.syncs[s].todo /\ z.failed = c.syncs[s].failed /\ z.pc \in {"pause", "call"}
      BY <2>1
    <2>4. c.syncs[s].pc \notin {"idle"}
      OBVIOUS
    <2>5. Sound(paused, ex, po, la, do)
      BY <2>1, <2>2, <2>3, <2>4, CallSound
    <2> QED BY <2>2, <2>5
  <1> HIDE DEF paused, h
  <1> QED BY <1>4, <1>6, <1>7

LEMMA OfflineStates ==
    ASSUME OfflineInv
    PROVE  /\ tab \in Tab /\ executed \in [Actions -> 0..2]
           /\ Sound(tab, executed, posted, late, doubtful)
           /\ tab.offline => O!Running(tab) # 1..Slots
  BY DEF OfflineInv, Sound, TabShape

\* The tab becomes what a report makes of it.
LEMMA BecomesReported ==
    ASSUME OfflineInv, NEW r, Reports(tab, r), O!Becomes(r), UNCHANGED <<executed, posted, late>>
    PROVE  OfflineInv'
  <1>1. /\ tab' = r /\ (r.offline => O!Running(r) # 1..Slots)
        /\ doubtful' = IF O!Running(tab) # {} /\ O!Running(r) \ O!Running(tab) # {}
                       THEN doubtful \cup O!ToSet(tab.queue) ELSE doubtful
    BY DEF O!Becomes
  <1>2. doubtful \subseteq doubtful'
    BY <1>1
  <1>3. r \in Tab /\ r.queue = tab.queue
    BY DEF Reports
  <1>4. Sound(r, executed, posted, late, doubtful')
    <2>1. CASE r.syncs = tab.syncs
      BY <1>2, <1>3, <2>1, OfflineStates, SameSound
    <2>2. CASE Starts(tab, r)
      <3>1. tab.queue # <<>>
        BY <2>2 DEF Starts
      <3>2. PICK s \in 1..Slots :
              /\ tab.syncs[s].pc = "idle"
              /\ Replaces(tab, r, s, [todo |-> tab.queue, failed |-> <<>>, attempt |-> 1,
                                      pc |-> "call"])
        BY <2>2 DEF Starts
      <3>3. O!Running(tab) # {} => O!ToSet(tab.queue) \subseteq doubtful'
        <4> DEFINE z == [todo |-> tab.queue, failed |-> <<>>, attempt |-> 1, pc |-> "call"]
        <4>1. z.pc # "idle" /\ Replaces(tab, r, s, z) /\ TabShape(tab)
          BY <3>2 DEF OfflineInv, Sound
        <4> HIDE DEF z
        <4>2. s \in O!Running(r) /\ s \notin O!Running(tab)
          BY <3>2, <4>1, Replaced
        <4> QED BY <1>1, <4>2
      <3> QED BY <1>2, <1>3, <3>1, <3>2, <3>3, OfflineStates, StartSound
    <2> QED BY <2>1, <2>2 DEF Reports
  <1>5. Sound(tab', executed', posted', late', doubtful')
    BY <1>1, <1>4
  <1>6. tab'.offline => O!Running(tab') # 1..Slots
    BY <1>1
  <1> QED BY <1>5, <1>6 DEF OfflineInv, O!Running

\* A report, after which replay s goes on.
LEMMA ReportedAndMore ==
    ASSUME OfflineInv, NEW s \in 1..Slots, tab.syncs[s].pc # "idle",
           NEW r, Reports(tab, r), NEW c, Leaves(r, c, s), O!Becomes(c)
    PROVE  /\ Sound(r, executed, posted, late, doubtful') /\ r \in Tab
           /\ r.syncs[s] = tab.syncs[s]
  <1>1. /\ tab' = c
        /\ doubtful' = IF O!Running(tab) # {} /\ O!Running(c) \ O!Running(tab) # {}
                       THEN doubtful \cup O!ToSet(tab.queue) ELSE doubtful
    BY DEF O!Becomes
  <1>2. doubtful \subseteq doubtful'
    BY <1>1
  <1>3. r \in Tab /\ r.queue = tab.queue
    BY DEF Reports
  <1>4. CASE r.syncs = tab.syncs
    <2>1. Sound(r, executed, posted, late, doubtful')
      BY <1>2, <1>3, <1>4, OfflineStates, SameSound
    <2> QED BY <1>3, <1>4, <2>1
  <1>5. CASE Starts(tab, r)
    <2>1. tab.queue # <<>>
      BY <1>5 DEF Starts
    <2>2. PICK t \in 1..Slots :
            /\ tab.syncs[t].pc = "idle"
            /\ Replaces(tab, r, t, [todo |-> tab.queue, failed |-> <<>>, attempt |-> 1,
                                    pc |-> "call"])
      BY <1>5 DEF Starts
    <2>3. /\ t # s /\ r.syncs[s] = tab.syncs[s]
          /\ t \in O!Running(r) /\ t \notin O!Running(tab)
      <3> DEFINE z == [todo |-> tab.queue, failed |-> <<>>, attempt |-> 1, pc |-> "call"]
      <3>1. z.pc # "idle" /\ Replaces(tab, r, t, z) /\ TabShape(tab)
        BY <2>2 DEF OfflineInv, Sound
      <3> HIDE DEF z
      <3>2. t # s
        BY <2>2
      <3> QED BY <2>2, <3>1, <3>2, Replaced
    <2>4. t \in O!Running(c) \ O!Running(tab)
      <3>1. c.syncs[t] = r.syncs[t]
        BY <2>3 DEF Leaves
      <3> QED BY <2>3, <3>1 DEF O!Running
    <2>5. O!Running(tab) # {} => O!ToSet(tab.queue) \subseteq doubtful'
      BY <1>1, <2>4
    <2>6. Sound(r, executed, posted, late, doubtful')
      BY <1>2, <1>3, <2>1, <2>2, <2>5, OfflineStates, StartSound
    <2> QED BY <1>3, <2>3, <2>6
  <1> QED BY <1>4, <1>5 DEF Reports

\* What the tab becomes is sound.
LEMMA BecomesSound ==
    ASSUME OfflineInv, NEW c, O!Becomes(c), executed' \in [Actions -> 0..2],
           posted' \subseteq Actions, Sound(c, executed', posted', late', doubtful')
    PROVE  OfflineInv'
  <1>1. tab' = c /\ (c.offline => O!Running(c) # 1..Slots)
    BY DEF O!Becomes
  <1> QED BY <1>1 DEF OfflineInv, O!Running

LEMMA OfflineAnswered ==
    ASSUME OfflineInv, NEW s \in 1..Slots, O!SyncAnswered(s)
    PROVE  OfflineInv'
  <1> DEFINE r == O!ReportSuccess(tab)
             c == O!NextAction(r, s, <<>>)
  <1>1. /\ tab.syncs[s].pc = "reply" /\ O!Becomes(c)
        /\ executed' = executed /\ posted' = posted /\ late' = late
    BY DEF O!SyncAnswered, O!Unobserved
  <1>2. tab \in Tab /\ executed \in [Actions -> 0..2] /\ posted \subseteq Actions
    BY OfflineStates DEF OfflineInv
  <1>3. Reports(tab, r)
    BY OfflineStates, SuccessReports
  <1> HIDE DEF r
  <1>4. r \in Tab
    BY <1>3 DEF Reports
  <1>5. Leaves(r, c, s)
    BY <1>4, NextLeaves
  <1> HIDE DEF c
  <1>6. Sound(r, executed, posted, late, doubtful') /\ r.syncs[s] = tab.syncs[s]
    <2>1. tab.syncs[s].pc # "idle"
      BY <1>1
    <2> QED BY <1>1, <1>3, <1>5, <2>1, ReportedAndMore
  <1>7. r.syncs[s].pc # "idle" /\ executed[Head(r.syncs[s].todo)] > 0
    BY <1>1, <1>6 DEF Sound, Within
  <1>8. Sound(c, executed, posted, late, doubtful')
    <2>1. Sound(O!NextAction(r, s, <<>>), executed, posted, late, doubtful')
      BY <1>2, <1>4, <1>6, <1>7, NextSound
    <2> QED BY <2>1 DEF c
  <1> QED BY <1>1, <1>2, <1>8, BecomesSound

LEMMA OfflineAnsweredBadly ==
    ASSUME OfflineInv, NEW s \in 1..Slots, O!SyncAnsweredBadly(s)
    PROVE  OfflineInv'
  <1> DEFINE r == O!ReportSuccess(tab)
             c == O!Retry(r, s)
  <1>1. /\ tab.syncs[s].pc = "call" /\ O!Becomes(c)
        /\ executed' = executed /\ posted' = posted /\ late' = late
    BY DEF O!SyncAnsweredBadly, O!Unobserved
  <1>2. tab \in Tab /\ executed \in [Actions -> 0..2] /\ posted \subseteq Actions
    BY OfflineStates DEF OfflineInv
  <1>3. Reports(tab, r)
    BY OfflineStates, SuccessReports
  <1> HIDE DEF r
  <1>4. r \in Tab
    BY <1>3 DEF Reports
  <1>5. Leaves(r, c, s)
    <2> DEFINE z == [r.syncs[s] EXCEPT !.pc = "pause"]
               paused == [r EXCEPT !.syncs = [r.syncs EXCEPT ![s] = z]]
    <2>1. [r EXCEPT !.syncs[s].pc = "pause"] = paused
      OBVIOUS
    <2>2. r.syncs \in [1..Slots -> Replay]
      BY <1>4, TabFields
    <2>3. Leaves(r, paused, s)
      <3> DEFINE ss == [r.syncs EXCEPT ![s] = z]
      <3>1. \A t \in 1..Slots : t # s => ss[t] = r.syncs[t]
        BY <2>2
      <3> HIDE DEF ss
      <3>2. [r EXCEPT !.syncs = ss].syncs = ss /\ [r EXCEPT !.syncs = ss].offline = r.offline
        BY <1>4, TabKept
      <3> QED BY <3>1, <3>2 DEF Leaves, ss
    <2> HIDE DEF paused
    <2>4. c = paused \/ c = O!NextAction(r, s, <<Head(r.syncs[s].todo)>>)
      BY <2>1 DEF O!Retry
    <2>5. Leaves(r, O!NextAction(r, s, <<Head(r.syncs[s].todo)>>), s)
      BY <1>4, NextLeaves
    <2> QED BY <2>3, <2>4, <2>5
  <1> HIDE DEF c
  <1>6. Sound(r, executed, posted, late, doubtful') /\ r.syncs[s] = tab.syncs[s]
    <2>1. tab.syncs[s].pc # "idle"
      BY <1>1
    <2> QED BY <1>1, <1>3, <1>5, <2>1, ReportedAndMore
  <1>7. r.syncs[s].pc \in {"call", "reply"} /\ r.syncs[s].pc # "reply"
    BY <1>1, <1>6
  <1>8. Sound(c, executed, posted, late, doubtful')
    <2>1. Sound(O!Retry(r, s), executed, posted, late, doubtful')
      BY <1>2, <1>4, <1>6, <1>7, RetrySound
    <2> QED BY <2>1 DEF c
  <1> QED BY <1>1, <1>2, <1>8, BecomesSound

LEMMA OfflineLost ==
    ASSUME OfflineInv, NEW s \in 1..Slots, O!SyncLost(s)
    PROVE  OfflineInv'
  <1> DEFINE r == O!ReportFailure(tab)
             c == O!Retry(r, s)
  <1>1. /\ tab.syncs[s].pc \in {"call", "reply"} /\ tab' = c
        /\ doubtful' = IF tab.syncs[s].pc = "call" THEN doubtful
                       ELSE doubtful \cup {Head(tab.syncs[s].todo)}
        /\ executed' = executed /\ posted' = posted /\ late' = late
    BY DEF O!SyncLost, O!Unobserved
  <1>2. tab \in Tab /\ executed \in [Actions -> 0..2] /\ posted \subseteq Actions
        /\ Sound(tab, executed, posted, late, doubtful)
        /\ (tab.offline => O!Running(tab) # 1..Slots)
    BY OfflineStates DEF OfflineInv
  <1>3. r \in Tab /\ r.queue = tab.queue /\ r.syncs = tab.syncs /\ r.offline = tab.offline
    BY <1>2, FailureReports
  <1> HIDE DEF r
  <1>4. doubtful \subseteq doubtful'
    BY <1>1
  <1>5. Sound(r, executed, posted, late, doubtful')
    BY <1>2, <1>3, <1>4, SameSound
  <1>6. r.syncs[s].pc \in {"call", "reply"}
        /\ (r.syncs[s].pc = "reply" => Head(r.syncs[s].todo) \in doubtful')
    BY <1>1, <1>3
  <1>7. Sound(c, executed, posted, late, doubtful') /\ Leaves(r, c, s)
    BY <1>2, <1>3, <1>5, <1>6, RetrySound
  <1> HIDE DEF c
  <1>8. O!Running(c) \subseteq O!Running(tab)
    <2>1. tab.syncs[s].pc # "idle"
      BY <1>1
    <2>2. \A t \in 1..Slots : t # s => c.syncs[t] = tab.syncs[t]
      BY <1>3, <1>7 DEF Leaves
    <2> QED BY <2>1, <2>2 DEF O!Running
  <1>9. c.offline => O!Running(c) # 1..Slots
    <2>1. c.offline = tab.offline
      BY <1>3, <1>7 DEF Leaves
    <2>2. O!Running(tab) \subseteq 1..Slots
      BY DEF O!Running
    <2> QED BY <1>2, <1>8, <2>1, <2>2
  <1>10. Sound(tab', executed', posted', late', doubtful')
    BY <1>1, <1>7
  <1>11. tab'.offline => O!Running(tab') # 1..Slots
    BY <1>1, <1>9
  <1>12. executed' \in [Actions -> 0..2] /\ posted' \subseteq Actions
    BY <1>1, <1>2
  <1> QED BY <1>10, <1>11, <1>12 DEF OfflineInv, O!Running

\* More may be doubtful.
LEMMA BecomesDoubtful ==
    ASSUME NEW c, O!Becomes(c)
    PROVE  doubtful \subseteq doubtful'
  BY DEF O!Becomes

\* One more execution of an action, counted up to 2.
LEMMA CountUp ==
    ASSUME NEW ex \in [Actions -> 0..2], NEW h
    PROVE  [ex EXCEPT ![h] = IF @ = 2 THEN 2 ELSE @ + 1] \in [Actions -> 0..2]
  <1> DEFINE up(k) == IF k = 2 THEN 2 ELSE k + 1
  <1>1. \A k \in 0..2 : up(k) \in 0..2
    OBVIOUS
  <1> HIDE DEF up
  <1>2. [ex EXCEPT ![h] = up(ex[h])] \in [Actions -> 0..2]
    BY <1>1
  <1> QED BY <1>2 DEF up

\* A replay that tries again.
LEMMA AttemptSet ==
    ASSUME NEW y \in Replay, NEW n \in Nat, y.todo # <<>>
    PROVE  /\ [y EXCEPT !.pc = "call", !.attempt = n] \in Replay
           /\ IsReplay([y EXCEPT !.pc = "call", !.attempt = n])
           /\ [y EXCEPT !.pc = "call", !.attempt = n].pc = "call"
           /\ [y EXCEPT !.pc = "call", !.attempt = n].todo = y.todo
           /\ [y EXCEPT !.pc = "call", !.attempt = n].failed = y.failed
  <1> DEFINE queues == Queue
             replays == [todo : queues, failed : queues, attempt : Nat,
                         pc : {"idle", "call", "reply", "pause"}]
  <1>1. y \in replays
    BY DEF Replay
  <1> HIDE DEF queues
  <1>2. [y EXCEPT !.pc = "call", !.attempt = n] \in replays
    BY <1>1
  <1>3. /\ [y EXCEPT !.pc = "call", !.attempt = n].pc = "call"
        /\ [y EXCEPT !.pc = "call", !.attempt = n].todo = y.todo
        /\ [y EXCEPT !.pc = "call", !.attempt = n].failed = y.failed
    BY <1>1
  <1>4. IsReplay([y EXCEPT !.pc = "call", !.attempt = n])
    BY <1>3 DEF IsReplay
  <1> QED BY <1>2, <1>3, <1>4 DEF Replay, queues

LEMMA OfflineReaches ==
    ASSUME OfflineInv, NEW s \in 1..Slots, O!SyncReaches(s)
    PROVE  OfflineInv'
  <1> DEFINE y == tab.syncs[s]
             z == [y EXCEPT !.pc = "reply"]
             c == [tab EXCEPT !.syncs = [tab.syncs EXCEPT ![s] = z]]
  <1>1. /\ y.pc = "call" /\ O!Becomes(c)
        /\ executed' = [executed EXCEPT ![Head(y.todo)] = IF @ = 2 THEN 2 ELSE @ + 1]
        /\ posted' = posted /\ late' = late
    <2>1. [tab EXCEPT !.syncs[s].pc = "reply"] = c
      OBVIOUS
    <2> HIDE DEF c
    <2> QED BY <2>1 DEF O!SyncReaches, O!Unobserved
  <1>2. /\ tab \in Tab /\ executed \in [Actions -> 0..2] /\ posted \subseteq Actions
        /\ Sound(tab, executed, posted, late, doubtful)
    BY OfflineStates DEF OfflineInv
  <1>3. y \in Replay /\ y.todo # <<>>
    <2>1. y \in Replay
      BY <1>2, TabFields
    <2> QED BY <1>1, <1>2, <2>1 DEF Sound, TabShape, IsReplay
  <1>4. z \in Replay /\ IsReplay(z) /\ z.pc = "reply" /\ z.todo = y.todo /\ z.failed = y.failed
    <2>1. "reply" \in {"call", "reply", "pause"} /\ 0 \in Nat
      OBVIOUS
    <2> HIDE DEF y
    <2>2. /\ [y EXCEPT !.pc = "reply"] \in Replay /\ IsReplay([y EXCEPT !.pc = "reply"])
          /\ [y EXCEPT !.pc = "reply"].pc = "reply"
          /\ [y EXCEPT !.pc = "reply"].todo = y.todo
          /\ [y EXCEPT !.pc = "reply"].failed = y.failed
      BY <1>3, <2>1, PcSet
    <2> QED BY <2>2, Zenon
  <1> HIDE DEF z
  <1>5. c \in Tab /\ c.queue = tab.queue /\ Replaces(tab, c, s, z)
    <2>1. tab \in Tab /\ z \in Replay
      BY <1>2, <1>4
    <2>2. /\ [tab EXCEPT !.syncs = [tab.syncs EXCEPT ![s] = z]] \in Tab
          /\ [tab EXCEPT !.syncs = [tab.syncs EXCEPT ![s] = z]].queue = tab.queue
          /\ Replaces(tab, [tab EXCEPT !.syncs = [tab.syncs EXCEPT ![s] = z]], s, z)
      BY <2>1, ReplaySet
    <2> QED BY <2>2, Zenon
  <1> HIDE DEF c
  <1>6. executed' \in [Actions -> 0..2]
    <2> DEFINE h == Head(y.todo)
    <2>1. executed' = [executed EXCEPT ![h] = IF @ = 2 THEN 2 ELSE @ + 1]
      BY <1>1
    <2> HIDE DEF y, h
    <2> QED BY <1>2, <2>1, CountUp, Zenon
  <1>7. /\ tab.syncs[s].pc = "call" /\ z.todo = tab.syncs[s].todo /\ z.failed = tab.syncs[s].failed
        /\ executed' = [executed EXCEPT ![Head(z.todo)] = IF @ = 2 THEN 2 ELSE @ + 1]
    BY <1>1, <1>4
  <1>8. Sound(c, executed', posted, late, doubtful)
    BY <1>2, <1>4, <1>5, <1>6, <1>7, ReachSound
  <1>9. doubtful \subseteq doubtful'
    BY <1>1, BecomesDoubtful
  <1>10. Sound(c, executed', posted, late, doubtful')
    BY <1>5, <1>8, <1>9, SameSound
  <1> QED BY <1>1, <1>2, <1>6, <1>10, BecomesSound

\* Replay s of a tab tries its action again.
Again(c, s) ==
    [c EXCEPT !.syncs = [c.syncs EXCEPT ![s] = [c.syncs[s] EXCEPT !.pc = "call",
                                               !.attempt = c.syncs[s].attempt + 1]]]

LEMMA BecomesAgain ==
    ASSUME tab \in Tab, NEW s \in 1..Slots, O!SyncTriesAgain(s)
    PROVE  O!Becomes(Again(tab, s))
  <1> DEFINE y == tab.syncs[s]
             n == y.attempt + 1
             z == [y EXCEPT !.pc = "call", !.attempt = n]
             c == [tab EXCEPT !.syncs = [tab.syncs EXCEPT ![s] = z]]
             w == [y EXCEPT !.pc = "call"]
             ss == [tab.syncs EXCEPT ![s] = w]
             d == [tab EXCEPT !.syncs = ss]
  <1>1. tab.syncs \in [1..Slots -> Replay] /\ y \in Replay
    BY TabFields
  <1>2. [tab EXCEPT !.syncs[s].pc = "call", !.syncs[s].attempt = @ + 1] =
           [d EXCEPT !.syncs[s].attempt = @ + 1]
    OBVIOUS
  <1>3. d.syncs[s] = w
    <2>1. ss[s] = w
      BY <1>1
    <2> HIDE DEF ss
    <2>2. d.syncs = ss
      BY <1>1, TabKept
    <2> QED BY <2>1, <2>2
  <1>4. w.attempt = y.attempt
    BY <1>1 DEF Replay
  <1>5. [d EXCEPT !.syncs[s].attempt = @ + 1] =
           [d EXCEPT !.syncs =
               [d.syncs EXCEPT ![s] = [d.syncs[s] EXCEPT !.attempt = d.syncs[s].attempt + 1]]]
    OBVIOUS
  <1>6. [w EXCEPT !.attempt = n] = z
    OBVIOUS
  <1>7. d.syncs = ss
    <2> HIDE DEF ss
    <2> QED BY <1>1, TabKept
  <1>8. [d EXCEPT !.syncs[s].attempt = @ + 1] = [d EXCEPT !.syncs = [ss EXCEPT ![s] = z]]
    <2>1. [d.syncs[s] EXCEPT !.attempt = d.syncs[s].attempt + 1] = z
      BY <1>3, <1>4, <1>6
    <2> HIDE DEF d, ss, z
    <2> QED BY <1>5, <1>7, <2>1
  <1>9. [ss EXCEPT ![s] = z] = [tab.syncs EXCEPT ![s] = z]
    OBVIOUS
  <1>10. \A a, b : [[tab EXCEPT !.syncs = a] EXCEPT !.syncs = b] = [tab EXCEPT !.syncs = b]
    OBVIOUS
  <1>11. [d EXCEPT !.syncs = [tab.syncs EXCEPT ![s] = z]] = c
    <2> HIDE DEF ss, z
    <2> QED BY <1>10, Zenon
  <1>12. c = Again(tab, s)
    BY DEF Again
  <1>13. O!Becomes([tab EXCEPT !.syncs[s].pc = "call", !.syncs[s].attempt = @ + 1])
    BY DEF O!SyncTriesAgain
  <1> HIDE DEF d, ss, z, c
  <1> QED BY <1>2, <1>8, <1>9, <1>11, <1>12, <1>13

LEMMA OfflineTriesAgain ==
    ASSUME OfflineInv, NEW s \in 1..Slots, O!SyncTriesAgain(s)
    PROVE  OfflineInv'
  <1> DEFINE y == tab.syncs[s]
             n == y.attempt + 1
             z == [y EXCEPT !.pc = "call", !.attempt = n]
             c == [tab EXCEPT !.syncs = [tab.syncs EXCEPT ![s] = z]]
  <1>1. /\ tab \in Tab /\ executed \in [Actions -> 0..2] /\ posted \subseteq Actions
        /\ Sound(tab, executed, posted, late, doubtful)
    BY OfflineStates DEF OfflineInv
  <1>2. y \in Replay /\ tab.syncs \in [1..Slots -> Replay]
    BY <1>1, TabFields
  <1>3. /\ y.pc = "pause" /\ O!Becomes(c)
        /\ executed' = executed /\ posted' = posted /\ late' = late
    <2>1. O!Becomes(c)
      BY <1>1, BecomesAgain DEF Again
    <2> HIDE DEF c
    <2> QED BY <2>1 DEF O!SyncTriesAgain, O!Unobserved
  <1>4. y.todo # <<>> /\ n \in Nat
    <2>1. y.attempt \in Nat
      BY <1>2, ReplayFields
    <2> QED BY <1>1, <1>3, <2>1 DEF Sound, TabShape, IsReplay
  <1>5. z \in Replay /\ IsReplay(z) /\ z.pc = "call" /\ z.todo = y.todo /\ z.failed = y.failed
    <2>2. y \in Replay /\ n \in Nat /\ y.todo # <<>>
      BY <1>2, <1>4
    <2> HIDE DEF y, n
    <2>3. /\ [y EXCEPT !.pc = "call", !.attempt = n] \in Replay
          /\ IsReplay([y EXCEPT !.pc = "call", !.attempt = n])
          /\ [y EXCEPT !.pc = "call", !.attempt = n].pc = "call"
          /\ [y EXCEPT !.pc = "call", !.attempt = n].todo = y.todo
          /\ [y EXCEPT !.pc = "call", !.attempt = n].failed = y.failed
      BY <2>2, AttemptSet
    <2> QED BY <2>3, Zenon
  <1> HIDE DEF z
  <1>6. c \in Tab /\ c.queue = tab.queue /\ Replaces(tab, c, s, z)
    BY <1>1, <1>5, ReplaySet
  <1> HIDE DEF c
  <1>7. /\ tab.syncs[s].pc \notin {"idle"} /\ z.pc \in {"pause", "call"}
        /\ tab.syncs[s].pc # "reply"
        /\ z.todo = tab.syncs[s].todo /\ z.failed = tab.syncs[s].failed
    BY <1>3, <1>5
  <1>8. Sound(c, executed, posted, late, doubtful)
    BY <1>1, <1>5, <1>6, <1>7, CallSound
  <1>9. doubtful \subseteq doubtful'
    BY <1>3, BecomesDoubtful
  <1>10. Sound(c, executed, posted, late, doubtful')
    BY <1>6, <1>8, <1>9, SameSound
  <1> QED BY <1>1, <1>3, <1>10, BecomesSound

LEMMA OfflinePost ==
    ASSUME OfflineInv, NEW a \in Actions, O!Post(a)
    PROVE  OfflineInv'
  <1> DEFINE q == Append(tab.queue, a)
             c == [tab EXCEPT !.queue = q]
  <1>1. /\ a \notin posted /\ O!Becomes(c)
        /\ executed' = executed /\ posted' = posted \cup {a}
        /\ late' = IF O!Running(tab) = {} THEN late ELSE late \cup {a}
    BY DEF O!Post
  <1>2. /\ tab \in Tab /\ executed \in [Actions -> 0..2] /\ posted \subseteq Actions
        /\ Sound(tab, executed, posted, late, doubtful)
    BY OfflineStates DEF OfflineInv
  <1>3. /\ tab.queue \in Queue /\ tab.syncs \in [1..Slots -> Replay]
        /\ tab.offline \in BOOLEAN /\ tab.failures \in Nat
    BY <1>2, TabFields
  <1>4. q \in Queue
    BY <1>3, Appending
  <1> HIDE DEF q
  <1>5. c \in Tab /\ c.queue = q /\ c.syncs = tab.syncs
    <2>1. c \in Tab
      BY <1>2, <1>3, <1>4, TabSet
    <2> QED BY <1>2, <2>1, TabKept
  <1> HIDE DEF c
  <1>6. Sound(c, executed, posted \cup {a},
              IF O!Running(tab) = {} THEN late ELSE late \cup {a}, doubtful)
    <2>1. c.queue = Append(tab.queue, a)
      BY <1>5 DEF q
    <2> QED BY <1>1, <1>2, <1>5, <2>1, PostSound
  <1>7. Sound(c, executed, posted', late', doubtful)
    BY <1>1, <1>6
  <1>8. doubtful \subseteq doubtful'
    BY <1>1, BecomesDoubtful
  <1>9. Sound(c, executed, posted', late', doubtful')
    BY <1>5, <1>7, <1>8, SameSound
  <1>10. posted' \subseteq Actions
    BY <1>1, <1>2
  <1> QED BY <1>1, <1>2, <1>9, <1>10, BecomesSound

LEMMA OfflineReload == ASSUME OfflineInv, O!Reload PROVE OfflineInv'
  <1> DEFINE p == IF tab.forced THEN "login" ELSE "app"
             rests == [s \in 1..Slots |-> O!Resting]
             c == [tab EXCEPT !.page = p, !.offline = tab.forced, !.failures = 0, !.syncs = rests]
  <1>1. /\ tab' = c /\ executed' = executed /\ posted' = posted /\ late' = late
        /\ doubtful' = IF O!Running(tab) = {} THEN doubtful ELSE doubtful \cup O!ToSet(tab.queue)
    BY DEF O!Reload
  <1>2. /\ tab \in Tab /\ executed \in [Actions -> 0..2] /\ posted \subseteq Actions
        /\ Sound(tab, executed, posted, late, doubtful)
    BY OfflineStates DEF OfflineInv
  <1>3. tab.queue \in Queue /\ tab.forced \in BOOLEAN
    BY <1>2, TabFields
  <1>4. rests \in [1..Slots -> Replay] /\ \A s \in 1..Slots : rests[s] = O!Resting
    BY RestingReplay
  <1>5. p \in {"app", "login"}
    OBVIOUS
  <1> HIDE DEF p, rests
  <1>6. c \in Tab /\ c.queue = tab.queue /\ c.syncs = rests
    <2>1. c \in Tab
      BY <1>2, <1>3, <1>4, <1>5, TabSet
    <2> QED BY <1>2, <2>1, TabKept
  <1> HIDE DEF c
  <1>7. /\ doubtful \subseteq doubtful'
        /\ (O!Running(tab) # {} => O!ToSet(tab.queue) \subseteq doubtful')
    BY <1>1
  <1>8. \A s \in 1..Slots : c.syncs[s] = O!Resting
    BY <1>4, <1>6
  <1>9. Sound(c, executed, posted, late, doubtful')
    BY <1>2, <1>6, <1>7, <1>8, ReloadSound
  <1>10. O!Running(c) # 1..Slots
    <2>1. O!Running(c) = {}
      BY <1>8, RestingReplay DEF O!Running
    <2>2. 1 \in 1..Slots
      BY BrowserAssumption DEF O!OfflineAssumption
    <2> QED BY <2>1, <2>2
  <1> QED BY <1>1, <1>2, <1>9, <1>10 DEF OfflineInv, O!Running

\* Steps of the network that leave the tab and its history alone.
LEMMA OfflineStays ==
    ASSUME OfflineInv, UNCHANGED <<tab, executed, posted, late, doubtful>>
    PROVE  OfflineInv'
  BY DEF OfflineInv, O!Running

LEMMA OfflineReports ==
    ASSUME OfflineInv,
           O!HeartbeatEnds \/ O!RequestAnswered \/ O!RequestFailed \/ O!Toggle \/ O!Unplug
           \/ \E n \in {"up", "sick", "down"} : O!Plug(n)
    PROVE  OfflineInv'
  <1>1. /\ UNCHANGED <<executed, posted, late>>
        /\ \/ O!Becomes(O!ReportSuccess(tab)) \/ O!Becomes(O!HeartbeatFailure(tab))
           \/ O!Becomes(O!ReportFailure(tab)) \/ O!Toggle
           \/ O!Becomes(O!MarkOffline(tab)) \/ O!Becomes(O!MarkOnline(tab)) \/ O!Becomes(tab)
    BY DEF O!HeartbeatEnds, O!HeartbeatAnswered, O!HeartbeatFailed, O!RequestAnswered,
       O!RequestFailed, O!Toggle, O!Unplug, O!Plug, O!Unobserved
  <1>2. tab \in Tab /\ (tab.offline => O!Running(tab) # 1..Slots)
    BY OfflineStates
  <1>3. /\ Reports(tab, O!ReportSuccess(tab)) /\ Reports(tab, O!MarkOnline(tab))
    BY <1>2, SuccessReports, OnlineReports
  <1>4. /\ Reports(tab, O!HeartbeatFailure(tab)) /\ Reports(tab, O!ReportFailure(tab))
        /\ Reports(tab, O!MarkOffline(tab)) /\ Reports(tab, tab)
    BY <1>2, FailureReports DEF Reports
  <1>5. O!Toggle => \E r : Reports(tab, r) /\ O!Becomes(r)
    <2> DEFINE b == ~tab.forced
               d == ~tab.forced \/ ~plugged
               r == [tab EXCEPT !.forced = b, !.offline = d]
    <2>1. O!Toggle => O!Becomes(r)
      BY DEF O!Toggle
    <2>2. b \in BOOLEAN /\ d \in BOOLEAN
      BY Zenon
    <2> HIDE DEF b, d
    <2>3. tab.queue \in Queue /\ tab.syncs \in [1..Slots -> Replay]
      BY <1>2, TabFields
    <2>4. r \in Tab
      BY <1>2, <2>2, <2>3, TabSet
    <2>5. r.queue = tab.queue /\ r.syncs = tab.syncs
      BY <1>2, TabKept
    <2> HIDE DEF r
    <2>6. Reports(tab, r)
      BY <2>4, <2>5 DEF Reports
    <2> QED BY <2>1, <2>6, Zenon
  <1>6. \E r : Reports(tab, r) /\ O!Becomes(r)
    BY <1>1, <1>3, <1>4, <1>5, Zenon
  <1> QED BY <1>1, <1>6, BecomesReported

LEMMA OfflineNext == OfflineInv /\ [O!Next]_(O!vars) => OfflineInv'
  <1> SUFFICES ASSUME OfflineInv, [O!Next]_(O!vars) PROVE OfflineInv'
    OBVIOUS
  <1>1. CASE UNCHANGED O!vars
    BY <1>1, OfflineStays DEF O!vars, O!history
  <1>2. CASE O!Heartbeat
    BY <1>2, OfflineStays DEF O!Heartbeat, O!history
  <1>3. CASE \E n \in {"up", "sick", "down"} : O!ServerTurns(n)
    BY <1>3, OfflineStays DEF O!ServerTurns, O!history
  <1>4. CASE O!HeartbeatEnds \/ O!RequestAnswered \/ O!RequestFailed \/ O!Toggle \/ O!Unplug
             \/ \E n \in {"up", "sick", "down"} : O!Plug(n)
    BY <1>4, OfflineReports
  <1>5. CASE \E s \in 1..Slots : O!SyncStep(s)
    BY <1>5, OfflineReaches, OfflineAnswered, OfflineAnsweredBadly, OfflineLost,
       OfflineTriesAgain DEF O!SyncStep
  <1>6. CASE \E a \in Actions : O!Post(a)
    BY <1>6, OfflinePost
  <1>7. CASE O!Reload
    BY <1>7, OfflineReload
  <1> QED BY <1>1, <1>2, <1>3, <1>4, <1>5, <1>6, <1>7 DEF O!Next, O!World

LEMMA OfflineInit == ASSUME O!Init PROVE OfflineInv
  <1> DEFINE rests == [s \in 1..Slots |-> O!Resting]
  <1>1. /\ tab = [page |-> "app", offline |-> FALSE, forced |-> FALSE, failures |-> 0,
                  queue |-> <<>>, syncs |-> rests]
        /\ executed = [a \in Actions |-> 0]
        /\ posted = {} /\ late = {} /\ doubtful = {}
    BY DEF O!Init
  <1>2. rests \in [1..Slots -> Replay] /\ \A s \in 1..Slots : rests[s] = O!Resting
    BY RestingReplay
  <1> HIDE DEF rests
  <1>3. tab.queue = <<>> /\ tab.syncs = rests
    BY <1>1
  <1>4. ~tab.offline
    BY <1>1, Zenon
  <1>5. tab \in Tab
    <2> DEFINE no == FALSE
               none == <<>>
               queues == Queue
               replays == [1..Slots -> Replay]
    <2>1. no \in BOOLEAN
      BY Zenon
    <2>2. none \in queues /\ rests \in replays
      BY <1>2, NothingQueued
    <2>3. tab = [page |-> "app", offline |-> no, forced |-> no, failures |-> 0,
                 queue |-> none, syncs |-> rests]
      BY <1>1, Zenon
    <2> HIDE DEF no, none, queues, replays
    <2>4. tab \in [page : {"app", "login"}, offline : BOOLEAN, forced : BOOLEAN, failures : Nat,
                   queue : queues, syncs : replays]
      BY <2>1, <2>2, <2>3
    <2> QED BY <2>4 DEF Tab, queues, replays
  <1>6. O!Running(tab) = {} /\ O!ToSet(tab.queue) = {} /\ Distinct(tab.queue)
    <2>1. O!Running(tab) = {}
      BY <1>2, <1>3, RestingReplay DEF O!Running
    <2> QED BY <1>3, <2>1, NothingQueued, Zenon
  <1>7. \A s \in 1..Slots : /\ InHand(tab.syncs[s]) = {} /\ tab.syncs[s].pc = "idle"
                            /\ IsReplay(tab.syncs[s]) /\ IsTidy(tab.syncs[s])
    BY <1>2, <1>3, RestingReplay
  <1>8. executed \in [Actions -> 0..2] /\ \A a \in Actions : executed[a] = 0
    BY <1>1
  <1>9. TabShape(tab)
    BY <1>5, <1>6, <1>7 DEF TabShape
  <1>10. Within(tab, executed, posted)
    BY <1>6, <1>7, <1>8 DEF Within
  <1>11. \A a \in Actions : IsSure(tab, executed, a)
    BY <1>7, <1>8 DEF IsSure
  <1>12. Sound(tab, executed, posted, late, doubtful)
    BY <1>1, <1>9, <1>10, <1>11 DEF Sound
  <1> QED BY <1>1, <1>4, <1>8, <1>12 DEF OfflineInv

OfflinePart == script = "offline" => OfflineInv

LEMMA OfflinePartAlways == BrowserSpec => []OfflinePart
  <1>1. BrowserInit => OfflinePart
    BY OfflineInit DEF BrowserInit, OfflinePart
  <1>2. OfflinePart /\ [BrowserNext]_browserVars => OfflinePart'
    BY Steps, OfflineNext DEF OfflinePart
  <1> QED BY <1>1, <1>2, PTL DEF BrowserSpec

\* However heartbeats, requests, replays, reloads and the network interleave, an action
\* of the queue is lost only when it was queued while a replay was running
\* (_queueOfflineAction, _syncOfflineQueue).
THEOREM LostAlwaysLate == BrowserSpec => []OfflineLostOnlyIfLate
  <1>1. OfflineInv => O!LostOnlyIfLate
    <2> SUFFICES ASSUME OfflineInv, NEW a \in posted \ late
                 PROVE  a \in O!ToSet(tab.queue) \cup {x \in Actions : executed[x] > 0}
      BY DEF O!LostOnlyIfLate
    <2>1. a \in Actions /\ executed[a] \in 0..2 /\ IsSafe(tab, executed, a)
      BY DEF OfflineInv, Sound
    <2>2. CASE executed[a] = 0
      BY <2>1, <2>2 DEF IsSafe
    <2>3. CASE executed[a] # 0
      BY <2>1, <2>3
    <2> QED BY <2>2, <2>3
  <1>2. OfflinePart => OfflineLostOnlyIfLate
    BY <1>1 DEF OfflinePart, OfflineLostOnlyIfLate
  <1> QED BY <1>2, OfflinePartAlways, PTL

\* The server executes an action twice only when the answer to the first time was lost,
\* or two replays had copied the action (_syncOfflineQueue, _initOfflineMode).
THEOREM TwiceAlwaysDoubtful == BrowserSpec => []OfflineTwiceOnlyIfDoubtful
  <1>1. OfflineInv => O!TwiceOnlyIfDoubtful
    BY DEF OfflineInv, Sound, IsSure, O!TwiceOnlyIfDoubtful
  <1>2. OfflinePart => OfflineTwiceOnlyIfDoubtful
    BY <1>1 DEF OfflinePart, OfflineTwiceOnlyIfDoubtful
  <1> QED BY <1>2, OfflinePartAlways, PTL

(***************************************************************************)
(* OfflineQueue: failures and attempts stay within their limits.               *)
(***************************************************************************)
AttemptFits(y) == /\ y.attempt \in 1..MaxRetries
                  /\ y.pc = "pause" => y.attempt < MaxRetries

Limited(c) == c.failures \in 0..2 /\ \A s \in 1..Slots : AttemptFits(c.syncs[s])

OfflineLimits ==
    /\ Limited(tab) /\ pings \in 0..MaxPings /\ loads \in 0..MaxLoads
    /\ net \in {"up", "sick", "down"} /\ plugged \in BOOLEAN
    /\ late \subseteq Actions /\ doubtful \subseteq Actions

LEMMA OfflineConstants ==
    /\ MaxRetries \in Nat /\ 1 \in 1..MaxRetries /\ MaxPings \in Nat /\ MaxLoads \in Nat
    /\ O!HEARTBEAT_FAILURE_THRESHOLD = 2
  BY BrowserAssumption DEF O!OfflineAssumption, O!HEARTBEAT_FAILURE_THRESHOLD

\* What the functions of a tab make of the count of failures.
LEMMA TabFailures ==
    ASSUME NEW c \in Tab
    PROVE  /\ \A n : [c EXCEPT !.failures = n].failures = n
           /\ \A b : [c EXCEPT !.offline = b].failures = c.failures
           /\ \A b, n : [c EXCEPT !.offline = b, !.failures = n].failures = n
           /\ \A b, d : [c EXCEPT !.forced = b, !.offline = d].failures = c.failures
           /\ \A q : [c EXCEPT !.queue = q].failures = c.failures
           /\ \A ss : [c EXCEPT !.syncs = ss].failures = c.failures
           /\ \A s, z : /\ [c EXCEPT !.syncs[s] = z].failures = c.failures
                        /\ [c EXCEPT !.syncs[s] = z].syncs = [c.syncs EXCEPT ![s] = z]
           /\ \A q, s, z :
                 /\ [c EXCEPT !.queue = q, !.syncs[s] = z].failures = c.failures
                 /\ [c EXCEPT !.queue = q, !.syncs[s] = z].syncs = [c.syncs EXCEPT ![s] = z]
           /\ \A p, b, n, ss :
                 [c EXCEPT !.page = p, !.offline = b, !.failures = n, !.syncs = ss].failures = n
  BY DEF Tab

\* One replay is set.
LEMMA LimitedSet ==
    ASSUME NEW c \in Tab, Limited(c), NEW s \in 1..Slots, NEW z, AttemptFits(z),
           NEW r, r.syncs = [c.syncs EXCEPT ![s] = z], r.failures \in 0..2
    PROVE  Limited(r)
  <1>1. c.syncs \in [1..Slots -> Replay]
    BY TabFields
  <1>2. \A t \in 1..Slots : r.syncs[t] = IF t = s THEN z ELSE c.syncs[t]
    BY <1>1
  <1> QED BY <1>2 DEF Limited

LEMMA ReportsLimited ==
    ASSUME NEW c \in Tab, Limited(c), NEW r, Reports(c, r), r.failures \in 0..2
    PROVE  Limited(r)
  <1>1. CASE r.syncs = c.syncs
    BY <1>1 DEF Limited
  <1>2. CASE Starts(c, r)
    <2> DEFINE z == [todo |-> c.queue, failed |-> <<>>, attempt |-> 1, pc |-> "call"]
    <2>1. PICK s \in 1..Slots : Replaces(c, r, s, z)
      BY <1>2 DEF Starts
    <2>2. AttemptFits(z)
      BY OfflineConstants DEF AttemptFits
    <2> HIDE DEF z
    <2>3. r.syncs = [c.syncs EXCEPT ![s] = z]
      BY <2>1 DEF Replaces
    <2> QED BY <2>2, <2>3, LimitedSet
  <1> QED BY <1>1, <1>2 DEF Reports

LEMMA FailuresCounted ==
    ASSUME NEW c \in Tab, c.failures \in 0..2
    PROVE  /\ O!StartSync(c).failures = c.failures
           /\ O!MarkOnline(c).failures \in 0..2
           /\ O!ReportSuccess(c).failures \in 0..2
           /\ O!MarkOffline(c).failures = c.failures
           /\ O!ReportFailure(c).failures \in 0..2
           /\ O!HeartbeatFailure(c).failures \in 0..2
  <1>1. ASSUME NEW d \in Tab PROVE O!StartSync(d).failures = d.failures
    <2> DEFINE s == CHOOSE t \in 1..Slots : t \notin O!Running(d)
               z == [O!Resting EXCEPT !.todo = d.queue, !.pc = "call"]
    <2>1. O!StartSync(d) = d \/ O!StartSync(d) = [d EXCEPT !.syncs[s] = z]
      BY DEF O!StartSync
    <2> HIDE DEF s, z
    <2>2. [d EXCEPT !.syncs[s] = z].failures = d.failures
      BY TabFailures, Zenon
    <2> QED BY <2>1, <2>2, Zenon
  <1>2. ASSUME NEW d \in Tab, d.failures \in 0..2 PROVE O!MarkOnline(d).failures \in 0..2
    <2> DEFINE b == FALSE
               e == [d EXCEPT !.offline = b, !.failures = 0]
    <2>1. O!MarkOnline(d) = d \/ O!MarkOnline(d) = O!StartSync(e)
      BY DEF O!MarkOnline
    <2>2. b \in BOOLEAN
      BY Zenon
    <2> HIDE DEF b
    <2>3. d.queue \in Queue /\ d.syncs \in [1..Slots -> Replay]
      BY TabFields
    <2>4. e \in Tab
      BY <2>2, <2>3, TabSet
    <2>5. e.failures = 0
      BY TabFailures
    <2> HIDE DEF e
    <2>6. O!StartSync(e).failures = 0
      BY <1>1, <2>4, <2>5
    <2> QED BY <1>2, <2>1, <2>6
  <1>3. O!ReportSuccess(c).failures \in 0..2
    <2> DEFINE d == [c EXCEPT !.failures = 0]
    <2>1. c.queue \in Queue /\ c.syncs \in [1..Slots -> Replay] /\ c.offline \in BOOLEAN
      BY TabFields
    <2>2. d \in Tab /\ d.failures = 0
      <3>1. d \in Tab
        BY <2>1, TabSet
      <3> QED BY <3>1, TabFailures
    <2>3. O!ReportSuccess(c) = d \/ O!ReportSuccess(c) = O!MarkOnline(d)
      BY DEF O!ReportSuccess
    <2> HIDE DEF d
    <2>4. O!MarkOnline(d).failures \in 0..2
      BY <1>2, <2>2
    <2> QED BY <2>2, <2>3, <2>4
  <1>4. ASSUME NEW d \in Tab PROVE O!MarkOffline(d).failures = d.failures
    <2> DEFINE b == TRUE
    <2>1. O!MarkOffline(d) = [d EXCEPT !.offline = b]
      BY DEF O!MarkOffline
    <2> HIDE DEF b
    <2> QED BY <2>1, TabFailures
  <1>5. O!CountFailure(c).failures \in 0..2 /\ O!CountFailure(c) \in Tab
    <2> DEFINE n == c.failures + 1
               d == [c EXCEPT !.failures = n]
    <2>1. \/ O!CountFailure(c) = c
          \/ c.failures # 2 /\ O!CountFailure(c) = d
      BY OfflineConstants DEF O!CountFailure
    <2>2. c.failures # 2 => n \in 0..2
      OBVIOUS
    <2>3. c.queue \in Queue /\ c.syncs \in [1..Slots -> Replay] /\ c.offline \in BOOLEAN
          /\ n \in Nat
      BY TabFields
    <2> HIDE DEF n
    <2>4. d \in Tab /\ d.failures = n
      <3>1. d \in Tab
        BY <2>3, TabSet
      <3> QED BY <3>1, TabFailures
    <2> HIDE DEF d
    <2> QED BY <2>1, <2>2, <2>4
  <1>6. O!ReportFailure(c) = c \/ O!ReportFailure(c) = O!CountFailure(c)
    BY DEF O!ReportFailure
  <1>7. \/ O!HeartbeatFailure(c) = O!CountFailure(c)
        \/ O!HeartbeatFailure(c) = O!MarkOffline(O!CountFailure(c))
    BY DEF O!HeartbeatFailure
  <1>8. O!MarkOffline(O!CountFailure(c)).failures \in 0..2
    BY <1>4, <1>5
  <1>9. O!MarkOnline(c).failures \in 0..2
    BY <1>2
  <1> QED BY <1>1, <1>3, <1>4, <1>5, <1>6, <1>7, <1>8, <1>9

LEMMA NextLimited ==
    ASSUME NEW c \in Tab, Limited(c), NEW s \in 1..Slots, NEW f
    PROVE  Limited(O!NextAction(c, s, f))
  <1> DEFINE missed == c.syncs[s].failed \o f
             left == Tail(c.syncs[s].todo)
             z == [todo |-> left, failed |-> missed, attempt |-> 1, pc |-> "call"]
             rest == O!Resting
  <1>1. \/ O!NextAction(c, s, f) = [c EXCEPT !.queue = missed, !.syncs[s] = rest]
        \/ O!NextAction(c, s, f) = [c EXCEPT !.syncs[s] = z]
    BY DEF O!NextAction
  <1>2. AttemptFits(rest) /\ AttemptFits(z)
    BY OfflineConstants DEF AttemptFits, O!Resting
  <1>3. c.failures \in 0..2
    BY DEF Limited
  <1> HIDE DEF missed, z, rest
  <1>4. Limited([c EXCEPT !.queue = missed, !.syncs[s] = rest])
    <2> DEFINE r == [c EXCEPT !.queue = missed, !.syncs[s] = rest]
    <2>1. r.failures \in 0..2 /\ r.syncs = [c.syncs EXCEPT ![s] = rest]
      BY <1>3, TabFailures
    <2> HIDE DEF r
    <2>2. Limited(r)
      BY <1>2, <2>1, LimitedSet
    <2> QED BY <2>2 DEF r
  <1>5. Limited([c EXCEPT !.syncs[s] = z])
    <2> DEFINE r == [c EXCEPT !.syncs[s] = z]
    <2>1. r.failures \in 0..2 /\ r.syncs = [c.syncs EXCEPT ![s] = z]
      BY <1>3, TabFailures
    <2> HIDE DEF r
    <2>2. Limited(r)
      BY <1>2, <2>1, LimitedSet
    <2> QED BY <2>2 DEF r
  <1> QED BY <1>1, <1>4, <1>5

\* A replay whose state is set by name.
LEMMA ReplayAttempt ==
    ASSUME NEW y \in Replay, NEW p, NEW n
    PROVE  /\ [y EXCEPT !.pc = p].attempt = y.attempt /\ [y EXCEPT !.pc = p].pc = p
           /\ [y EXCEPT !.pc = p, !.attempt = n].attempt = n
           /\ [y EXCEPT !.pc = p, !.attempt = n].pc = p
  BY DEF Replay

LEMMA PcLimited ==
    ASSUME NEW c \in Tab, Limited(c), NEW s \in 1..Slots, NEW p,
           p = "pause" => c.syncs[s].attempt < MaxRetries
    PROVE  Limited([c EXCEPT !.syncs[s].pc = p])
  <1> DEFINE y == c.syncs[s]
             z == [y EXCEPT !.pc = p]
             r == [c EXCEPT !.syncs[s] = z]
  <1>1. [c EXCEPT !.syncs[s].pc = p] = r
    OBVIOUS
  <1>2. y \in Replay /\ AttemptFits(y)
    BY TabFields DEF Limited
  <1>3. z.attempt = y.attempt /\ z.pc = p
    <2> HIDE DEF y
    <2> QED BY <1>2, ReplayAttempt
  <1>4. AttemptFits(z)
    <2> HIDE DEF z
    <2> QED BY <1>2, <1>3 DEF AttemptFits
  <1> HIDE DEF z
  <1>5. r.failures \in 0..2 /\ r.syncs = [c.syncs EXCEPT ![s] = z]
    BY TabFailures DEF Limited
  <1> HIDE DEF r
  <1>6. Limited(r)
    BY <1>4, <1>5, LimitedSet
  <1> QED BY <1>1, <1>6

LEMMA RetryLimited ==
    ASSUME NEW c \in Tab, Limited(c), NEW s \in 1..Slots
    PROVE  Limited(O!Retry(c, s))
  <1>1. CASE c.syncs[s].attempt < MaxRetries
    <2>1. O!Retry(c, s) = [c EXCEPT !.syncs[s].pc = "pause"]
      BY <1>1 DEF O!Retry
    <2>2. Limited([c EXCEPT !.syncs[s].pc = "pause"])
      BY <1>1, PcLimited
    <2> QED BY <2>1, <2>2
  <1>2. CASE ~(c.syncs[s].attempt < MaxRetries)
    <2>1. O!Retry(c, s) = O!NextAction(c, s, <<Head(c.syncs[s].todo)>>)
      BY <1>2 DEF O!Retry
    <2> QED BY <2>1, NextLimited
  <1> QED BY <1>1, <1>2

\* What a report makes of a tab.
LEMMA TabReportsLimited ==
    ASSUME OfflineInv, Limited(tab)
    PROVE  /\ Limited(O!ReportSuccess(tab)) /\ Limited(O!MarkOnline(tab))
           /\ Limited(O!HeartbeatFailure(tab)) /\ Limited(O!ReportFailure(tab))
           /\ Limited(O!MarkOffline(tab))
           /\ O!ReportSuccess(tab) \in Tab /\ O!ReportFailure(tab) \in Tab
  <1>1. /\ tab \in Tab /\ (tab.offline => O!Running(tab) # 1..Slots)
        /\ tab.failures \in 0..2
    BY OfflineStates DEF Limited
  <1>2. /\ Reports(tab, O!ReportSuccess(tab)) /\ Reports(tab, O!MarkOnline(tab))
        /\ Reports(tab, O!HeartbeatFailure(tab)) /\ Reports(tab, O!ReportFailure(tab))
        /\ Reports(tab, O!MarkOffline(tab))
    <2>1. Reports(tab, O!ReportSuccess(tab)) /\ Reports(tab, O!MarkOnline(tab))
      BY <1>1, SuccessReports, OnlineReports
    <2>2. /\ Reports(tab, O!HeartbeatFailure(tab)) /\ Reports(tab, O!ReportFailure(tab))
          /\ Reports(tab, O!MarkOffline(tab))
      BY <1>1, FailureReports DEF Reports
    <2> QED BY <2>1, <2>2
  <1>3. /\ O!ReportSuccess(tab).failures \in 0..2 /\ O!MarkOnline(tab).failures \in 0..2
        /\ O!HeartbeatFailure(tab).failures \in 0..2 /\ O!ReportFailure(tab).failures \in 0..2
        /\ O!MarkOffline(tab).failures \in 0..2
    BY <1>1, FailuresCounted
  <1>4. O!ReportSuccess(tab) \in Tab /\ O!ReportFailure(tab) \in Tab
    BY <1>2 DEF Reports
  <1> QED BY <1>1, <1>2, <1>3, <1>4, ReportsLimited

\* Changes of a tab that are not about its replays.
LEMMA SameLimited ==
    ASSUME NEW c \in Tab, Limited(c), NEW r, r.failures = c.failures, r.syncs = c.syncs
    PROVE  Limited(r)
  BY DEF Limited

LEMMA AgainLimited ==
    ASSUME OfflineInv, Limited(tab), NEW s \in 1..Slots, tab.syncs[s].pc = "pause"
    PROVE  Limited(Again(tab, s))
  <1> DEFINE y == tab.syncs[s]
             n == y.attempt + 1
             z == [y EXCEPT !.pc = "call", !.attempt = n]
             r == [tab EXCEPT !.syncs[s] = z]
  <1>1. tab \in Tab /\ y \in Replay
    BY OfflineStates, TabFields
  <1>2. n \in 1..MaxRetries
    BY OfflineConstants DEF Limited, AttemptFits
  <1>3. z.attempt = n /\ z.pc = "call"
    <2> HIDE DEF y, n
    <2> QED BY <1>1, ReplayAttempt
  <1> HIDE DEF y, n
  <1>4. AttemptFits(z)
    <2> HIDE DEF z
    <2> QED BY <1>2, <1>3 DEF AttemptFits
  <1>5. Again(tab, s) = r
    BY DEF Again, y, n
  <1> HIDE DEF z
  <1>6. r.failures \in 0..2 /\ r.syncs = [tab.syncs EXCEPT ![s] = z]
    BY <1>1, TabFailures DEF Limited
  <1> HIDE DEF r
  <1>7. Limited(r)
    BY <1>1, <1>4, <1>6, LimitedSet
  <1> QED BY <1>5, <1>7

LEMMA TabLimited ==
    ASSUME OfflineInv, Limited(tab), [O!Next]_(O!vars)
    PROVE  Limited(tab')
  <1>1. tab \in Tab
    BY OfflineStates
  <1>2. CASE tab' = tab
    BY <1>2
  <1>3. ASSUME NEW c, O!Becomes(c), Limited(c) PROVE Limited(tab')
    BY <1>3 DEF O!Becomes
  <1>4. CASE O!HeartbeatEnds \/ O!RequestAnswered \/ O!RequestFailed \/ O!Unplug
             \/ \E n \in {"up", "sick", "down"} : O!Plug(n)
    <2>1. \E c : O!Becomes(c) /\ Limited(c)
      <3>1. \/ O!Becomes(O!ReportSuccess(tab)) \/ O!Becomes(O!HeartbeatFailure(tab))
            \/ O!Becomes(O!ReportFailure(tab)) \/ O!Becomes(O!MarkOffline(tab))
            \/ O!Becomes(O!MarkOnline(tab)) \/ O!Becomes(tab)
        BY <1>4 DEF O!HeartbeatEnds, O!HeartbeatAnswered, O!HeartbeatFailed,
           O!RequestAnswered, O!RequestFailed, O!Unplug, O!Plug
      <3> QED BY <3>1, TabReportsLimited, Zenon
    <2> QED BY <1>3, <2>1
  <1>5. CASE O!Toggle
    <2> DEFINE b == ~tab.forced
               d == ~tab.forced \/ ~plugged
               c == [tab EXCEPT !.forced = b, !.offline = d]
    <2>1. O!Becomes(c)
      BY <1>5 DEF O!Toggle
    <2> HIDE DEF b, d
    <2>2. c.failures = tab.failures
      BY <1>1, TabFailures
    <2>3. c.syncs = tab.syncs
      BY <1>1, TabKept
    <2> HIDE DEF c
    <2> QED BY <1>1, <1>3, <2>1, <2>2, <2>3, SameLimited
  <1>6. ASSUME NEW a \in Actions, O!Post(a) PROVE Limited(tab')
    <2> DEFINE q == Append(tab.queue, a)
               c == [tab EXCEPT !.queue = q]
    <2>1. O!Becomes(c)
      BY <1>6 DEF O!Post
    <2> HIDE DEF q
    <2>2. c.failures = tab.failures
      BY <1>1, TabFailures
    <2>3. c.syncs = tab.syncs
      BY <1>1, TabKept
    <2> HIDE DEF c
    <2> QED BY <1>1, <1>3, <2>1, <2>2, <2>3, SameLimited
  <1>7. ASSUME NEW s \in 1..Slots, O!SyncStep(s) PROVE Limited(tab')
    <2>1. CASE O!SyncReaches(s)
      <3>1. O!Becomes([tab EXCEPT !.syncs[s].pc = "reply"])
        BY <2>1 DEF O!SyncReaches
      <3>2. Limited([tab EXCEPT !.syncs[s].pc = "reply"])
        BY <1>1, PcLimited
      <3> QED BY <1>3, <3>1, <3>2
    <2>2. CASE O!SyncAnswered(s)
      <3>1. O!Becomes(O!NextAction(O!ReportSuccess(tab), s, <<>>))
        BY <2>2 DEF O!SyncAnswered
      <3>2. Limited(O!NextAction(O!ReportSuccess(tab), s, <<>>))
        BY TabReportsLimited, NextLimited
      <3> QED BY <1>3, <3>1, <3>2
    <2>3. CASE O!SyncAnsweredBadly(s)
      <3>1. O!Becomes(O!Retry(O!ReportSuccess(tab), s))
        BY <2>3 DEF O!SyncAnsweredBadly
      <3>2. Limited(O!Retry(O!ReportSuccess(tab), s))
        BY TabReportsLimited, RetryLimited
      <3> QED BY <1>3, <3>1, <3>2
    <2>4. CASE O!SyncLost(s)
      <3>1. tab' = O!Retry(O!ReportFailure(tab), s)
        BY <2>4 DEF O!SyncLost
      <3>2. Limited(O!Retry(O!ReportFailure(tab), s))
        BY TabReportsLimited, RetryLimited
      <3> QED BY <3>1, <3>2
    <2>5. CASE O!SyncTriesAgain(s)
      <3>1. O!Becomes(Again(tab, s)) /\ tab.syncs[s].pc = "pause"
        BY <1>1, <2>5, BecomesAgain DEF O!SyncTriesAgain
      <3>2. Limited(Again(tab, s))
        BY <3>1, AgainLimited
      <3> QED BY <1>3, <3>1, <3>2
    <2> QED BY <1>7, <2>1, <2>2, <2>3, <2>4, <2>5 DEF O!SyncStep
  <1>8. CASE O!Reload
    <2> DEFINE p == IF tab.forced THEN "login" ELSE "app"
               rests == [s \in 1..Slots |-> O!Resting]
               c == [tab EXCEPT !.page = p, !.offline = tab.forced, !.failures = 0,
                                !.syncs = rests]
    <2>1. tab' = c
      BY <1>8 DEF O!Reload
    <2>2. \A s \in 1..Slots : AttemptFits(rests[s])
      BY OfflineConstants DEF O!Resting, AttemptFits
    <2> HIDE DEF p, rests
    <2>3. c.failures = 0
      BY <1>1, TabFailures
    <2>4. c.syncs = rests
      BY <1>1, TabKept
    <2> HIDE DEF c
    <2> QED BY <2>1, <2>2, <2>3, <2>4 DEF Limited
  <1>9. CASE O!Heartbeat \/ UNCHANGED O!vars \/ \E n \in {"up", "sick", "down"} : O!ServerTurns(n)
    <2>1. tab' = tab
      BY <1>9 DEF O!Heartbeat, O!vars, O!ServerTurns
    <2> QED BY <1>2, <2>1
  <1> QED BY <1>4, <1>5, <1>6, <1>7, <1>8, <1>9 DEF O!Next, O!World

LEMMA ActionsDoubted ==
    ASSUME OfflineInv, doubtful \subseteq Actions, [O!Next]_(O!vars)
    PROVE  doubtful' \subseteq Actions
  <1>1. O!ToSet(tab.queue) \subseteq Actions
    BY DEF OfflineInv, Sound, Within
  <1>2. ASSUME NEW s \in 1..Slots, tab.syncs[s].pc \in {"call", "reply"}
        PROVE  Head(tab.syncs[s].todo) \in Actions
    <2>1. tab.syncs[s].todo \in Queue
      BY OfflineStates, TabFields, ReplayFields
    <2>2. tab.syncs[s].todo # <<>>
      BY <1>2 DEF OfflineInv, Sound, TabShape, IsReplay
    <2> QED BY <2>1, <2>2, HeadAndTail
  <1>3. ASSUME NEW c, O!Becomes(c) PROVE doubtful' \subseteq Actions
    BY <1>1, <1>3 DEF O!Becomes
  <1>4. ASSUME NEW s \in 1..Slots, O!SyncLost(s) PROVE doubtful' \subseteq Actions
    BY <1>2, <1>4 DEF O!SyncLost
  <1>5. CASE O!Reload
    BY <1>1, <1>5 DEF O!Reload
  <1>6. ASSUME doubtful' = doubtful PROVE doubtful' \subseteq Actions
    BY <1>6
  <1>7. \/ doubtful' = doubtful \/ \E c : O!Becomes(c)
        \/ O!Reload \/ \E s \in 1..Slots : O!SyncLost(s)
    <2>1. ASSUME O!Heartbeat \/ UNCHANGED O!vars
                 \/ \E n \in {"up", "sick", "down"} : O!ServerTurns(n)
          PROVE  doubtful' = doubtful
      BY <2>1 DEF O!Heartbeat, O!vars, O!ServerTurns, O!history
    <2>2. ASSUME \/ O!HeartbeatEnds \/ O!RequestAnswered \/ O!RequestFailed \/ O!Unplug
                 \/ O!Toggle \/ \E n \in {"up", "sick", "down"} : O!Plug(n)
          PROVE  \E c : O!Becomes(c)
      BY <2>2, Zenon DEF O!HeartbeatEnds, O!HeartbeatAnswered, O!HeartbeatFailed,
         O!RequestAnswered, O!RequestFailed, O!Unplug, O!Plug, O!Toggle
    <2>3. ASSUME NEW a \in Actions, O!Post(a) PROVE \E c : O!Becomes(c)
      BY <2>3, Zenon DEF O!Post
    <2>4. ASSUME NEW s \in 1..Slots,
                 O!SyncReaches(s) \/ O!SyncAnswered(s) \/ O!SyncAnsweredBadly(s)
                 \/ O!SyncTriesAgain(s)
          PROVE  \E c : O!Becomes(c)
      BY <2>4, Zenon DEF O!SyncReaches, O!SyncAnswered, O!SyncAnsweredBadly,
         O!SyncTriesAgain
    <2> QED BY <2>1, <2>2, <2>3, <2>4 DEF O!Next, O!World, O!SyncStep
  <1> QED BY <1>3, <1>4, <1>5, <1>6, <1>7

LEMMA WorldLimited ==
    ASSUME OfflineLimits, [O!Next]_(O!vars)
    PROVE  /\ pings' \in 0..MaxPings /\ loads' \in 0..MaxLoads
           /\ net' \in {"up", "sick", "down"} /\ plugged' \in BOOLEAN /\ late' \subseteq Actions
  <1>1. /\ pings \in 0..MaxPings /\ loads \in 0..MaxLoads
        /\ net \in {"up", "sick", "down"} /\ plugged \in BOOLEAN /\ late \subseteq Actions
    BY DEF OfflineLimits
  <1> DEFINE world == UNCHANGED <<net, plugged>>
             seen == UNCHANGED <<late, loads>>
  <1>2. CASE \/ O!Heartbeat \/ O!HeartbeatEnds \/ O!RequestAnswered \/ O!RequestFailed
             \/ O!Toggle \/ \E s \in 1..Slots : O!SyncStep(s)
    <2> DEFINE pinged == \/ pings' = pings
                         \/ pings < MaxPings /\ pings' = pings + 1
                         \/ pings > 0 /\ pings' = pings - 1
    <2>1. pinged /\ world /\ seen
      <3>1. O!Heartbeat => pinged /\ world /\ seen
        BY DEF O!Heartbeat, O!world, O!history
      <3>2. O!HeartbeatEnds => pinged /\ world /\ seen
        BY DEF O!HeartbeatEnds, O!HeartbeatAnswered, O!HeartbeatFailed, O!Unobserved,
           O!world
      <3>3. ASSUME O!Unobserved, UNCHANGED <<pings, O!world>> PROVE pinged /\ world /\ seen
        BY <3>3 DEF O!Unobserved, O!world
      <3>4. O!RequestAnswered \/ O!RequestFailed => O!Unobserved /\ UNCHANGED <<pings, O!world>>
        BY DEF O!RequestAnswered, O!RequestFailed
      <3>5. O!Toggle => O!Unobserved /\ UNCHANGED <<pings, O!world>>
        <4>1. O!Toggle => O!Unobserved /\ UNCHANGED <<pings, O!world, executed>>
          BY Zenon DEF O!Toggle
        <4> QED BY <4>1
      <3>6. ASSUME NEW s \in 1..Slots, O!SyncStep(s)
            PROVE  O!Unobserved /\ UNCHANGED <<pings, O!world>>
        <4>1. O!SyncReaches(s) => O!Unobserved /\ UNCHANGED <<pings, O!world>>
          BY Zenon DEF O!SyncReaches
        <4>2. O!SyncAnswered(s) \/ O!SyncAnsweredBadly(s) \/ O!SyncLost(s)
              => O!Unobserved /\ UNCHANGED <<pings, O!world>>
          BY DEF O!SyncAnswered, O!SyncAnsweredBadly, O!SyncLost
        <4>3. O!SyncTriesAgain(s) => O!Unobserved /\ UNCHANGED <<pings, O!world>>
          <5>1. O!SyncTriesAgain(s) => O!Unobserved /\ UNCHANGED <<pings, O!world, executed>>
            BY Zenon DEF O!SyncTriesAgain
          <5> QED BY <5>1
        <4> QED BY <3>6, <4>1, <4>2, <4>3 DEF O!SyncStep
      <3> QED BY <1>2, <3>1, <3>2, <3>3, <3>4, <3>5, <3>6
    <2>2. pings' \in 0..MaxPings
      BY <1>1, <2>1, OfflineConstants
    <2> QED BY <1>1, <2>1, <2>2
  <1>3. ASSUME NEW a \in Actions, O!Post(a)
        PROVE  world /\ UNCHANGED <<pings, loads>> /\ late' \subseteq Actions
    BY <1>1, <1>3 DEF O!Post, O!world
  <1>4. ASSUME \/ O!Unplug
               \/ \E n \in {"up", "sick", "down"} : O!Plug(n) \/ O!ServerTurns(n)
        PROVE  seen /\ pings' = pings /\ net' \in {"up", "sick", "down"}
               /\ plugged' \in BOOLEAN
    <2>1. seen /\ pings' = pings /\ net' \in {"up", "sick", "down"}
      BY <1>4 DEF O!Unplug, O!Plug, O!ServerTurns, O!Unobserved, O!history
    <2>2. plugged' \in BOOLEAN
      BY <1>1, <1>4, Zenon DEF O!Unplug, O!Plug, O!ServerTurns
    <2> QED BY <2>1, <2>2
  <1>5. CASE O!Reload
    <2>1. world /\ late' = late /\ pings' = 0 /\ loads < MaxLoads /\ loads' = loads + 1
      BY <1>5 DEF O!Reload, O!world
    <2>2. pings' \in 0..MaxPings /\ loads' \in 0..MaxLoads
      BY <1>1, <2>1, OfflineConstants
    <2> QED BY <1>1, <2>1, <2>2
  <1>6. CASE UNCHANGED O!vars
    BY <1>1, <1>6 DEF O!vars, O!world, O!history
  <1> QED BY <1>1, <1>2, <1>3, <1>4, <1>5, <1>6 DEF O!Next, O!World

LEMMA LimitsNext ==
    ASSUME OfflineInv, OfflineLimits, [O!Next]_(O!vars)
    PROVE  OfflineLimits'
  <1>1. Limited(tab')
    BY TabLimited DEF OfflineLimits
  <1>2. doubtful' \subseteq Actions
    BY ActionsDoubted DEF OfflineLimits
  <1> QED BY <1>1, <1>2, WorldLimited DEF OfflineLimits, Limited

LEMMA LimitsInit == ASSUME O!Init PROVE OfflineLimits
  <1> DEFINE rests == [s \in 1..Slots |-> O!Resting]
  <1>1. /\ tab = [page |-> "app", offline |-> FALSE, forced |-> FALSE, failures |-> 0,
                  queue |-> <<>>, syncs |-> rests]
        /\ pings = 0 /\ net = "up" /\ late = {} /\ doubtful = {} /\ loads = 0
    BY DEF O!Init
  <1>2. \A s \in 1..Slots : AttemptFits(rests[s])
    BY OfflineConstants DEF O!Resting, AttemptFits
  <1> HIDE DEF rests
  <1>3. tab.failures = 0 /\ tab.syncs = rests
    BY <1>1
  <1>4. Limited(tab)
    BY <1>2, <1>3 DEF Limited
  <1>5. plugged \in BOOLEAN
    BY Zenon DEF O!Init
  <1>6. pings \in 0..MaxPings /\ loads \in 0..MaxLoads
    BY <1>1, OfflineConstants
  <1> QED BY <1>1, <1>4, <1>5, <1>6 DEF OfflineLimits

OfflineTypePart == script = "offline" => OfflineInv /\ OfflineLimits

\* The variables of OfflineQueue have their types.
LEMMA OfflineTypesHold == BrowserSpec => [](script = "offline" => O!TypeOK)
  <1>1. BrowserInit => OfflineTypePart
    BY OfflineInit, LimitsInit DEF BrowserInit, OfflineTypePart
  <1>2. OfflineTypePart /\ [BrowserNext]_browserVars => OfflineTypePart'
    BY Steps, OfflineNext, LimitsNext DEF OfflineTypePart
  <1>3. OfflineTypePart => (script = "offline" => O!TypeOK)
    <2> SUFFICES ASSUME OfflineInv, OfflineLimits PROVE O!TypeOK
      BY DEF OfflineTypePart
    <2>1. tab \in Tab /\ executed \in [Actions -> 0..2] /\ posted \subseteq Actions
      BY OfflineStates DEF OfflineInv
    <2>2. /\ tab.page \in {"app", "login"} /\ tab.offline \in BOOLEAN
          /\ tab.forced \in BOOLEAN /\ tab.queue \in Seq(Actions)
      BY <2>1, TabFields DEF Queue
    <2>3. ASSUME NEW s \in 1..Slots
          PROVE  /\ tab.syncs[s].todo \in Seq(Actions)
                 /\ tab.syncs[s].failed \in Seq(Actions)
                 /\ tab.syncs[s].attempt \in 1..MaxRetries
                 /\ tab.syncs[s].pc \in {"idle", "call", "reply", "pause"}
                 /\ (tab.syncs[s].pc = "idle") = (tab.syncs[s].todo = <<>>)
      <3>1. tab.syncs[s] \in Replay
        BY <2>1, TabFields
      <3>2. /\ tab.syncs[s].todo \in Seq(Actions) /\ tab.syncs[s].failed \in Seq(Actions)
            /\ tab.syncs[s].pc \in {"idle", "call", "reply", "pause"}
        BY <3>1, ReplayFields DEF Queue
      <3>3. tab.syncs[s].attempt \in 1..MaxRetries
        BY DEF OfflineLimits, Limited, AttemptFits
      <3>4. tab.syncs[s].pc = "idle" <=> tab.syncs[s].todo = <<>>
        <4>1. IsReplay(tab.syncs[s])
          BY DEF OfflineInv, Sound, TabShape
        <4>2. O!Resting.todo = <<>>
          BY DEF O!Resting
        <4> QED BY <4>1, <4>2, Zenon DEF IsReplay
      <3> QED BY <3>2, <3>3, <3>4
    <2>4. tab.failures \in 0..O!HEARTBEAT_FAILURE_THRESHOLD
      BY OfflineConstants DEF OfflineLimits, Limited
    <2>5. /\ pings \in 0..MaxPings /\ net \in {"up", "sick", "down"} /\ plugged \in BOOLEAN
          /\ loads \in 0..MaxLoads /\ posted \cup late \cup doubtful \subseteq Actions
      BY <2>1 DEF OfflineLimits
    <2> QED BY <2>1, <2>2, <2>3, <2>4, <2>5, Zenon DEF O!TypeOK
  <1> QED BY <1>1, <1>2, <1>3, PTL DEF BrowserSpec

\* The variables of every part of the page have their types: what is drawn, the counts of
\* failures and attempts of the queue, requests and answers of the editing locks.
THEOREM BrowserTypesHold == BrowserSpec => []BrowserTypeOK
  <1>1. LayoutPart => (script = "timeline" => T!TypeOK)
    BY LayoutFits DEF LayoutPart
  <1>2. /\ script = "timeline" => T!TypeOK
        /\ script = "offline" => O!TypeOK
        /\ script = "editing" => E!TypeOK
        => BrowserTypeOK
    BY DEF BrowserTypeOK
  <1> QED BY <1>1, <1>2, LayoutPartAlways, OfflineTypesHold, EditingTypesHold, PTL
=============================================================================
