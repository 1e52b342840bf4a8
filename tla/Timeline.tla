------------------------------ MODULE Timeline ------------------------------
(***************************************************************************)
(* The timeline of the main page (static/timeline.js): the grid, the event   *)
(* blocks on it, and the two ways of drawing them.  renderTimeline builds the *)
(* grid and all blocks anew; patchTimeline keeps a block whose fingerprint is *)
(* that of its event and only moves it.  Both leave the blocks to an          *)
(* animation frame, which works on the data of its own moment.                *)
(*                                                                           *)
(* Time is counted in slots, DayLength of them to a day.  Left out: filters   *)
(* and hidden layers (an event that is filtered is as good as absent), the    *)
(* hours of the day that are shown, phases and lock overlays (drawn anew by   *)
(* every frame), heights in pixels, and dragging.                             *)
(***************************************************************************)
EXTENDS Integers, Sequences, FiniteSets, FiniteSetsExt, SequencesExt

CONSTANTS Events,      \* identifiers, in the order of state.events
          Shapes,      \* when an event is: [from, to, step, until, except]
          Texts,       \* what the fingerprint covers besides: title, status...
          Tints,       \* what it does not: colours of layers and event types
          Windows,     \* first days of the ranges one navigates to
          Days,        \* days of a range
          DayLength,   \* slots of a day
          MaxSteps,    \* steps a recurrence is followed for (500 in the code)
          MaxFrames,   \* bound: frames that wait
          MaxEdits     \* bound: changes of the data

TimelineAssumption ==
    /\ IsFiniteSet(Events) /\ Events \subseteq Nat
    /\ \A s \in Shapes : /\ s.from \in Nat /\ s.to \in Nat /\ s.from < s.to
                         /\ s.step \in Nat /\ s.until \in Nat /\ s.except \subseteq Nat
    /\ Windows \subseteq Nat /\ Days \in Nat \ {0} /\ DayLength \in Nat \ {0}
    /\ MaxSteps \in Nat /\ MaxFrames \in Nat \ {0} /\ MaxEdits \in Nat

VARIABLES events,   \* state.events
          tint,     \* the colours in force
          window,   \* state.startDate
          grid,     \* _lastGridIdentity and _lastRenderDays
          blocks,   \* the blocks on the page; the tracked ones are those of
                    \* _renderedBlockMap
          frames,   \* animation frames that wait, each with the days it was
                    \* asked for and whether it is incremental
          edits,    \* changes so far
          due,      \* history: something changed and no drawing was asked for
          faded     \* history: the colours changed since the last full drawing

vars == <<events, tint, window, grid, blocks, frames, edits, due, faded>>

(***************************************************************************)
(* What is to be drawn.                                                      *)
(***************************************************************************)
\* The event itself and its repetitions: those that begin in the range, not
\* after the end of the recurrence and are not excluded.  The event itself is
\* drawn whether it is excluded or not.
Occurrences(e, first) ==
    LET s == events[e].shape
    IN  {0} \cup {n \in 1..MaxSteps : /\ s.step # 0
                                      /\ s.from + n * s.step \notin s.except
                                      /\ s.from + n * s.step <= s.until
                                      /\ s.from + n * s.step >= first * DayLength
                                      /\ s.from + n * s.step < (first + Days) * DayLength}

\* The part of an occurrence that falls on the d-th day, in slots of that day.
Item(e, n, first, d) ==
    LET s == events[e].shape
        dawn == (first + d) * DayLength
    IN  [event |-> e, nth |-> n,
         from |-> Max({s.from + n * s.step - dawn, 0}),
         to |-> Min({s.to + n * s.step - dawn, DayLength})]

\* i stands before j.  The sort is stable: the data's order decides the rest.
Before(i, j) == \/ i.from < j.from
                \/ (i.from = j.from /\ i.event < j.event)
                \/ (i.from = j.from /\ i.event = j.event /\ i.nth < j.nth)

\* The items of a day: what lies within it of each occurrence.
DayItems(first, d) ==
    {i \in UNION {{Item(e, n, first, d) : n \in Occurrences(e, first)} : e \in DOMAIN events} :
        i.from < i.to}

\* Items sorted by where they begin.
Sorted(all) ==
    LET Nth(k) == CHOOSE i \in all : Cardinality({j \in all : Before(j, i)}) = k - 1
    IN  [k \in 1..Cardinality(all) |-> Nth(k)]

Items(first, d) == Sorted(DayItems(first, d))

\* Mutant: a column is taken although its last item has not ended.
FreeColumnsEarly(ends, item) == {c \in DOMAIN ends : ends[c] <= item.from + 1}

FreeColumns(ends, item) == {c \in DOMAIN ends : ends[c] <= item.from}

\* The next item takes the first column that is free, or opens one.
Seated(seats, item) ==
    LET free == FreeColumns(seats.ends, item)
        c == IF free = {} THEN Len(seats.ends) + 1 ELSE Min(free)
    IN  [ends |-> IF free = {} THEN Append(seats.ends, item.to)
                               ELSE [seats.ends EXCEPT ![c] = item.to],
         cols |-> Append(seats.cols, c)]

\* The columns the items get, one after the other.
Columns(items) ==
    LET upTo[n \in 0..Len(items)] ==
            IF n = 0 THEN [ends |-> <<>>, cols |-> <<>>]
            ELSE Seated(upTo[n - 1], items[n])
    IN  upTo[Len(items)].cols

Overlap(i, j) == i.from < j.to /\ j.from < i.to

\* The places of the items of the d-th day: the column and among how many.
Places(items, d) ==
    LET cols == Columns(items)
        among(k) == Max({cols[j] : j \in {l \in DOMAIN items : l = k \/ Overlap(items[l], items[k])}})
    IN  {[key |-> <<items[k].event, items[k].nth, d>>, from |-> items[k].from,
          to |-> items[k].to, col |-> cols[k], among |-> among(k)] : k \in DOMAIN items}

Desired(first) == UNION {Places(Items(first, d), d) : d \in 0..(Days - 1)}

\* Mutant: the fingerprint leaves the text out.
FingerprintOfShape(e) == events[e].shape

Fingerprint(e) == events[e]

Block(p) == [place |-> p, event |-> events[p.key[1]], print |-> Fingerprint(p.key[1]),
             tint |-> tint, tracked |-> TRUE]

Event == [shape : Shapes, text : Texts]

\* The page has just been loaded: all texts and colours are their first ones.
Init == /\ events \in UNION {[S -> {x \in Event : x.text = CHOOSE y \in Texts : TRUE}] :
                               S \in SUBSET Events}
        /\ tint = CHOOSE c \in Tints : TRUE
        /\ window \in Windows
        /\ grid = window
        /\ blocks = {}
        /\ frames = <<[days |-> window, patch |-> FALSE]>>
        /\ edits = 0 /\ due = FALSE /\ faded = FALSE

(***************************************************************************)
(* The data and the range.                                                   *)
(***************************************************************************)
Edit == edits < MaxEdits /\ edits' = edits + 1 /\ due' = TRUE
        /\ UNCHANGED <<grid, blocks, frames>>

\* What a refresh brings, or the user's own saving.
Change == \E e \in Events :
             /\ Edit
             /\ \/ \E x \in Event :
                      /\ e \in DOMAIN events => events[e] # x
                      /\ events' = [f \in DOMAIN events \cup {e} |-> IF f = e THEN x ELSE events[f]]
                \/ /\ e \in DOMAIN events
                   /\ events' = [f \in DOMAIN events \ {e} |-> events[f]]
             /\ UNCHANGED <<tint, window, faded>>

Recolour == \E c \in Tints \ {tint} : /\ Edit
                                      /\ tint' = c
                                      /\ faded' = TRUE
                                      /\ UNCHANGED <<events, window>>

\* navigate, goToDate and the like; the drawing comes with the refresh.
Navigate == \E w \in Windows \ {window} : /\ Edit
                                          /\ window' = w
                                          /\ UNCHANGED <<events, tint, faded>>

(***************************************************************************)
(* Drawing.                                                                  *)
(***************************************************************************)
\* renderTimeline: the new grid leaves no block on the page.
FullDrawing == /\ Len(frames) < MaxFrames
               /\ grid' = window
               /\ blocks' = {}
               /\ frames' = Append(frames, [days |-> window, patch |-> FALSE])
               /\ due' = FALSE /\ faded' = FALSE

Render == /\ FullDrawing
          /\ UNCHANGED <<events, tint, window, edits>>

\* Mutant: the grid that is there is always taken for the right one.
SameGridAlways == TRUE

SameGrid == grid = window

\* patchTimeline.
Patch == /\ \/ /\ ~SameGrid
               /\ FullDrawing
            \/ /\ SameGrid
               /\ Len(frames) < MaxFrames
               /\ frames' = Append(frames, [days |-> grid, patch |-> TRUE])
               /\ due' = FALSE
               /\ UNCHANGED <<grid, blocks, faded>>
         /\ UNCHANGED <<events, tint, window, edits>>

\* The tracked block with the key of a place, as a set.
Found(p) == {b \in blocks : b.tracked /\ b.place.key = p.key}

Reusable(p) == {b \in Found(p) : b.print = Fingerprint(p.key[1])}

\* Mutant: blocks of changed events are not removed.
PatchedBeside(desired) ==
    {b \in blocks : b.place.key[1] \in DOMAIN events /\ b.print # Fingerprint(b.place.key[1])}
      \cup {[x[1] EXCEPT !.place = x[2]] :
               x \in {y \in blocks \X desired : y[1] \in Reusable(y[2])}}
      \cup {Block(p) : p \in {q \in desired : Reusable(q) = {}}}

\* An incremental frame: blocks that stay are moved, those of changed events are
\* replaced, those no event asks for any more are removed.
Patched(desired) ==
    {b \in blocks : ~b.tracked}
      \cup {[x[1] EXCEPT !.place = x[2]] :
               x \in {y \in blocks \X desired : y[1] \in Reusable(y[2])}}
      \cup {Block(p) : p \in {q \in desired : Reusable(q) = {}}}

\* _renderEventBlocksInner, when its turn comes.
Frame == /\ frames # <<>>
         /\ LET desired == Desired(Head(frames).days)
            IN  blocks' = IF Head(frames).patch THEN Patched(desired)
                          ELSE {Block(p) : p \in desired}
         /\ frames' = Tail(frames)
         /\ UNCHANGED <<events, tint, window, grid, edits, due, faded>>

Next == Change \/ Recolour \/ Navigate \/ Render \/ Patch \/ Frame

Spec == Init /\ [][Next]_vars

(***************************************************************************)
(* Properties.                                                               *)
(***************************************************************************)
\* Every block is tracked, one for each key, and lies within its day and the
\* columns it is placed among.
TypeOK == /\ \A b \in blocks : /\ b.tracked
                               /\ 0 <= b.place.from /\ b.place.from < b.place.to
                               /\ b.place.to <= DayLength
                               /\ b.place.col \in 1..b.place.among
          /\ \A b, c \in blocks : b.place.key = c.place.key => b = c
          /\ Len(frames) <= MaxFrames

\* However drawings, refreshes and navigation interleave: once nothing is due,
\* what the page shows is what drawing everything afresh would show, and blocks
\* kept from earlier drawings have the right text and place; their colours may
\* be old only if no full drawing came after the colours changed.
ShowsTheData ==
    (frames = <<>> /\ ~due)
    => /\ {b.place : b \in blocks} = Desired(window)
       /\ \A b \in blocks : b.event = events[b.place.key[1]]
       /\ ~faded => \A b \in blocks : b.tint = tint

SameDay(b, c) == b.place.key[3] = c.place.key[3]

\* Items of a day that overlap never get the same column.
NoSharedColumn ==
    \A b, c \in blocks : (b # c /\ SameDay(b, c) /\ Overlap(b.place, c.place))
                         => b.place.col # c.place.col

\* No column is opened without need: where a block begins, every column to its
\* left is occupied.
ColumnsAreNeeded ==
    \A b \in blocks : \A k \in 1..(b.place.col - 1) :
       \E c \in blocks : /\ SameDay(b, c) /\ c.place.col = k
                         /\ c.place.from <= b.place.from /\ b.place.from < c.place.to
=============================================================================
