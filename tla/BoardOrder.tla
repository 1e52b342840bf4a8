----------------------------- MODULE BoardOrder -----------------------------
(***************************************************************************)
(* The order of the cards on a kanban board: MoveBoardItem and its            *)
(* neighbours of store_boards.go, the handlers of handlers_boards.go that     *)
(* read a card and write the whole record back, and the browser tab of        *)
(* static/boards.js, which renumbers its own copy after a drop.               *)
(*                                                                           *)
(* The tab does one thing at a time: it waits for the answer to its request   *)
(* before the next.  The server says board_change after every step below;     *)
(* sse.js registers no listener for that event, so the 'sse:board_change'     *)
(* that boards.js waits for never comes, and the tab sees what others do only *)
(* when it asks for the cards itself.                                         *)
(*                                                                           *)
(* Left out: deleting cards and boards, collapsed columns, the two other      *)
(* sort modes (by priority, by due date), and whatever a card has besides     *)
(* its place and the archive.                                                 *)
(***************************************************************************)
EXTENDS Naturals, Sequences, FiniteSets, FiniteSetsExt, SequencesExt

CONSTANTS Cards,        \* the identifiers 1..n, given out in order
          Columns,      \* columns of the board
          Present,      \* cards the board starts with, in one column
          MaxChanges    \* bound: requests that change the cards

BoardOrderAssumption == /\ IsFiniteSet(Cards) /\ Cards = 1..Cardinality(Cards)
                        /\ IsFiniteSet(Columns) /\ Columns # {}
                        /\ Present \in 0..Cardinality(Cards)
                        /\ MaxChanges \in Nat

VARIABLES cards,      \* the server's cards, by identifier
          view,       \* the tab's copy of the cards of the board it shows
          request,    \* what the tab waits for
          handlers,   \* handlers that have read a card and not yet written it
          changes,    \* requests so far
          foreign,    \* history: the copy may differ for a reason known below
          loose       \* history: two cards of a column may have got one order

vars == <<cards, view, request, handlers, changes, foreign, loose>>

Idle == [kind |-> "none"]

LastPlace == 9999  \* of a card that comes from another board

OnBoard(s, b) == {i \in DOMAIN s : s[i].board = b}

InColumn(s, b, c) == {i \in OnBoard(s, b) : s[i].col = c}

\* ids one by one, i ahead of j if <<i, j>> is in before.
Listed(ids, before) ==
    [n \in 1..Cardinality(ids) |->
        CHOOSE i \in ids : Cardinality({j \in ids : <<j, i>> \in before}) = n - 1]

\* Arrays keep the order of the identifiers, and the browser's sort is stable.
InArray(ids) == Listed(ids, {p \in ids \X ids : p[1] < p[2]})

ByOrder(s, ids) ==
    Listed(ids, {p \in ids \X ids : \/ s[p[1]].order < s[p[2]].order
                                    \/ s[p[1]].order = s[p[2]].order /\ p[1] < p[2]})

\* The cards a column shows: _sortColItems of those not archived.
Shown(s, c) == ByOrder(s, {i \in InColumn(s, "ours", c) : ~s[i].archived})

Dense(s, c) == LET ids == InColumn(s, "ours", c)
               IN  /\ {s[i].order : i \in ids} = 0..(Cardinality(ids) - 1)
                   /\ \A i \in ids : ~s[i].archived

Init == LET first == CHOOSE c \in Columns : TRUE
            start == [i \in 1..Present |-> [board |-> "ours", col |-> first,
                                            order |-> i - 1, archived |-> FALSE]]
        IN  /\ cards = start /\ view = start
            /\ request = Idle /\ handlers = {} /\ changes = 0
            /\ foreign = FALSE /\ loose = FALSE

(***************************************************************************)
(* The server.                                                               *)
(***************************************************************************)
\* Mutant: on equal orders the card that is moved stays where it is.
OutOfOrderStays(s, moved, i, j) == s[i].order > s[j].order

\* i stands before j in MoveBoardItem's list and the two are to be swapped.
OutOfOrder(s, moved, i, j) ==
    \/ s[i].order > s[j].order
    \/ (s[i].order = s[j].order /\ i # moved /\ j = moved)

Swapped(list, i, j) == [list EXCEPT ![i] = list[j], ![j] = list[i]]

\* The inner loop of MoveBoardItem: place i gets what is to stand there, of all from i on.
Settled(s, moved, list, i) ==
    LET upTo[j \in i..Len(list)] ==
            IF j = i THEN list
            ELSE IF OutOfOrder(s, moved, upTo[j - 1][i], upTo[j - 1][j])
                 THEN Swapped(upTo[j - 1], i, j) ELSE upTo[j - 1]
    IN  upTo[Len(list)]

\* The two loops: for every place the later ones in turn.
Sorted(s, moved, list) ==
    LET upTo[i \in 0..Len(list)] ==
            IF i = 0 THEN list ELSE Settled(s, moved, upTo[i - 1], i)
    IN  upTo[Len(list)]

Renumbered(s, list) ==
    [i \in DOMAIN s |-> IF i \in Range(list)
                        THEN [s[i] EXCEPT !.order = (CHOOSE n \in 1..Len(list) : list[n] = i) - 1]
                        ELSE s[i]]

\* MoveBoardItem.
Moved(s, i, c, k) ==
    LET t == [s EXCEPT ![i].col = c, ![i].order = k]
        list == InArray(InColumn(t, s[i].board, c))
    IN  Renumbered(t, Sorted(t, i, list))

\* Two cards of one column of a board with one order.
Ties(s) == \E i, j \in DOMAIN s : /\ i # j /\ s[i].board = s[j].board
                                  /\ s[i].col = s[j].col /\ s[i].order = s[j].order

\* A move while a handler holds a copy of a card it touches: the copy will put
\* the old place back.
Overtakes(s, t) == \E h \in handlers : s[h.card] # t[h.card]

Count == changes < MaxChanges /\ changes' = changes + 1

\* Another user moves a card; where to, that user's own tab worked out.
OthersMove == \E i \in OnBoard(cards, "ours"), c \in Columns, k \in 0..Cardinality(Cards) :
                 /\ Count
                 /\ cards' = Moved(cards, i, c, k)
                 /\ foreign' = TRUE
                 /\ loose' = (loose \/ Overtakes(cards, cards'))
                 /\ UNCHANGED <<view, request, handlers>>

\* MoveBoardItemToBoard, to this board or away from it.
MoveToBoard == \E i \in DOMAIN cards, b \in {"ours", "other"}, c \in Columns :
                 /\ Count
                 /\ cards[i].board # b
                 /\ cards' = [cards EXCEPT ![i] = [@ EXCEPT !.board = b, !.col = c,
                                                            !.order = LastPlace]]
                 /\ foreign' = TRUE
                 /\ loose' = (loose \/ Overtakes(cards, cards') \/ Ties(cards'))
                 /\ UNCHANGED <<view, request, handlers>>

\* GetBoardItemByID at the start of an update, accept, archive or unarchive;
\* of what these set only the archive matters here.
HandlerReads == \E i \in OnBoard(cards, "ours"), a \in BOOLEAN :
                 /\ Count
                 /\ handlers = {}
                 /\ handlers' = {[card |-> i, copy |-> [cards[i] EXCEPT !.archived = a]]}
                 /\ UNCHANGED <<cards, view, request, foreign, loose>>

\* UpdateBoardItem with the record read before.
HandlerWrites == \E h \in handlers :
                 /\ cards' = [cards EXCEPT ![h.card] = h.copy]
                 /\ handlers' = handlers \ {h}
                 /\ foreign' = TRUE
                 /\ UNCHANGED <<view, request, changes, loose>>

(***************************************************************************)
(* The tab.                                                                  *)
(***************************************************************************)
\* _kanbanDrop up to its request.  The card is dropped above the n-th card the
\* column shows, or below all of them; archived cards count for the latter.
\* (The request does not carry above: it is there for DropsLand.)
Drop == \E i \in DOMAIN view, c \in Columns :
           \E n \in 1..(Len(Shown(view, c)) + 1) :
              /\ Count
              /\ request = Idle
              /\ ~view[i].archived
              /\ LET index == IF n <= Len(Shown(view, c)) THEN n - 1
                              ELSE Cardinality(InColumn(view, "ours", c))
                     above == IF n <= Len(Shown(view, c)) THEN Shown(view, c)[n] ELSE 0
                     down == view[i].col = c /\ view[i].order < index
                 IN  /\ request' = [kind |-> "drop", card |-> i, col |-> c, index |-> index,
                                    above |-> above]
                     /\ foreign' = (foreign \/ down \/ ~Dense(view, c))
              /\ UNCHANGED <<cards, view, handlers, loose>>

\* handleMoveBoardItem for that request.
DropReceived == /\ request.kind = "drop"
                /\ cards' = Moved(cards, request.card, request.col, request.index)
                /\ request' = [request EXCEPT !.kind = "dropped"]
                /\ loose' = (loose \/ Overtakes(cards, cards'))
                /\ UNCHANGED <<view, handlers, changes, foreign>>

\* Mutant: the card goes one place further.
RearrangedAfter(v, i, c, index) ==
    LET rest == ByOrder(v, InColumn(v, "ours", c) \ {i})
        list == InsertAt(rest, Min({index + 1, Len(rest)}) + 1, i)
    IN  Renumbered([v EXCEPT ![i].col = c], list)

\* The rest of _kanbanDrop: the tab renumbers its own copy of the column.
Rearranged(v, i, c, index) ==
    LET rest == ByOrder(v, InColumn(v, "ours", c) \ {i})
        list == InsertAt(rest, Min({index, Len(rest)}) + 1, i)
    IN  Renumbered([v EXCEPT ![i].col = c], list)

DropAnswered == /\ request.kind = "dropped"
                /\ view' = Rearranged(view, request.card, request.col, request.index)
                /\ request' = Idle
                /\ UNCHANGED <<cards, handlers, changes, foreign, loose>>

\* _addItemToCol: the order after the last one the tab knows of.
Add == \E c \in Columns :
          /\ Count
          /\ request = Idle
          /\ LET orders == {view[i].order : i \in InColumn(view, "ours", c)}
             IN  request' = [kind |-> "add", col |-> c,
                             index |-> IF orders = {} THEN 0 ELSE Max(orders) + 1]
          /\ UNCHANGED <<cards, view, handlers, foreign, loose>>

NewCard == [board |-> "ours", col |-> request.col, order |-> request.index,
            archived |-> FALSE]

\* CreateBoardItem; with the copy out of date the order may be taken.
AddReceived == /\ request.kind = "add"
               /\ Cardinality(DOMAIN cards) < Cardinality(Cards)
               /\ LET i == Cardinality(DOMAIN cards) + 1
                  IN  /\ cards' = [j \in DOMAIN cards \cup {i} |->
                                      IF j = i THEN NewCard ELSE cards[j]]
                      /\ request' = [kind |-> "added", card |-> i, item |-> cards'[i]]
               /\ loose' = (loose \/ (foreign /\ Ties(cards')))
               /\ UNCHANGED <<view, handlers, changes, foreign>>

\* The bound on the identifiers is met: the request fails.
AddRefused == /\ request.kind = "add"
              /\ Cardinality(DOMAIN cards) = Cardinality(Cards)
              /\ request' = Idle
              /\ UNCHANGED <<cards, view, handlers, changes, foreign, loose>>

AddAnswered == /\ request.kind = "added"
               /\ view' = [j \in DOMAIN view \cup {request.card} |->
                              IF j = request.card THEN request.item ELSE view[j]]
               /\ request' = Idle
               /\ UNCHANGED <<cards, handlers, changes, foreign, loose>>

\* GET /boards/{id}/items.
Fetched == [i \in OnBoard(cards, "ours") |-> cards[i]]

\* _openBoard, or the fetch that ends most of the item actions of the tab.
Open == /\ request = Idle
        /\ view' = Fetched
        /\ foreign' = FALSE
        /\ UNCHANGED <<cards, request, handlers, changes, loose>>

Server == OthersMove \/ MoveToBoard \/ HandlerReads \/ HandlerWrites
Answers == DropReceived \/ DropAnswered \/ AddReceived \/ AddRefused \/ AddAnswered
Tab == Drop \/ Add \/ Open

Next == Server \/ Answers \/ Tab

Spec == Init /\ [][Next]_vars

(***************************************************************************)
(* Properties.                                                               *)
(***************************************************************************)
Card == [board : {"ours", "other"}, col : Columns,
         order : 0..(LastPlace + Cardinality(Cards)), archived : BOOLEAN]

\* The cards are numbered without gaps, the tab shows cards of its own board
\* that exist, and a handler holds a record of a card.
TypeOK == /\ DOMAIN cards = 1..Cardinality(DOMAIN cards)
          /\ cards \in [DOMAIN cards -> Card]
          /\ DOMAIN view \subseteq DOMAIN cards
          /\ \A i \in DOMAIN view : view[i] \in Card /\ view[i].board = "ours"
          /\ \A h \in handlers : h.card \in DOMAIN cards /\ h.copy \in Card

\* MoveBoardItem renumbers one column.  Whatever order the tab asks for, out of
\* date or not, and whatever ties there are, two other cards of that column whose
\* orders differ stay in their order, and no card elsewhere changes its place.
OthersStay ==
    LET others == DOMAIN cards \ {request.card}
        column == InColumn(cards, cards[request.card].board, request.col)
    IN  /\ \A j \in others \ column : cards'[j] = cards[j]
        /\ \A j, k \in others \cap column :
              cards[j].order < cards[k].order => cards'[j].order < cards'[k].order

OthersKeepTheirOrder ==
    [][request.kind = "drop" /\ request'.kind = "dropped" => OthersStay]_vars

\* A card dropped above another comes to stand right above it, and one dropped
\* below all others becomes the last, if the tab's copy of the board is exact and
\* the numbers of the column have no gap.  (With a gap, which every move out of a
\* column leaves, a card dropped at the end lands before the last one.)
LandsThere ==
    LET after == Shown(cards', request.col)
        place == CHOOSE n \in DOMAIN after : after[n] = request.card
    IN  \/ request.above = request.card
        \/ request.above = 0 /\ place = Len(after)
        \/ request.above # 0 /\ place < Len(after) /\ after[place + 1] = request.above

DropsLand ==
    [][(request.kind = "drop" /\ request'.kind = "dropped"
          /\ view = Fetched /\ Dense(view, request.col)) => LandsThere]_vars

\* Two cards of one column have the same order only after a lost race: a handler
\* wrote back a copy from before a move, a tab added a card from an old copy of
\* the column, or two cards came to the end of it from another board.
OrdersDiffer == ~loose => ~Ties(cards)

\* After a drop the tab shows the server's order at once, without asking for it,
\* provided nobody else touched the board, the card was not moved down its own
\* column and the column had neither a gap in its numbers nor archived cards.
DropsAgree == (request = Idle /\ ~foreign) => \A c \in Columns : Shown(view, c) = Shown(cards, c)
=============================================================================
