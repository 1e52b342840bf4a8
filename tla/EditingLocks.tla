---------------------------- MODULE EditingLocks ----------------------------
(***************************************************************************)
(* The editing lock of one event (store_sessions.go, handlers_misc.go): the    *)
(* form that edits the event asks for it when it opens and gives it back when  *)
(* it closes or saves (modal-event.js, collaborative-editing.js), and every    *)
(* change is broadcast to the pages of all users.                             *)
(*                                                                           *)
(* A page does not wait for the answers to its lock requests, so those of one  *)
(* page may be served in any order; a handler changes the lock under the       *)
(* store's mutex and broadcasts afterwards.  The lock is advisory: saving does *)
(* not need it.  Left out: what is edited, other events, and two pages of one  *)
(* user.                                                                     *)
(***************************************************************************)
EXTENDS Naturals, Sequences, SequencesExt

CONSTANTS Users,    \* each has one page open
          Nobody,
          MaxActs   \* bound: forms opened and saved, pages left, broadcasts lost and
                    \* locks run out, all users together

EditingLocksAssumption == Nobody \notin Users /\ MaxActs \in Nat

VARIABLES lock,       \* who holds the lock, in the server
          pending,    \* broadcasts that handlers are about to make
          requests,   \* what a page has sent, not yet served
          news,       \* broadcasts under way to a page
          known,      \* _editingLocks: who edits the event, as a page knows it
          open,       \* is the form open
          saved,      \* answers to saves under way to a page
          acts,       \* forms opened and saved, faults so far
          disturbed,  \* history: something got in the way of the broadcasts
          unruly      \* history: users that left without closing the form, or whose
                      \* requests overtook one another

history == <<disturbed, unruly>>
vars == <<lock, pending, requests, news, known, open, acts, saved, history>>

Init == /\ lock = Nobody /\ pending = <<>>
        /\ requests = [u \in Users |-> <<>>] /\ news = [u \in Users |-> <<>>]
        /\ known = [u \in Users |-> Nobody]
        /\ open = [u \in Users |-> FALSE] /\ acts = 0
        /\ saved = [u \in Users |-> 0]
        /\ disturbed = FALSE /\ unruly = {}

(***************************************************************************)
(* The form.                                                                 *)
(***************************************************************************)
Act == acts < MaxActs /\ acts' = acts + 1

Send(u, what) == requests' = [requests EXCEPT ![u] = Append(@, what)]

\* The form opens: acquireEditingLock is called and not awaited.
Open(u) == /\ Act
           /\ ~open[u]
           /\ open' = [open EXCEPT ![u] = TRUE]
           /\ Send(u, "lock")
           /\ UNCHANGED <<lock, pending, news, known, saved, history>>

\* The form is closed: the observer of its class sends the release.
Close(u) == /\ open[u]
            /\ open' = [open EXCEPT ![u] = FALSE]
            /\ Send(u, "unlock")
            /\ UNCHANGED <<lock, pending, news, known, acts, saved, history>>

\* The save button, which can be pressed again while a save is under way.
Save(u) == /\ Act
           /\ open[u]
           /\ Send(u, "save")
           /\ UNCHANGED <<lock, pending, news, known, open, saved, history>>

\* The good answer to a save closes the form, whichever opening it is by then, and
\* the observer sees the class set even if the form was closed already.
SaveAnswered(u) == /\ saved[u] > 0
                   /\ saved' = [saved EXCEPT ![u] = @ - 1]
                   /\ open' = [open EXCEPT ![u] = FALSE]
                   /\ Send(u, "unlock")
                   /\ UNCHANGED <<lock, pending, news, known, acts, history>>

\* The page is left or loaded anew: it forgets what it knew and does not ask
\* for the locks there are.
Leave(u) == /\ Act
            /\ open[u] \/ known[u] # Nobody
            /\ open' = [open EXCEPT ![u] = FALSE]
            /\ known' = [known EXCEPT ![u] = Nobody]
            /\ news' = [news EXCEPT ![u] = <<>>]
            /\ requests' = [requests EXCEPT ![u] = <<>>]
            /\ saved' = [saved EXCEPT ![u] = 0]
            /\ disturbed' = TRUE /\ unruly' = unruly \cup {u}
            /\ UNCHANGED <<lock, pending>>

(***************************************************************************)
(* The server.                                                               *)
(***************************************************************************)
\* AcquireEditingLock: the lock as it is after u has asked for it.
Acquired(u) == IF lock = Nobody THEN u ELSE lock

\* ReleaseEditingLock.
Released(u) == IF lock = u THEN Nobody ELSE lock

\* Mutant: a release is broadcast for the holder only.
SaysAfterHolder(u, what) == (what = "lock" /\ Acquired(u) = u) \/ (what = "unlock" /\ lock = u)

\* The request is answered with a broadcast: not one for a lock that another
\* holds, nor a save, but every release, whoever holds the lock.
SaysAfter(u, what) == (what = "lock" /\ Acquired(u) = u) \/ what = "unlock"

\* A handler serves the i-th of the requests of u.
Serve(u, i) ==
    /\ i \in DOMAIN requests[u]
    /\ LET what == requests[u][i]
       IN  /\ lock' = IF what = "lock" THEN Acquired(u) ELSE Released(u)
           /\ pending' = IF SaysAfter(u, what) THEN Append(pending, [what |-> what, by |-> u])
                          ELSE pending
           /\ saved' = IF what = "save" THEN [saved EXCEPT ![u] = @ + 1] ELSE saved
           /\ disturbed' = \/ disturbed
                           \/ pending # <<>>
                           \/ what = "unlock" /\ lock \notin {u, Nobody}
    /\ requests' = [requests EXCEPT ![u] = RemoveAt(@, i)]
    /\ unruly' = IF i = 1 THEN unruly ELSE unruly \cup {u}
    /\ UNCHANGED <<news, known, open, acts>>

\* A save is refused before the lock is released; the form stays open.
Refuse(u, i) == /\ i \in DOMAIN requests[u] /\ requests[u][i] = "save"
                /\ requests' = [requests EXCEPT ![u] = RemoveAt(@, i)]
                /\ UNCHANGED <<lock, pending, news, known, open, acts, saved, history>>

\* BroadcastAll, at the end of a handler.
Broadcast(i) == /\ i \in DOMAIN pending
                /\ pending' = RemoveAt(pending, i)
                /\ news' = [u \in Users |-> Append(news[u], pending[i])]
                /\ UNCHANGED <<lock, requests, known, open, acts, saved, history>>

\* Two minutes have passed since the lock was asked for, or the server was
\* started anew.  Nobody is told.
Expire == /\ Act
          /\ lock # Nobody
          /\ lock' = Nobody
          /\ disturbed' = TRUE
          /\ UNCHANGED <<pending, requests, news, known, open, saved, unruly>>

\* A broadcast is lost: the connection is full or down.
Miss(u) == /\ Act
           /\ news[u] # <<>>
           /\ news' = [news EXCEPT ![u] = Front(@)]
           /\ disturbed' = TRUE
           /\ UNCHANGED <<lock, pending, requests, known, open, saved, unruly>>

(***************************************************************************)
(* A page hears of the lock.                                                 *)
(***************************************************************************)
\* handleEditingLockEvent: any release clears the entry.
KnownAfter(u, m) == IF m.what = "lock" THEN m.by ELSE Nobody

Hear(u) == /\ news[u] # <<>>
           /\ known' = [known EXCEPT ![u] = KnownAfter(u, Head(news[u]))]
           /\ news' = [news EXCEPT ![u] = Tail(@)]
           /\ UNCHANGED <<lock, pending, requests, open, acts, saved, history>>

Next == \/ \E u \in Users : \/ Open(u) \/ Close(u) \/ Save(u) \/ SaveAnswered(u) \/ Leave(u)
                            \/ Miss(u) \/ Hear(u)
                            \/ \E i \in DOMAIN requests[u] : Serve(u, i) \/ Refuse(u, i)
        \/ \E i \in DOMAIN pending : Broadcast(i)
        \/ Expire

Spec == Init /\ [][Next]_vars

(***************************************************************************)
(* Properties.                                                               *)
(***************************************************************************)
Quiet == /\ pending = <<>>
         /\ \A u \in Users : requests[u] = <<>> /\ news[u] = <<>> /\ saved[u] = 0

\* The holder and whoever a page knows of are users.
TypeOK == /\ lock \in Users \cup {Nobody}
          /\ known \in [Users -> Users \cup {Nobody}]
          /\ saved \in [Users -> 0 .. MaxActs] /\ open \in [Users -> BOOLEAN]
          /\ \A u \in Users : Range(requests[u]) \subseteq {"lock", "unlock", "save"}
          /\ disturbed \in BOOLEAN /\ unruly \subseteq Users

\* When everything sent has been served and heard, every page knows who holds the
\* lock, unless a broadcast was lost, two handlers overlapped, the lock ran out,
\* or someone else's form was closed while it was held.
PagesKnowTheHolder == Quiet /\ ~disturbed => \A u \in Users : known[u] = lock

\* When everything sent has been served, whoever holds the lock has the form
\* open: a closed form gives it back, however often it was opened and saved,
\* unless its requests overtook one another or the page was left.
HolderIsEditing == Quiet => \A u \in Users \ unruly : lock = u => open[u]
=============================================================================
