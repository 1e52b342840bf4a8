---------------------------- MODULE EventWorkflow ----------------------------
(***************************************************************************)
(* One event and the handlers that change it: handleUpdateEvent and            *)
(* handlePatchEventStatus (handlers_events.go), the cascade of                 *)
(* handlers_profile.go, ingestion (app.go) and routing (routing.go), bulk      *)
(* changes of status (store_admin.go), deletion, and the version history of    *)
(* store_events.go.                                                          *)
(*                                                                           *)
(* Every handler but the bulk ones reads the whole record under the store's    *)
(* mutex, works on its copy, and writes the whole record back; nothing is      *)
(* checked in between.  An edit carries all the fields of the form, filled in  *)
(* whenever the page read the event.                                         *)
(*                                                                           *)
(* "text" stands for the fields the form sets and no other handler looks at.   *)
(* Left out: roles and layers (who may do this), the end time (treated as the  *)
(* start is), overlap warnings, audit and broadcasts, other events, which      *)
(* share the limit on versions.                                              *)
(***************************************************************************)
EXTENDS Naturals, Sequences

CONSTANTS Handlers,   \* requests served at one time
          Texts, Starts,
          Unset,      \* a nil planned_start
          Kept,       \* versions that are kept (5000 in the code)
          MaxChanges  \* bound: requests

ASSUME EventWorkflowAssumption == /\ Unset \notin Starts /\ Kept \in Nat \ {0}
                                  /\ MaxChanges \in Nat

VARIABLES event,     \* the stored record
          exists,    \* the event has not been deleted
          versions,  \* snapshots, oldest first
          serving,   \* what each handler is doing
          changes,   \* requests so far
          baselines, \* history: starts the event had before its first edit
          replaced,  \* history: records replaced by edits, the last of them
          stale,     \* history: handlers at work on a record replaced since they read it
          raced,     \* history: one of those has written it back
          mixed      \* history: a status was set without its stamp

record == <<event, exists, versions>>
history == <<baselines, replaced, stale, raced, mixed>>
vars == <<record, serving, changes, history>>

Statuses == {"planned", "verified", "rejected"}
Stamps == {"none", "verifier", "reason"}

Records == [text : Texts, start : Starts, planned : Starts \cup {Unset},
            status : Statuses, stamp : Stamps]

Idle == LET none == CHOOSE r \in Records : TRUE
        IN  [step |-> "idle", copy |-> none, body |-> none]

Init == /\ event \in [text : Texts, start : Starts, planned : {Unset},
                      status : {"planned"}, stamp : {"none"}]
        /\ exists = TRUE /\ versions = <<>>
        /\ serving = [h \in Handlers |-> Idle]
        /\ changes = 0
        /\ baselines = {event.start} /\ replaced = <<>>
        /\ stale = {} /\ raced = FALSE /\ mixed = FALSE

(***************************************************************************)
(* A request is received: the handler reads the record (GetEventByID).        *)
(***************************************************************************)
Reads(h, step, body) ==
    /\ serving[h].step = "idle" /\ exists /\ changes < MaxChanges
    /\ changes' = changes + 1
    /\ serving' = [serving EXCEPT ![h] = [step |-> step, copy |-> event, body |-> body]]
    /\ UNCHANGED <<record, history>>

\* planned_start values a page may send: none from the form, any that it has read
\* from moving or undoing.
Sent == {Unset, event.planned} \cup {versions[i].planned : i \in DOMAIN versions}

EditReceived(h) ==
    \E t \in Texts, s \in Starts, p \in Sent, st \in Statuses :
        Reads(h, "snapshot", [text |-> t, start |-> s, planned |-> p,
                              status |-> st, stamp |-> "none"])

StatusReceived(h) ==
    \E st \in Statuses : Reads(h, "status", [event EXCEPT !.status = st])

\* A cascade moves the start, ingestion also sets the text, routing only that.
RewriteReceived(h) ==
    \E t \in Texts, s \in Starts : Reads(h, "rewrite", [event EXCEPT !.text = t, !.start = s])

(***************************************************************************)
(* What the handlers make of it.                                             *)
(***************************************************************************)
\* Mutant: the baseline is taken from the new times.
EditedLate(copy, body) ==
    [body EXCEPT !.stamp = copy.stamp,
                 !.planned = IF copy.planned # Unset THEN copy.planned
                             ELSE IF body.planned # Unset THEN body.planned
                             ELSE body.start]

\* handleUpdateEvent: all fields come from the form, but the stamp and the
\* baseline, which the first edit takes from the record it replaces.
Edited(copy, body) ==
    [body EXCEPT !.stamp = copy.stamp,
                 !.planned = IF copy.planned # Unset THEN copy.planned
                             ELSE IF body.planned # Unset THEN body.planned
                             ELSE copy.start]

\* Mutant: going back to planned leaves the stamp.
StampForSticky(copy, status) ==
    IF status = "verified" THEN "verifier" ELSE IF status = "rejected" THEN "reason" ELSE copy.stamp

\* handlePatchEventStatus sets verified_by or the reason of a rejection, or clears both.
StampFor(copy, status) ==
    IF status = "verified" THEN "verifier" ELSE IF status = "rejected" THEN "reason" ELSE "none"

\* Mutant: only what the page knows of is written back.
PatchedBare(copy, status) ==
    [copy EXCEPT !.status = status, !.stamp = StampFor(copy, status), !.planned = Unset]

Patched(copy, status) == [copy EXCEPT !.status = status, !.stamp = StampFor(copy, status)]

Changed(h) == LET c == serving[h].copy
                  b == serving[h].body
              IN  CASE serving[h].step = "edit" -> Edited(c, b)
                    [] serving[h].step = "status" -> Patched(c, b.status)
                    [] OTHER -> b

\* Mutant: nothing is dropped.
LimitedNever(s) == s

\* Mutant: the limit is off by one.
LimitedEarly(s) == IF Len(s) >= Kept THEN Tail(s) ELSE s

\* The cap of CreateEventVersion.
Limited(s) == IF Len(s) > Kept THEN Tail(s) ELSE s

\* CreateEventVersion, before the record is written; the answer is not looked at.
Snapshot(h) ==
    /\ serving[h].step = "snapshot"
    /\ versions' = Limited(Append(versions, serving[h].copy))
    /\ serving' = [serving EXCEPT ![h].step = "edit"]
    /\ UNCHANGED <<event, exists, changes, history>>

AtWork == {h \in Handlers : serving[h].step # "idle"}

\* UpdateEvent, which fails if the event is gone.
Write(h) ==
    /\ serving[h].step \in {"edit", "status", "rewrite"}
    /\ serving' = [serving EXCEPT ![h] = Idle]
    /\ IF ~exists THEN UNCHANGED <<event, history>>
       ELSE /\ event' = Changed(h)
            /\ raced' = (raced \/ h \in stale)
            /\ stale' = AtWork \ {h}
            /\ baselines' = IF serving[h].step = "rewrite"
                            THEN baselines \cup {event'.start} ELSE baselines
            /\ replaced' = IF serving[h].step = "edit"
                           THEN LET all == Append(replaced, event)
                                IN  IF Len(all) > Kept THEN Tail(all) ELSE all
                           ELSE replaced
            /\ mixed' = \/ mixed
                        \/ serving[h].step = "edit"
                           /\ serving[h].body.status # serving[h].copy.status
    /\ UNCHANGED <<exists, versions, changes>>

\* BulkSetEventStatus, under the mutex from end to end: the status only.
BulkStatus(st) ==
    /\ exists /\ changes < MaxChanges /\ changes' = changes + 1
    /\ event' = [event EXCEPT !.status = st]
    /\ mixed' = TRUE /\ stale' = AtWork
    /\ UNCHANGED <<exists, versions, serving, baselines, replaced, raced>>

\* DeleteEvent: the versions stay.
Delete == /\ exists /\ changes < MaxChanges /\ changes' = changes + 1
          /\ exists' = FALSE
          /\ UNCHANGED <<event, versions, serving, history>>

Next == \/ \E h \in Handlers : \/ EditReceived(h) \/ StatusReceived(h) \/ RewriteReceived(h)
                               \/ Snapshot(h) \/ Write(h)
        \/ \E st \in Statuses : BulkStatus(st)
        \/ Delete

Spec == Init /\ [][Next]_vars

(***************************************************************************)
(* Properties.                                                               *)
(***************************************************************************)
\* The record, the snapshots and the handlers' copies are records, and there are
\* no more snapshots than are kept.
TypeOK == /\ event \in Records /\ exists \in BOOLEAN
          /\ versions \in Seq(Records) /\ Len(versions) <= Kept
          /\ \A h \in Handlers : serving[h].copy \in Records /\ serving[h].body \in Records
          /\ baselines \subseteq Starts /\ stale \subseteq Handlers

\* The planning baseline is never a start that an edit chose: it is the start
\* the event was created with, or one that a cascade or ingestion gave it, however
\* the handlers overlapped (README.md, "Planned vs. Actual").
BaselineIsOriginal == event.planned # Unset => event.planned \in baselines

\* As long as no handler has written over what another wrote since it read, the
\* baseline stays what the first edit made it (handleUpdateEvent).
BaselineStays ==
    [][~raced' /\ event.planned # Unset => event'.planned = event.planned]_vars

\* What an edit replaces is in the history, the newest of it that fits, however old
\* the form was that was saved: unless handlers overlapped.
ReplacedIsKept ==
    (~raced /\ exists /\ AtWork = {}) => versions = replaced

\* Who verified an event and why it was rejected are recorded if and only if its
\* status says so, even when handlers overlap, unless a form or a bulk change set
\* the status.
StampMatchesStatus ==
    ~mixed => /\ event.stamp = "verifier" <=> event.status = "verified"
              /\ event.stamp = "reason" <=> event.status = "rejected"
=============================================================================
