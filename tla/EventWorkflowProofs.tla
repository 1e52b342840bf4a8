------------------------ MODULE EventWorkflowProofs ------------------------
(***************************************************************************)
(* The properties of EventWorkflow, for any number of handlers, any texts and  *)
(* starts, any limit on the versions and any number of requests; then those of  *)
(* Undo, as MCEventWorkflow puts the two together, for any contents and any     *)
(* numbers of requests and entries.                                          *)
(*                                                                           *)
(* None of them is inductive.  In EventWorkflow, what a handler holds while     *)
(* others write is what it will write later: the invariant speaks of the        *)
(* handlers' copies and bodies too, and of the snapshots, whose baselines a     *)
(* page may send back.  In Undo, where an entry leads back to depends on all    *)
(* the newer ones being undone first: the invariant asks for a chain of events  *)
(* along the stack, and says where each request under way will join it.         *)
(***************************************************************************)
EXTENDS MCEventWorkflow, SequenceTheorems, FiniteSetTheorems, TLAPS

Steps == {"idle", "snapshot", "edit", "status", "rewrite"}
Work == [step : Steps, copy : Records, body : Records]

\* A record's baseline, or what would become of it, is a start before an edit.
Based(r) == IF r.planned = Unset THEN r.start \in baselines ELSE r.planned \in baselines

\* A record's stamp says what its status says.
Stamped(r) == /\ r.stamp = "verifier" <=> r.status = "verified"
              /\ r.stamp = "reason" <=> r.status = "rejected"

Types == /\ event \in Records /\ exists \in BOOLEAN
         /\ versions \in Seq(Records) /\ Len(versions) <= Kept
         /\ serving \in [Handlers -> Work]
         /\ baselines \subseteq Starts /\ stale \subseteq Handlers

\* What a handler is to write carries no baseline but one of those.
Baselines ==
    /\ Based(event)
    /\ \A i \in DOMAIN versions : Based(versions[i])
    /\ \A h \in AtWork : /\ Based(serving[h].copy)
                         /\ serving[h].body.planned \in baselines \cup {Unset}
                         /\ serving[h].step = "rewrite" =>
                               serving[h].body.planned = serving[h].copy.planned

\* What a handler read is what is stored, unless somebody wrote since.
Fresh == exists => /\ stale \subseteq AtWork
                   /\ \A h \in AtWork \ stale : serving[h].copy = event

StampsMatch ==
    ~mixed => /\ Stamped(event)
              /\ \A h \in AtWork : /\ Stamped(serving[h].copy)
                                   /\ serving[h].step = "rewrite" => Stamped(serving[h].body)

\* With nothing stale, the history is what was replaced, and the snapshot of the one
\* edit about to be written.
HistoryMatches ==
    (exists /\ ~raced /\ stale = {}) =>
        \/ /\ \A h \in Handlers : serving[h].step # "edit"
           /\ versions = replaced
        \/ /\ \E h \in Handlers : serving[h].step = "edit"
           /\ versions = Limited(Append(replaced, event))
        \/ \E g, h \in Handlers : g # h /\ serving[g].step = "edit" /\ serving[h].step = "edit"

IInv == Types /\ Baselines /\ Fresh /\ StampsMatch /\ HistoryMatches

\* The fields of a record.
LEMMA RecordShape ==
    ASSUME NEW r \in Records
    PROVE  /\ r.text \in Texts /\ r.start \in Starts /\ r.planned \in Starts \cup {Unset}
           /\ r.status \in Statuses /\ r.stamp \in Stamps
  BY DEF Records

\* What is idle has its type as soon as there is a record.
LEMMA IdleShape == ASSUME NEW r \in Records PROVE Idle \in Work /\ Idle.step = "idle"
  <1>1. (CHOOSE x \in Records : TRUE) \in Records
    OBVIOUS
  <1>2. QED BY <1>1 DEF Idle, Work, Steps

\* Snapshots are records.
LEMMA VersionShape ==
    ASSUME Types
    PROVE  \A i \in DOMAIN versions : versions[i] \in Records
  BY ElementOfSeq, LenProperties DEF Types

\* A page sends no baseline but one of those that were.
LEMMA SentIsBased ==
    ASSUME IInv, NEW p \in Sent
    PROVE  p \in baselines \cup {Unset}
  BY DEF IInv, Baselines, Based, Sent

\* The cap keeps the snapshots few, and every one of them was there before.
LEMMA LimitedShape ==
    ASSUME NEW s \in Seq(Records), Len(s) <= Kept, NEW r \in Records
    PROVE  /\ Limited(Append(s, r)) \in Seq(Records)
           /\ Len(Limited(Append(s, r))) <= Kept
           /\ \A i \in DOMAIN Limited(Append(s, r)) :
                 \/ Limited(Append(s, r))[i] = r
                 \/ \E j \in DOMAIN s : Limited(Append(s, r))[i] = s[j]
  <1> DEFINE t == Append(s, r)
  <1>1. /\ t \in Seq(Records) /\ Len(t) = Len(s) + 1 /\ Len(s) \in Nat
        /\ DOMAIN s = 1..Len(s) /\ DOMAIN t = 1..Len(t)
        /\ \A i \in 1..Len(s) : t[i] = s[i]
        /\ t[Len(t)] = r /\ t # <<>>
    BY AppendProperties, LenProperties
  <1> HIDE DEF t
  <1>2. /\ Tail(t) \in Seq(Records) /\ Len(Tail(t)) = Len(t) - 1
        /\ DOMAIN Tail(t) = 1..Len(Tail(t))
        /\ \A i \in 1..Len(Tail(t)) : Tail(t)[i] = t[i + 1]
    BY <1>1, HeadTailProperties, LenProperties
  <1>3. CASE Len(t) > Kept
    <2>1. Limited(t) = Tail(t)
      BY <1>3 DEF Limited
    <2>2. \A i \in DOMAIN Tail(t) : Tail(t)[i] = r \/ \E j \in DOMAIN s : Tail(t)[i] = s[j]
      <3> TAKE i \in DOMAIN Tail(t)
      <3>1. i \in 1..Len(s) /\ Tail(t)[i] = t[i + 1]
        BY <1>1, <1>2
      <3>2. CASE i = Len(s)
        BY <3>1, <3>2, <1>1
      <3>3. CASE i # Len(s)
        <4>1. i + 1 \in 1..Len(s)
          BY <3>1, <3>3, <1>1
        <4>2. QED BY <4>1, <3>1, <1>1
      <3>4. QED BY <3>2, <3>3
    <2>3. QED BY <2>1, <2>2, <1>1, <1>2 DEF t
  <1>4. CASE ~(Len(t) > Kept)
    <2>1. Limited(t) = t
      BY <1>4 DEF Limited
    <2>2. Len(t) <= Kept
      BY <1>4, <1>1, EventWorkflowAssumption
    <2>3. \A i \in DOMAIN t : t[i] = r \/ \E j \in DOMAIN s : t[i] = s[j]
      <3> TAKE i \in DOMAIN t
      <3>1. i \in 1..Len(s) \/ i = Len(t)
        BY <1>1
      <3>2. QED BY <3>1, <1>1
    <2>4. QED BY <2>1, <2>2, <2>3, <1>1 DEF t
  <1>5. QED BY <1>3, <1>4

\* What the first edit and a change of status make of a based record is based.
LEMMA ChangesKeepBase ==
    ASSUME NEW c \in Records, NEW b \in Records, Based(c), b.planned \in baselines \cup {Unset},
           baselines \subseteq Starts
    PROVE  /\ Edited(c, b) \in Records /\ Based(Edited(c, b))
           /\ Edited(c, b).status = b.status /\ Edited(c, b).stamp = c.stamp
           /\ c.planned # Unset => Edited(c, b).planned = c.planned
  <1> DEFINE p == IF c.planned # Unset THEN c.planned
                  ELSE IF b.planned # Unset THEN b.planned ELSE c.start
  <1>1. p \in baselines
    BY RecordShape DEF Based
  <1>2. p \in Starts /\ p # Unset
    BY <1>1, EventWorkflowAssumption
  <1>3. Edited(c, b) = [b EXCEPT !.stamp = c.stamp, !.planned = p]
    BY DEF Edited
  <1> HIDE DEF p
  <1>4. /\ Edited(c, b) \in Records /\ Edited(c, b).planned = p
        /\ Edited(c, b).status = b.status /\ Edited(c, b).stamp = c.stamp
    BY <1>2, <1>3, RecordShape DEF Records
  <1>5. Based(Edited(c, b))
    BY <1>1, <1>2, <1>4 DEF Based
  <1>6. c.planned # Unset => p = c.planned
    BY DEF p
  <1>7. QED BY <1>4, <1>5, <1>6

LEMMA PatchKeepsBase ==
    ASSUME NEW c \in Records, NEW st \in Statuses
    PROVE  /\ Patched(c, st) \in Records
           /\ Patched(c, st).planned = c.planned /\ Patched(c, st).start = c.start
           /\ Stamped(Patched(c, st))
  <1>1. StampFor(c, st) \in Stamps
    BY DEF StampFor, Stamps
  <1>2. /\ Patched(c, st) \in Records
        /\ Patched(c, st).planned = c.planned /\ Patched(c, st).start = c.start
        /\ Patched(c, st).status = st /\ Patched(c, st).stamp = StampFor(c, st)
    BY <1>1, RecordShape DEF Patched, Records
  <1>3. QED BY <1>2 DEF Stamped, StampFor, Statuses

LEMMA InitIInv == Init => IInv
  <1> SUFFICES ASSUME Init PROVE IInv
    OBVIOUS
  <1>1. /\ event \in Records /\ event.planned = Unset /\ event.start \in Starts
        /\ event.status = "planned" /\ event.stamp = "none"
    BY DEF Init, Records, Statuses, Stamps
  <1>2. serving \in [Handlers -> Work] /\ \A h \in Handlers : serving[h].step = "idle"
    BY <1>1, IdleShape DEF Init
  <1>3. versions = <<>> /\ versions \in Seq(Records) /\ Len(versions) = 0 /\ DOMAIN versions = {}
    BY DEF Init
  <1>4. Types
    BY <1>1, <1>2, <1>3, EventWorkflowAssumption DEF Init, Types
  <1>5. AtWork = {}
    BY <1>2 DEF AtWork
  <1>6. Baselines
    BY <1>1, <1>3, <1>5 DEF Init, Baselines, Based
  <1>7. Fresh /\ StampsMatch
    BY <1>1, <1>5 DEF Init, Fresh, StampsMatch, Stamped
  <1>8. HistoryMatches
    BY <1>2 DEF Init, HistoryMatches
  <1>9. QED BY <1>4, <1>6, <1>7, <1>8 DEF IInv

\* A handler that reads holds what is stored.
LEMMA ReadsKeeps ==
    ASSUME IInv, NEW h \in Handlers, NEW step \in {"snapshot", "status", "rewrite"},
           NEW body \in Records, body.planned \in baselines \cup {Unset},
           step = "rewrite" => body.planned = event.planned /\ body.status = event.status
                               /\ body.stamp = event.stamp,
           Reads(h, step, body)
    PROVE  IInv'
  <1>1. /\ UNCHANGED <<event, exists, versions, baselines, replaced, stale, raced, mixed>>
        /\ exists /\ serving[h].step = "idle"
    BY DEF Reads, record, history
  <1>2. /\ serving' \in [Handlers -> Work]
        /\ serving'[h].step = step /\ serving'[h].copy = event /\ serving'[h].body = body
        /\ \A g \in Handlers \ {h} : serving'[g] = serving[g]
    BY DEF Reads, IInv, Types, Work, Steps
  <1>3. AtWork' = AtWork \cup {h} /\ h \notin AtWork
    BY <1>1, <1>2 DEF AtWork
  <1>4. Types'
    BY <1>1, <1>2 DEF IInv, Types
  <1>5. Baselines'
    BY <1>1, <1>2, <1>3 DEF IInv, Baselines, Based, AtWork
  <1>6. Fresh'
    BY <1>1, <1>2, <1>3 DEF IInv, Fresh, AtWork
  <1>7. StampsMatch'
    BY <1>1, <1>2, <1>3 DEF IInv, StampsMatch, Stamped, AtWork
  <1>8. HistoryMatches'
    <2>1. \A g \in Handlers : serving'[g].step = "edit" <=> serving[g].step = "edit"
      BY <1>1, <1>2
    <2>2. QED BY <1>1, <2>1 DEF IInv, HistoryMatches
  <1>9. QED BY <1>4, <1>5, <1>6, <1>7, <1>8 DEF IInv

\* A snapshot is what the handler read.
LEMMA SnapshotKeeps == ASSUME IInv, NEW h \in Handlers, Snapshot(h) PROVE IInv'
  <1>1. /\ UNCHANGED <<event, exists, baselines, replaced, stale, raced, mixed>>
        /\ serving[h].step = "snapshot"
        /\ versions' = Limited(Append(versions, serving[h].copy))
    BY DEF Snapshot, history
  <1>2. /\ serving' \in [Handlers -> Work]
        /\ serving'[h].step = "edit" /\ serving'[h].copy = serving[h].copy
        /\ serving'[h].body = serving[h].body
        /\ \A g \in Handlers \ {h} : serving'[g] = serving[g]
    BY <1>1 DEF Snapshot, IInv, Types, Work, Steps
  <1>3. AtWork' = AtWork /\ h \in AtWork
    BY <1>1, <1>2 DEF AtWork
  <1>4. serving[h].copy \in Records
    BY DEF IInv, Types, Work
  <1>5. /\ versions' \in Seq(Records) /\ Len(versions') <= Kept
        /\ \A i \in DOMAIN versions' : \/ versions'[i] = serving[h].copy
                                       \/ \E j \in DOMAIN versions : versions'[i] = versions[j]
    BY <1>1, <1>4, LimitedShape DEF IInv, Types
  <1>6. Types'
    BY <1>1, <1>2, <1>5 DEF IInv, Types
  <1>7. Baselines'
    <2>1. \A i \in DOMAIN versions' : Based(versions'[i])
      BY <1>3, <1>5 DEF IInv, Baselines
    <2>2. \A g \in AtWork : /\ Based(serving'[g].copy)
                            /\ serving'[g].body.planned \in baselines \cup {Unset}
                            /\ serving'[g].step = "rewrite" =>
                                  serving'[g].body.planned = serving'[g].copy.planned
      <3> TAKE g \in AtWork
      <3>1. g \in Handlers
        BY DEF AtWork
      <3>2. CASE g = h
        BY <1>2, <1>3, <3>2 DEF IInv, Baselines
      <3>3. CASE g # h
        BY <1>2, <3>1, <3>3 DEF IInv, Baselines
      <3>4. QED BY <3>2, <3>3
    <2>3. QED BY <1>1, <1>3, <2>1, <2>2 DEF IInv, Baselines, Based
  <1>8. Fresh'
    BY <1>1, <1>2, <1>3 DEF IInv, Fresh, AtWork
  <1>9. StampsMatch'
    BY <1>1, <1>2, <1>3 DEF IInv, StampsMatch, Stamped, AtWork
  <1>10. HistoryMatches'
    <2> SUFFICES ASSUME exists, ~raced, stale = {}
                 PROVE  \/ /\ \E g \in Handlers : serving'[g].step = "edit"
                           /\ versions' = Limited(Append(replaced, event))
                        \/ \E f, g \in Handlers : /\ f # g
                                                  /\ serving'[f].step = "edit"
                                                  /\ serving'[g].step = "edit"
      BY <1>1 DEF HistoryMatches
    <2>1. CASE \A g \in Handlers : serving[g].step # "edit"
      <3>1. versions = replaced
        BY <2>1 DEF IInv, HistoryMatches
      <3>2. serving[h].copy = event
        BY <1>3 DEF IInv, Fresh
      <3>3. QED BY <1>1, <1>2, <3>1, <3>2
    <2>2. CASE \E g \in Handlers : serving[g].step = "edit"
      <3>1. PICK g \in Handlers : serving[g].step = "edit"
        BY <2>2
      <3>2. g # h /\ serving'[g].step = "edit"
        BY <1>1, <1>2, <3>1
      <3>3. QED BY <1>2, <3>2
    <2>3. QED BY <2>1, <2>2
  <1>11. QED BY <1>6, <1>7, <1>8, <1>9, <1>10 DEF IInv

\* What a handler is about to write: a record with a baseline that was there before,
\* and with the stamp of its status unless the form changed that.
LEMMA ChangedShape ==
    ASSUME IInv, NEW h \in AtWork, serving[h].step # "snapshot"
    PROVE  /\ Changed(h) \in Records
           /\ \/ Based(Changed(h))
              \/ serving[h].step = "rewrite" /\ Changed(h).planned = Unset
           /\ serving[h].copy.planned # Unset => Changed(h).planned = serving[h].copy.planned
           /\ \/ mixed \/ Stamped(Changed(h))
              \/ /\ serving[h].step = "edit"
                 /\ serving[h].body.status # serving[h].copy.status
  <1> DEFINE c == serving[h].copy
             b == serving[h].body
  <1>1. /\ serving[h].step \in {"edit", "status", "rewrite"}
        /\ c \in Records /\ b \in Records /\ baselines \subseteq Starts
    BY DEF IInv, Types, Work, Steps, AtWork
  <1>2. /\ Based(c) /\ b.planned \in baselines \cup {Unset}
        /\ serving[h].step = "rewrite" => b.planned = c.planned
    BY DEF IInv, Baselines
  <1>3. ~mixed => Stamped(c) /\ (serving[h].step = "rewrite" => Stamped(b))
    BY DEF IInv, StampsMatch
  <1>4. CASE serving[h].step = "edit"
    <2>1. Changed(h) = Edited(c, b)
      BY <1>4, Zenon DEF Changed
    <2> HIDE DEF c, b
    <2>2. /\ Edited(c, b) \in Records /\ Based(Edited(c, b))
          /\ Edited(c, b).status = b.status /\ Edited(c, b).stamp = c.stamp
          /\ c.planned # Unset => Edited(c, b).planned = c.planned
      BY <1>1, <1>2, ChangesKeepBase
    <2>3. mixed \/ b.status # c.status \/ Stamped(Edited(c, b))
      BY <1>3, <2>2 DEF Stamped
    <2>4. QED BY <1>4, <2>1, <2>2, <2>3 DEF c, b
  <1>5. CASE serving[h].step = "status"
    <2>1. Changed(h) = Patched(c, b.status)
      BY <1>5 DEF Changed
    <2> HIDE DEF c
    <2>2. b.status \in Statuses
      BY <1>1, RecordShape
    <2>3. /\ Patched(c, b.status) \in Records
          /\ Patched(c, b.status).planned = c.planned /\ Patched(c, b.status).start = c.start
          /\ Stamped(Patched(c, b.status))
      BY <1>1, <2>2, PatchKeepsBase
    <2>4. Based(Patched(c, b.status))
      BY <1>2, <2>3 DEF Based
    <2>5. QED BY <2>1, <2>3, <2>4 DEF c
  <1>6. CASE serving[h].step = "rewrite"
    <2>1. Changed(h) = b
      BY <1>6 DEF Changed
    <2>2. Based(b) \/ b.planned = Unset
      BY <1>2 DEF Based
    <2>3. QED BY <1>1, <1>2, <1>3, <1>6, <2>1, <2>2
  <1>7. QED BY <1>1, <1>4, <1>5, <1>6

\* A write makes the other handlers' copies stale.
LEMMA WriteKeeps == ASSUME IInv, NEW h \in Handlers, Write(h) PROVE IInv'
  <1>1. /\ serving[h].step \in {"edit", "status", "rewrite"}
        /\ serving' = [serving EXCEPT ![h] = Idle]
        /\ UNCHANGED <<exists, versions>>
    BY DEF Write
  <1>2. Idle \in Work /\ Idle.step = "idle"
    BY IdleShape DEF IInv, Types
  <1>3. /\ serving' \in [Handlers -> Work] /\ serving'[h].step = "idle"
        /\ \A g \in Handlers \ {h} : serving'[g] = serving[g]
    BY <1>1, <1>2 DEF IInv, Types
  <1>4. AtWork' = AtWork \ {h} /\ h \in AtWork /\ AtWork \subseteq Handlers
    BY <1>1, <1>3 DEF AtWork
  <1>5. CASE ~exists
    <2>1. UNCHANGED <<event, baselines, replaced, stale, raced, mixed>>
      BY <1>5 DEF Write, history
    <2>2. Types'
      BY <1>1, <1>3, <2>1 DEF IInv, Types
    <2>3. Baselines'
      BY <1>1, <1>3, <1>4, <2>1 DEF IInv, Baselines, Based
    <2>4. StampsMatch'
      BY <1>1, <1>3, <1>4, <2>1 DEF IInv, StampsMatch, Stamped
    <2>5. Fresh' /\ HistoryMatches'
      BY <1>1, <1>5 DEF Fresh, HistoryMatches
    <2>6. QED BY <2>2, <2>3, <2>4, <2>5 DEF IInv
  <1>6. CASE exists
    <2>1. /\ event' = Changed(h)
          /\ raced' = (raced \/ h \in stale)
          /\ stale' = AtWork \ {h}
          /\ baselines' = IF serving[h].step = "rewrite"
                          THEN baselines \cup {event'.start} ELSE baselines
          /\ mixed' = \/ mixed
                      \/ /\ serving[h].step = "edit"
                         /\ serving[h].body.status # serving[h].copy.status
      BY <1>6 DEF Write
    <2>2. replaced' = IF serving[h].step = "edit" THEN Limited(Append(replaced, event))
                                                  ELSE replaced
      BY <1>6 DEF Write, Limited
    <2>3. /\ event' \in Records
          /\ \/ Based(event')
             \/ serving[h].step = "rewrite" /\ event'.planned = Unset
          /\ \/ mixed \/ Stamped(event')
             \/ /\ serving[h].step = "edit"
                /\ serving[h].body.status # serving[h].copy.status
      BY <1>1, <1>4, <2>1, ChangedShape
    <2>4. baselines \subseteq baselines' /\ baselines' \subseteq Starts
      BY <2>1, <2>3, RecordShape DEF IInv, Types
    <2>5. Types'
      BY <1>1, <1>3, <1>4, <2>1, <2>3, <2>4 DEF IInv, Types
    <2>6. Baselines'
      <3>1. Based(event)'
        BY <2>1, <2>3, <2>4 DEF Based
      <3>2. \A r : Based(r) => (IF r.planned = Unset THEN r.start \in baselines'
                                                     ELSE r.planned \in baselines')
        BY <2>4 DEF Based
      <3>3. \A i \in DOMAIN versions' : Based(versions[i])'
        BY <1>1, <3>2 DEF IInv, Baselines, Based
      <3>4. \A g \in AtWork' : /\ Based(serving[g].copy)'
                               /\ serving'[g].body.planned \in baselines' \cup {Unset}
                               /\ serving'[g].step = "rewrite" =>
                                     serving'[g].body.planned = serving'[g].copy.planned
        <4> TAKE g \in AtWork'
        <4>1. g \in AtWork /\ serving'[g] = serving[g]
          BY <1>3, <1>4
        <4>2. /\ Based(serving[g].copy) /\ serving[g].body.planned \in baselines \cup {Unset}
              /\ serving[g].step = "rewrite" =>
                    serving[g].body.planned = serving[g].copy.planned
          BY <4>1 DEF IInv, Baselines
        <4>3. QED BY <2>4, <4>1, <4>2 DEF Based
      <3>5. QED BY <3>1, <3>3, <3>4 DEF Baselines
    <2>7. Fresh'
      BY <1>4, <2>1 DEF Fresh
    <2>8. StampsMatch'
      <3> SUFFICES ASSUME ~mixed' PROVE /\ Stamped(event')
                                        /\ \A g \in AtWork' :
                                              /\ Stamped(serving'[g].copy)
                                              /\ serving'[g].step = "rewrite" =>
                                                    Stamped(serving'[g].body)
        BY DEF StampsMatch, Stamped
      <3>1. ~mixed /\ Stamped(event')
        BY <2>1, <2>3
      <3>2. QED BY <1>3, <1>4, <3>1 DEF IInv, StampsMatch
    <2>9. HistoryMatches'
      <3> SUFFICES ASSUME ~raced', stale' = {}
                   PROVE  /\ \A g \in Handlers : serving'[g].step # "edit"
                          /\ versions' = replaced'
        BY DEF HistoryMatches
      <3>1. ~raced /\ AtWork = {h} /\ stale = {}
        BY <1>4, <1>6, <2>1 DEF IInv, Fresh
      <3>2. \A g \in Handlers \ {h} : serving[g].step = "idle"
        BY <3>1 DEF AtWork
      <3>3. \A g \in Handlers : serving'[g].step # "edit"
        BY <1>3, <3>2
      <3>4. versions = replaced'
        <4>1. CASE serving[h].step = "edit"
          BY <1>6, <2>2, <3>1, <3>2, <4>1 DEF IInv, HistoryMatches
        <4>2. CASE serving[h].step # "edit"
          BY <1>6, <2>2, <3>1, <3>2, <4>2 DEF IInv, HistoryMatches
        <4>3. QED BY <4>1, <4>2
      <3>5. QED BY <1>1, <3>3, <3>4
    <2>10. QED BY <2>5, <2>6, <2>7, <2>8, <2>9 DEF IInv
  <1>7. QED BY <1>5, <1>6

\* A bulk change sets the status of the stored record only.
LEMMA BulkKeeps == ASSUME IInv, NEW st \in Statuses, BulkStatus(st) PROVE IInv'
  <1>1. /\ event' = [event EXCEPT !.status = st] /\ mixed' = TRUE /\ stale' = AtWork
        /\ UNCHANGED <<exists, versions, serving, baselines, replaced, raced>>
    BY DEF BulkStatus
  <1>2. AtWork' = AtWork /\ AtWork \subseteq Handlers
    BY <1>1 DEF AtWork
  <1>3. /\ event' \in Records /\ event'.planned = event.planned /\ event'.start = event.start
    BY <1>1 DEF IInv, Types, Records
  <1>4. Types'
    BY <1>1, <1>2, <1>3 DEF IInv, Types
  <1>5. Baselines'
    BY <1>1, <1>2, <1>3 DEF IInv, Baselines, Based
  <1>6. Fresh' /\ StampsMatch'
    BY <1>1, <1>2 DEF Fresh, StampsMatch
  <1>7. HistoryMatches'
    <2> SUFFICES ASSUME exists, ~raced, AtWork = {}
                 PROVE  /\ \A g \in Handlers : serving[g].step # "edit"
                        /\ versions = replaced
      BY <1>1 DEF HistoryMatches
    <2>1. stale = {} /\ \A g \in Handlers : serving[g].step # "edit"
      BY DEF IInv, Fresh, AtWork
    <2>2. QED BY <2>1 DEF IInv, HistoryMatches
  <1>8. QED BY <1>4, <1>5, <1>6, <1>7 DEF IInv

LEMMA DeleteKeeps == ASSUME IInv, Delete PROVE IInv'
  <1>1. exists' = FALSE /\ UNCHANGED <<event, versions, serving, history>>
    BY DEF Delete
  <1>2. AtWork' = AtWork
    BY <1>1 DEF AtWork
  <1>3. QED
    BY <1>1, <1>2 DEF IInv, Types, Baselines, Based, Fresh, StampsMatch, Stamped,
                      HistoryMatches, history

LEMMA StutterKeeps == ASSUME IInv, UNCHANGED vars PROVE IInv'
  <1>1. UNCHANGED <<event, exists, versions, serving, history>> /\ AtWork' = AtWork
    BY DEF vars, record, AtWork
  <1>2. QED
    BY <1>1 DEF IInv, Types, Baselines, Based, Fresh, StampsMatch, Stamped,
                HistoryMatches, history

LEMMA IInvInductive == IInv /\ [Next]_vars => IInv'
  <1> SUFFICES ASSUME IInv, [Next]_vars PROVE IInv'
    OBVIOUS
  <1>1. ASSUME NEW h \in Handlers, EditReceived(h) PROVE IInv'
    <2>1. PICK t \in Texts, s \in Starts, p \in Sent, st \in Statuses :
             Reads(h, "snapshot", [text |-> t, start |-> s, planned |-> p,
                                   status |-> st, stamp |-> "none"])
      BY <1>1 DEF EditReceived
    <2> DEFINE b == [text |-> t, start |-> s, planned |-> p, status |-> st, stamp |-> "none"]
    <2>2. p \in baselines \cup {Unset} /\ baselines \subseteq Starts
      BY SentIsBased DEF IInv, Types
    <2>3. b \in Records /\ b.planned = p
      BY <2>2 DEF Records, Stamps
    <2>4. Reads(h, "snapshot", b)
      BY <2>1
    <2> HIDE DEF b
    <2>5. QED BY <2>2, <2>3, <2>4, ReadsKeeps
  <1>2. ASSUME NEW h \in Handlers, StatusReceived(h) PROVE IInv'
    <2>1. PICK st \in Statuses : Reads(h, "status", [event EXCEPT !.status = st])
      BY <1>2 DEF StatusReceived
    <2> DEFINE b == [event EXCEPT !.status = st]
    <2>2. b \in Records /\ b.planned = event.planned /\ event.planned \in Sent
      BY DEF IInv, Types, Records, Sent
    <2>3. Reads(h, "status", b)
      BY <2>1
    <2> HIDE DEF b
    <2>4. b.planned \in baselines \cup {Unset}
      BY <2>2, SentIsBased
    <2>5. QED BY <2>2, <2>3, <2>4, ReadsKeeps
  <1>3. ASSUME NEW h \in Handlers, RewriteReceived(h) PROVE IInv'
    <2>1. PICK t \in Texts, s \in Starts :
             Reads(h, "rewrite", [event EXCEPT !.text = t, !.start = s])
      BY <1>3 DEF RewriteReceived
    <2> DEFINE b == [event EXCEPT !.text = t, !.start = s]
    <2>2. /\ b \in Records /\ b.planned = event.planned /\ b.status = event.status
          /\ b.stamp = event.stamp /\ event.planned \in Sent
      BY DEF IInv, Types, Records, Sent
    <2>3. Reads(h, "rewrite", b)
      BY <2>1
    <2> HIDE DEF b
    <2>4. b.planned \in baselines \cup {Unset}
      BY <2>2, SentIsBased
    <2>5. QED BY <2>2, <2>3, <2>4, ReadsKeeps
  <1>4. ASSUME NEW h \in Handlers, Snapshot(h) PROVE IInv'
    BY <1>4, SnapshotKeeps
  <1>5. ASSUME NEW h \in Handlers, Write(h) PROVE IInv'
    BY <1>5, WriteKeeps
  <1>6. ASSUME NEW st \in Statuses, BulkStatus(st) PROVE IInv'
    BY <1>6, BulkKeeps
  <1>7. CASE Delete
    BY <1>7, DeleteKeeps
  <1>8. CASE UNCHANGED vars
    BY <1>8, StutterKeeps
  <1>9. QED BY <1>1, <1>2, <1>3, <1>4, <1>5, <1>6, <1>7, <1>8 DEF Next

\* The inductive invariant of the handlers of one event.
THEOREM AlwaysIInv == Spec => []IInv
  <1>1. QED BY InitIInv, IInvInductive, PTL DEF Spec

\* Records, snapshots and the handlers' copies keep their types, and the limit on
\* the versions holds (CreateEventVersion).
THEOREM TypesHold == Spec => []TypeOK
  <1>1. IInv => TypeOK
    BY DEF IInv, Types, TypeOK, Work
  <1>2. QED BY <1>1, AlwaysIInv, PTL

\* The planning baseline is a start from before an edit, however many handlers
\* overlap (handleUpdateEvent).
THEOREM BaselineAlwaysOriginal == Spec => []BaselineIsOriginal
  <1>1. IInv => BaselineIsOriginal
    BY DEF IInv, Baselines, Based, BaselineIsOriginal
  <1>2. QED BY <1>1, AlwaysIInv, PTL

\* Without overlapping handlers the baseline does not move (handleUpdateEvent).
THEOREM BaselineAlwaysStays == Spec => BaselineStays
  <1>1. IInv /\ [Next]_vars => [~raced' /\ event.planned # Unset
                                => event'.planned = event.planned]_vars
    <2> SUFFICES ASSUME IInv, Next, ~raced', event.planned # Unset
                 PROVE  event'.planned = event.planned
      OBVIOUS
    <2>1. ASSUME NEW h \in Handlers, Write(h), exists PROVE event'.planned = event.planned
      <3>1. /\ event' = Changed(h) /\ h \notin stale /\ h \in AtWork
            /\ serving[h].step # "snapshot"
        BY <2>1 DEF Write, AtWork
      <3>2. serving[h].copy = event
        BY <2>1, <3>1 DEF IInv, Fresh
      <3>3. QED BY <3>1, <3>2, ChangedShape
    <2>2. ASSUME NEW st \in Statuses, BulkStatus(st) PROVE event'.planned = event.planned
      BY <2>2 DEF BulkStatus, IInv, Types, Records
    <2>3. ASSUME event' = event PROVE event'.planned = event.planned
      BY <2>3
    <2>4. QED
      BY <2>1, <2>2, <2>3 DEF Next, EditReceived, StatusReceived, RewriteReceived, Reads,
                              Snapshot, Write, Delete, record
  <1>2. QED BY <1>1, AlwaysIInv, PTL DEF Spec, BaselineStays

\* Without overlapping handlers the history is what edits replaced, cut where the
\* limit cuts it (CreateEventVersion, UpdateEvent).
THEOREM ReplacedAlwaysKept == Spec => []ReplacedIsKept
  <1>1. IInv => ReplacedIsKept
    BY DEF IInv, Fresh, HistoryMatches, ReplacedIsKept, AtWork
  <1>2. QED BY <1>1, AlwaysIInv, PTL

\* Stamps say what the status says, however many handlers overlap, unless a form or
\* a bulk change set the status (handlePatchEventStatus).
THEOREM StampAlwaysMatches == Spec => []StampMatchesStatus
  <1>1. IInv => StampMatchesStatus
    BY DEF IInv, StampsMatch, Stamped, StampMatchesStatus
  <1>2. QED BY <1>1, AlwaysIInv, PTL

(***************************************************************************)
(* Undo.  The entries of the stack lead back step by step: undoing the newest   *)
(* takes the server's events to what they were before its change, undoing the   *)
(* one below takes those to what they were before, and so on down to the first  *)
(* void entry.  A chain of events is a witness of this; it is what the server   *)
(* would have if each deleted event came back under its old ID.                 *)
(***************************************************************************)
Maps(n) == UNION {[D -> Contents] : D \in SUBSET (1..(n - 1))}

EntryActions == {"create", "update", "delete"}
Befores == {{}} \cup {{f} : f \in [Contents -> Nat]}
Entries == [action : EntryActions, id : Nat, old : Contents, before : Befores]

\* What undoing an entry makes of the events, if IDs came back; and whether it can.
Undone(x, e) == IF e.action = "create" THEN U!Without(x, e.id) ELSE U!With(x, e.id, e.old)
Fits(x, e) == e.action = "delete" <=> e.id \notin DOMAIN x

Live(st, k) == \A j \in k..Len(st) : st[j].before # {}

ChainLink(c, st, k) == /\ Fits(c[k + 1], st[k])
                       /\ c[k] = Undone(c[k + 1], st[k])
                       /\ st[k].before = {U!Count(c[k])}

IsChain(c, st, x, n) == /\ c \in [1..(Len(st) + 1) -> Maps(n)]
                        /\ c[Len(st) + 1] = x
                        /\ \A k \in 1..Len(st) : Live(st, k) => ChainLink(c, st, k)

HasChain(st, x, n) == \E c : IsChain(c, st, x, n)

\* Nothing can be expected of the newest entry.
Dead(st) == st # <<>> => st[Len(st)].before = {}

\* One id instead of another.
Renamed(x, i, m) == IF i \in DOMAIN x THEN U!With(U!Without(x, i), m, x[i]) ELSE x

LEMMA SameCardinality == \A D : U!Cardinality(D) = Cardinality(D)
  BY Zenon DEF U!Cardinality, Cardinality

\* Maps of events.
LEMMA MapShape ==
    ASSUME NEW n \in Nat, NEW x \in Maps(n)
    PROVE  /\ x \in [DOMAIN x -> Contents] /\ DOMAIN x \subseteq 1..(n - 1)
           /\ IsFiniteSet(DOMAIN x)
  <1>1. x \in [DOMAIN x -> Contents] /\ DOMAIN x \subseteq 1..(n - 1)
    BY DEF Maps
  <1>2. IsFiniteSet(1..(n - 1))
    BY FS_Interval
  <1> QED BY <1>1, <1>2, FS_Subset

LEMMA MapIntro ==
    ASSUME NEW n \in Nat, NEW D \in SUBSET (1..(n - 1)), NEW x \in [D -> Contents]
    PROVE  x \in Maps(n)
  BY DEF Maps

LEMMA MapGrows ==
    ASSUME NEW n \in Nat, NEW x \in Maps(n)
    PROVE  x \in Maps(n + 1)
  <1>1. DOMAIN x \in SUBSET (1..((n + 1) - 1)) /\ x \in [DOMAIN x -> Contents]
    BY MapShape
  <1> QED BY <1>1, MapIntro

LEMMA WithMap ==
    ASSUME NEW n \in Nat, NEW x \in Maps(n), NEW i \in 1..(n - 1), NEW c \in Contents
    PROVE  U!With(x, i, c) \in Maps(n)
  <1>1. DOMAIN x \in SUBSET (1..(n - 1)) /\ x \in [DOMAIN x -> Contents]
    BY MapShape
  <1>2. U!With(x, i, c) \in [DOMAIN x \cup {i} -> Contents]
    BY <1>1 DEF U!With
  <1>3. DOMAIN x \cup {i} \in SUBSET (1..(n - 1))
    BY <1>1
  <1> QED BY <1>2, <1>3, MapIntro

LEMMA WithoutMap ==
    ASSUME NEW n \in Nat, NEW x \in Maps(n), NEW i
    PROVE  U!Without(x, i) \in Maps(n)
  <1>1. DOMAIN x \in SUBSET (1..(n - 1)) /\ x \in [DOMAIN x -> Contents]
    BY MapShape
  <1>2. U!Without(x, i) \in [DOMAIN x \ {i} -> Contents]
    BY <1>1 DEF U!Without
  <1>3. DOMAIN x \ {i} \in SUBSET (1..(n - 1))
    BY <1>1
  <1> QED BY <1>2, <1>3, MapIntro

LEMMA RenamedMap ==
    ASSUME NEW n \in Nat \ {0}, NEW x \in Maps(n), NEW i
    PROVE  Renamed(x, i, n) \in Maps(n + 1)
  <1>1. CASE i \in DOMAIN x
    <2>1. U!Without(x, i) \in Maps(n + 1) /\ x[i] \in Contents /\ n \in 1..((n + 1) - 1)
      BY <1>1, MapShape, WithoutMap, MapGrows
    <2>2. U!With(U!Without(x, i), n, x[i]) \in Maps(n + 1)
      BY <2>1, WithMap
    <2> QED BY <1>1, <2>2 DEF Renamed
  <1>2. CASE i \notin DOMAIN x
    BY <1>2, MapGrows DEF Renamed
  <1> QED BY <1>1, <1>2

\* How often each content is there does not depend on the IDs.
LEMMA CountType ==
    ASSUME NEW n \in Nat, NEW x \in Maps(n)
    PROVE  U!Count(x) \in [Contents -> Nat]
  <1>1. ASSUME NEW c \in Contents
        PROVE  U!Cardinality({i \in DOMAIN x : x[i] = c}) \in Nat
    <2>1. IsFiniteSet({i \in DOMAIN x : x[i] = c})
      <3>1. {i \in DOMAIN x : x[i] = c} \subseteq DOMAIN x /\ IsFiniteSet(DOMAIN x)
        BY MapShape
      <3> QED BY <3>1, FS_Subset
    <2> QED BY <2>1, FS_CardinalityType, SameCardinality
  <1> QED BY <1>1 DEF U!Count

LEMMA CountRenamed ==
    ASSUME NEW n \in Nat \ {0}, NEW x \in Maps(n), NEW i
    PROVE  U!Count(Renamed(x, i, n)) = U!Count(x)
  <1> DEFINE y == Renamed(x, i, n)
             At(z, c) == {j \in DOMAIN z : z[j] = c}
  <1>1. SUFFICES ASSUME i \in DOMAIN x PROVE U!Count(y) = U!Count(x)
    BY DEF Renamed
  <1>2. /\ DOMAIN y = (DOMAIN x \ {i}) \cup {n} /\ n \notin DOMAIN x
        /\ y[n] = x[i] /\ \A j \in DOMAIN x \ {i} : y[j] = x[j]
    BY <1>1, MapShape DEF Renamed, U!With, U!Without
  <1> HIDE DEF y
  <1>3. ASSUME NEW c \in Contents
        PROVE  Cardinality(At(y, c)) = Cardinality(At(x, c))
    <2>1. IsFiniteSet(At(x, c))
      <3>1. At(x, c) \subseteq DOMAIN x /\ IsFiniteSet(DOMAIN x)
        BY MapShape
      <3> QED BY <3>1, FS_Subset
    <2>2. CASE x[i] # c
      <3>1. At(y, c) = At(x, c)
        BY <1>1, <1>2, <2>2
      <3> QED BY <3>1
    <2>3. CASE x[i] = c
      <3> DEFINE rest == At(x, c) \ {i}
      <3>1. IsFiniteSet(rest) /\ Cardinality(rest) = Cardinality(At(x, c)) - 1
        BY <1>1, <2>1, <2>3, FS_RemoveElement
      <3>2. At(y, c) = rest \cup {n} /\ n \notin rest
        BY <1>1, <1>2, <2>3
      <3>3. Cardinality(rest \cup {n}) = Cardinality(rest) + 1
        BY <3>1, <3>2, FS_AddElement
      <3>4. Cardinality(At(x, c)) \in Nat
        BY <2>1, FS_CardinalityType
      <3>5. Cardinality(At(y, c)) = Cardinality(rest \cup {n})
        BY <3>2
      <3> HIDE DEF rest, At
      <3> QED BY <3>1, <3>3, <3>4, <3>5
    <2> QED BY <2>2, <2>3
  <1> QED BY <1>3, SameCardinality DEF U!Count

(***************************************************************************)
(* What pushing, popping, dropping and spoiling entries makes of a chain.      *)
(***************************************************************************)
LEMMA ChainOfDead ==
    ASSUME NEW n \in Nat, NEW st \in Seq(Entries), NEW x \in Maps(n), Dead(st)
    PROVE  HasChain(st, x, n)
  <1> DEFINE c == [k \in 1..(Len(st) + 1) |-> x]
  <1>1. Len(st) \in Nat /\ (Len(st) # 0 => st # <<>>)
    OBVIOUS
  <1>2. \A k \in 1..Len(st) : ~Live(st, k)
    BY <1>1 DEF Live, Dead
  <1>3. c \in [1..(Len(st) + 1) -> Maps(n)] /\ c[Len(st) + 1] = x
    BY <1>1
  <1>4. IsChain(c, st, x, n)
    BY <1>2, <1>3 DEF IsChain
  <1> QED BY <1>4 DEF HasChain

LEMMA ChainPush ==
    ASSUME NEW n \in Nat, NEW st \in Seq(Entries), NEW x \in Maps(n), NEW e \in Entries,
           Fits(x, e), e.before = {U!Count(Undone(x, e))}, HasChain(st, Undone(x, e), n)
    PROVE  HasChain(Append(st, e), x, n)
  <1> DEFINE m == Len(st)
             long == Append(st, e)
  <1>1. PICK c : IsChain(c, st, Undone(x, e), n)
    BY DEF HasChain
  <1> DEFINE d == [k \in 1..(m + 2) |-> IF k = m + 2 THEN x ELSE c[k]]
  <1>2. /\ m \in Nat /\ Len(long) = m + 1 /\ long[m + 1] = e
        /\ \A k \in 1..m : long[k] = st[k]
    OBVIOUS
  <1>3. c \in [1..(m + 1) -> Maps(n)] /\ c[m + 1] = Undone(x, e)
    BY <1>1 DEF IsChain
  <1>4. d \in [1..(m + 2) -> Maps(n)] /\ d[m + 2] = x /\ \A k \in 1..(m + 1) : d[k] = c[k]
    BY <1>2, <1>3
  <1> HIDE DEF d, m, long
  <1>5. ASSUME NEW k \in 1..(m + 1), Live(long, k)
        PROVE  ChainLink(d, long, k)
    <2>1. CASE k = m + 1
      BY <1>2, <1>3, <1>4, <2>1 DEF ChainLink
    <2>2. CASE k \in 1..m
      <3>1. Live(st, k)
        BY <1>2, <1>5, <2>2 DEF Live, m
      <3>2. ChainLink(c, st, k)
        BY <1>1, <2>2, <3>1 DEF IsChain, m
      <3>3. d[k] = c[k] /\ d[k + 1] = c[k + 1] /\ long[k] = st[k]
        BY <1>2, <1>4, <2>2
      <3> QED BY <3>2, <3>3 DEF ChainLink
    <2> QED BY <1>2, <2>1, <2>2
  <1>6. IsChain(d, long, x, n)
    BY <1>2, <1>4, <1>5 DEF IsChain
  <1> QED BY <1>6 DEF HasChain, long

LEMMA FrontShape ==
    ASSUME NEW st \in Seq(Entries), NEW m \in Nat, Len(st) = m + 1
    PROVE  /\ SubSeq(st, 1, m) \in Seq(Entries) /\ Len(SubSeq(st, 1, m)) = m
           /\ \A k \in 1..m : SubSeq(st, 1, m)[k] = st[k]
  <1>1. Len(SubSeq(st, 1, m)) = m
    OBVIOUS
  <1>2. \A k \in 1..m : SubSeq(st, 1, m)[k] = st[k]
    OBVIOUS
  <1>3. \A k \in 1..m : st[k] \in Entries
    OBVIOUS
  <1>4. SubSeq(st, 1, m) \in Seq(Entries)
    BY <1>3
  <1> QED BY <1>1, <1>2, <1>4

LEMMA ChainPop ==
    ASSUME NEW n \in Nat, NEW st \in Seq(Entries), NEW x \in Maps(n), HasChain(st, x, n),
           st # <<>>, st[Len(st)].before # {}
    PROVE  LET e == st[Len(st)]
           IN  /\ Fits(x, e) /\ Undone(x, e) \in Maps(n)
               /\ e.before = {U!Count(Undone(x, e))}
               /\ HasChain(SubSeq(st, 1, Len(st) - 1), Undone(x, e), n)
  <1> DEFINE m == Len(st) - 1
             e == st[Len(st)]
             short == SubSeq(st, 1, Len(st) - 1)
  <1>1. PICK c : IsChain(c, st, x, n)
    BY DEF HasChain
  <1>2. m \in Nat /\ Len(st) = m + 1 /\ Len(short) = m /\ \A k \in 1..m : short[k] = st[k]
    <2>1. Len(st) \in Nat \ {0}
      OBVIOUS
    <2>2. m \in Nat /\ Len(st) = m + 1 /\ m <= Len(st)
      BY <2>1
    <2>3. Len(short) = m /\ \A k \in 1..m : short[k] = st[k]
      BY <2>2, FrontShape
    <2> QED BY <2>2, <2>3
  <1>3. c \in [1..(m + 2) -> Maps(n)] /\ c[m + 2] = x
    BY <1>1, <1>2 DEF IsChain
  <1>4. Live(st, m + 1)
    BY <1>2 DEF Live
  <1>5. Fits(x, e) /\ c[m + 1] = Undone(x, e) /\ e.before = {U!Count(c[m + 1])}
    <2>1. ChainLink(c, st, m + 1)
      BY <1>1, <1>2, <1>4 DEF IsChain
    <2>2. st[m + 1] = e /\ (m + 1) + 1 = m + 2
      BY <1>2
    <2> HIDE DEF m, e
    <2> QED BY <1>3, <2>1, <2>2 DEF ChainLink
  <1>6. c[m + 1] \in Maps(n)
    BY <1>2, <1>3
  <1> DEFINE d == [k \in 1..(m + 1) |-> c[k]]
  <1>7. d \in [1..(m + 1) -> Maps(n)] /\ \A k \in 1..(m + 1) : d[k] = c[k]
    BY <1>2, <1>3
  <1> HIDE DEF d, m, e, short
  <1>8. ASSUME NEW k \in 1..m, Live(short, k)
        PROVE  ChainLink(d, short, k)
    <2>1. \A j \in k..(m + 1) : j = m + 1 \/ j \in k..m
      BY <1>2
    <2>2. Live(st, k)
      BY <1>2, <1>4, <1>8, <2>1 DEF Live
    <2>3. ChainLink(c, st, k)
      BY <1>1, <1>2, <2>2 DEF IsChain
    <2>4. d[k] = c[k] /\ d[k + 1] = c[k + 1] /\ short[k] = st[k]
      BY <1>2, <1>7
    <2> QED BY <2>3, <2>4 DEF ChainLink
  <1>9. IsChain(d, short, Undone(x, e), n)
    BY <1>2, <1>5, <1>7, <1>8 DEF IsChain
  <1>10. HasChain(short, Undone(x, e), n)
    BY <1>9 DEF HasChain
  <1> QED BY <1>5, <1>6, <1>10 DEF e, short

LEMMA ChainTail ==
    ASSUME NEW n \in Nat, NEW st \in Seq(Entries), NEW x \in Maps(n), HasChain(st, x, n),
           st # <<>>
    PROVE  HasChain(Tail(st), x, n)
  <1> DEFINE m == Len(st) - 1
             short == Tail(st)
  <1>1. PICK c : IsChain(c, st, x, n)
    BY DEF HasChain
  <1>2. m \in Nat /\ Len(st) = m + 1 /\ Len(short) = m /\ \A k \in 1..m : short[k] = st[k + 1]
    OBVIOUS
  <1>3. c \in [1..(m + 2) -> Maps(n)] /\ c[m + 2] = x
    BY <1>1, <1>2 DEF IsChain
  <1> DEFINE d == [k \in 1..(m + 1) |-> c[k + 1]]
  <1>4. /\ d \in [1..(m + 1) -> Maps(n)] /\ \A k \in 1..(m + 1) : d[k] = c[k + 1]
        /\ d[m + 1] = x
    BY <1>2, <1>3
  <1> HIDE DEF d, m, short
  <1>5. ASSUME NEW k \in 1..m, Live(short, k)
        PROVE  ChainLink(d, short, k)
    <2>1. Live(st, k + 1)
      <3>1. ASSUME NEW j \in (k + 1)..(m + 1) PROVE st[j].before # {}
        <4>1. j - 1 \in k..m /\ (j - 1) + 1 = j /\ j - 1 \in 1..m
          BY <1>2
        <4>2. short[j - 1] = st[j]
          BY <1>2, <4>1
        <4> QED BY <1>2, <1>5, <4>1, <4>2 DEF Live
      <3> QED BY <1>2, <3>1 DEF Live
    <2>2. ChainLink(c, st, k + 1)
      BY <1>1, <1>2, <2>1 DEF IsChain
    <2>3. d[k] = c[k + 1] /\ d[k + 1] = c[(k + 1) + 1] /\ short[k] = st[k + 1]
      BY <1>2, <1>4
    <2> QED BY <2>2, <2>3 DEF ChainLink
  <1>6. IsChain(d, short, x, n)
    BY <1>2, <1>4, <1>5 DEF IsChain
  <1> QED BY <1>6 DEF HasChain, short

\* Void entries in place of others only make the chain shorter.
LEMMA ChainSpoiled ==
    ASSUME NEW n \in Nat, NEW st \in Seq(Entries), NEW x \in Maps(n), HasChain(st, x, n),
           NEW su \in Seq(Entries), Len(su) = Len(st),
           \A k \in 1..Len(st) : su[k] = st[k] \/ su[k].before = {}
    PROVE  HasChain(su, x, n)
  <1>1. PICK c : IsChain(c, st, x, n)
    BY DEF HasChain
  <1>2. ASSUME NEW k \in 1..Len(st), Live(su, k)
        PROVE  ChainLink(c, su, k)
    <2>1. Len(st) \in Nat /\ \A j \in k..Len(st) : j \in 1..Len(st)
      OBVIOUS
    <2>2. \A j \in k..Len(st) : su[j] = st[j] /\ su[j].before # {}
      BY <1>2, <2>1 DEF Live
    <2>3. Live(st, k) /\ su[k] = st[k]
      BY <2>1, <2>2 DEF Live
    <2>4. ChainLink(c, st, k)
      BY <1>1, <2>3 DEF IsChain
    <2> QED BY <2>3, <2>4 DEF ChainLink
  <1>3. IsChain(c, su, x, n)
    BY <1>1, <1>2 DEF IsChain
  <1> QED BY <1>3 DEF HasChain

LEMMA ChainGrows ==
    ASSUME NEW n \in Nat, NEW st \in Seq(Entries), NEW x \in Maps(n), HasChain(st, x, n)
    PROVE  HasChain(st, x, n + 1)
  <1>1. PICK c : IsChain(c, st, x, n)
    BY DEF HasChain
  <1>2. c \in [1..(Len(st) + 1) -> Maps(n + 1)]
    BY <1>1, MapGrows DEF IsChain
  <1>3. IsChain(c, st, x, n + 1)
    BY <1>1, <1>2 DEF IsChain
  <1> QED BY <1>3 DEF HasChain

\* Undoing what has to do with another event is the same under another ID.
LEMMA UndoneRenamed ==
    ASSUME NEW n \in Nat, NEW x \in Maps(n), NEW e, e.id < n, e.id \in Nat, NEW i, e.id # i
    PROVE  Renamed(Undone(x, e), i, n) = Undone(Renamed(x, i, n), e)
  <1> DEFINE j == e.id
  <1>1. n \notin DOMAIN x /\ j # n /\ j # i
    BY MapShape
  <1> HIDE DEF j
  <1>2. CASE i \in DOMAIN x
    <2>1. Renamed(U!Without(x, j), i, n) = U!Without(Renamed(x, i, n), j)
      BY <1>1, <1>2 DEF Renamed, U!With, U!Without
    <2>2. \A c : Renamed(U!With(x, j, c), i, n) = U!With(Renamed(x, i, n), j, c)
      BY <1>1, <1>2 DEF Renamed, U!With, U!Without
    <2> QED BY <2>1, <2>2 DEF Undone, j
  <1>3. CASE i \notin DOMAIN x
    BY <1>1, <1>3 DEF Undone, Renamed, U!With, U!Without, j
  <1> QED BY <1>2, <1>3

\* An event comes back under a new ID, and what was to be done to the old one is void.
LEMMA ChainRenamed ==
    ASSUME NEW n \in Nat \ {0}, NEW st \in Seq(Entries), NEW x \in Maps(n),
           HasChain(st, x, n), \A k \in 1..Len(st) : st[k].id < n,
           NEW i, NEW su \in Seq(Entries), Len(su) = Len(st),
           \A k \in 1..Len(st) : \/ su[k].before = {}
                                 \/ su[k] = st[k] /\ st[k].id # i
    PROVE  HasChain(su, Renamed(x, i, n), n + 1)
  <1>1. PICK c : IsChain(c, st, x, n)
    BY DEF HasChain
  <1> DEFINE m == Len(st)
             d == [k \in 1..(m + 1) |-> Renamed(c[k], i, n)]
  <1>2. m \in Nat /\ c \in [1..(m + 1) -> Maps(n)] /\ c[m + 1] = x
    BY <1>1 DEF IsChain
  <1>3. /\ d \in [1..(m + 1) -> Maps(n + 1)] /\ d[m + 1] = Renamed(x, i, n)
        /\ \A k \in 1..(m + 1) : d[k] = Renamed(c[k], i, n)
    BY <1>2, RenamedMap
  <1> HIDE DEF d
  <1>4. ASSUME NEW k \in 1..m, Live(su, k)
        PROVE  ChainLink(d, su, k)
    <2>1. \A j \in k..m : j \in 1..m
      BY <1>2
    <2>2. \A j \in k..m : su[j] = st[j] /\ su[j].before # {} /\ st[j].id # i
      BY <1>4, <2>1 DEF Live
    <2>3. Live(st, k) /\ su[k] = st[k] /\ st[k].id # i /\ st[k].id < n
      BY <1>2, <2>1, <2>2 DEF Live
    <2>4. ChainLink(c, st, k)
      BY <1>1, <2>3 DEF IsChain
    <2> DEFINE e == st[k]
               y == c[k + 1]
    <2>5. y \in Maps(n) /\ d[k + 1] = Renamed(y, i, n) /\ c[k] \in Maps(n)
      <3>1. k \in 1..(m + 1) /\ k + 1 \in 1..(m + 1)
        BY <1>2
      <3> HIDE DEF m
      <3> QED BY <1>2, <1>3, <3>1
    <2>6. e \in Entries
      OBVIOUS
    <2>7. Fits(y, e) /\ c[k] = Undone(y, e) /\ e.before = {U!Count(c[k])}
      BY <2>4 DEF ChainLink
    <2>8. e.id # i /\ e.id < n /\ e.id \in Nat
      BY <2>3, <2>6 DEF Entries
    <2>9. d[k] = Renamed(c[k], i, n)
      BY <1>3
    <2> HIDE DEF e, y
    <2>10. DOMAIN y \subseteq 1..(n - 1)
      BY <2>5, MapShape
    <2>11. Fits(Renamed(y, i, n), e)
      BY <2>7, <2>8, <2>10 DEF Fits, Renamed, U!With, U!Without
    <2>12. Renamed(Undone(y, e), i, n) = Undone(Renamed(y, i, n), e)
      BY <2>5, <2>7, <2>8, UndoneRenamed
    <2>13. U!Count(Renamed(c[k], i, n)) = U!Count(c[k])
      BY <2>5, CountRenamed
    <2> QED BY <2>3, <2>5, <2>7, <2>9, <2>11, <2>12, <2>13 DEF ChainLink, e
  <1>5. IsChain(d, su, Renamed(x, i, n), n + 1)
    BY <1>3, <1>4 DEF IsChain
  <1> QED BY <1>5 DEF HasChain

(***************************************************************************)
(* The types, and how the entries and calls are spoiled and pushed.            *)
(***************************************************************************)
Calls == [kind : EntryActions, id : Nat, content : Contents, entry : Entries,
          undoing : BOOLEAN, act : Nat, state : {"sent", "served"}]

Creating(cs) == {r \in cs : r.kind = "create" /\ r.state = "sent"}

UndoTypes ==
    /\ nextID \in Nat /\ nextID >= 2 /\ acts \in 0..MaxActs
    /\ events \in Maps(nextID) /\ view \in Maps(nextID)
    /\ stack \in Seq(Entries) /\ Len(stack) <= MaxStack
    /\ \A k \in 1..Len(stack) : stack[k].id < nextID
    /\ calls \subseteq Calls /\ IsFiniteSet(calls) /\ Cardinality(calls) <= MaxCalls
    /\ \A r \in calls : r.id < nextID /\ r.entry.id < nextID /\ r.act < acts
    /\ nextID + Cardinality(Creating(calls)) <= acts + 2

\* Requests are told apart by their acts, and those of a hurry are all void.
UndoCalls == \A r, q \in calls : r # q => r.act # q.act /\ r.entry.before = {}

\* The fields of entries and calls.
LEMMA EntryShape ==
    ASSUME NEW e \in Entries
    PROVE  /\ e.action \in EntryActions /\ e.id \in Nat /\ e.old \in Contents
           /\ e.before \in Befores
  BY DEF Entries

LEMMA EntryIntro ==
    ASSUME NEW a \in EntryActions, NEW i \in Nat, NEW c \in Contents, NEW b \in Befores
    PROVE  [action |-> a, id |-> i, old |-> c, before |-> b] \in Entries
  BY DEF Entries

LEMMA SpoiledEntry ==
    ASSUME NEW e \in Entries
    PROVE  /\ U!Spoiled(e) \in Entries /\ U!Spoiled(e).before = {}
           /\ U!Spoiled(e).action = e.action /\ U!Spoiled(e).id = e.id
           /\ U!Spoiled(e).old = e.old
  <1>1. {} \in Befores
    BY DEF Befores
  <1> QED BY <1>1 DEF U!Spoiled, U!Void, Entries

LEMMA CallShape ==
    ASSUME NEW r \in Calls
    PROVE  /\ r.kind \in EntryActions /\ r.id \in Nat /\ r.content \in Contents
           /\ r.entry \in Entries /\ r.undoing \in BOOLEAN /\ r.act \in Nat
           /\ r.state \in {"sent", "served"}
  BY DEF Calls

LEMMA SpoiledOfStack ==
    ASSUME NEW st \in Seq(Entries)
    PROVE  LET su == U!SpoiledStack(st)
           IN  /\ su \in Seq(Entries) /\ Len(su) = Len(st) /\ Dead(su)
               /\ \A k \in 1..Len(st) : su[k].before = {} /\ su[k].id = st[k].id
  <1> DEFINE su == U!SpoiledStack(st)
  <1>1. su = [k \in 1..Len(st) |-> U!Spoiled(st[k])]
    BY DEF U!SpoiledStack
  <1>2. \A k \in 1..Len(st) : st[k] \in Entries
    OBVIOUS
  <1>3. \A k \in 1..Len(st) : /\ U!Spoiled(st[k]) \in Entries
                              /\ U!Spoiled(st[k]).before = {}
                              /\ U!Spoiled(st[k]).id = st[k].id
    BY <1>2, SpoiledEntry
  <1>4. Len(st) \in Nat
    OBVIOUS
  <1>5. su \in Seq(Entries) /\ Len(su) = Len(st)
    BY <1>1, <1>3, <1>4
  <1> HIDE DEF su
  <1>6. \A k \in 1..Len(st) : su[k].before = {} /\ su[k].id = st[k].id
    BY <1>1, <1>3
  <1>7. Dead(su)
    BY <1>4, <1>5, <1>6 DEF Dead
  <1> QED BY <1>5, <1>6, <1>7 DEF su

LEMMA Pushing ==
    ASSUME NEW st \in Seq(Entries), Len(st) <= MaxStack, NEW e \in Entries
    PROVE  LET su == U!Pushed(st, e)
           IN  /\ su \in Seq(Entries) /\ Len(su) <= MaxStack /\ su # <<>>
               /\ su[Len(su)] = e
               /\ \A k \in 1..Len(su) : su[k] = e \/ \E j \in 1..Len(st) : su[k] = st[j]
               /\ \A n \in Nat : \A x \in Maps(n) :
                     HasChain(Append(st, e), x, n) => HasChain(su, x, n)
  <1> DEFINE long == Append(st, e)
  <1>1. MaxStack \in Nat /\ MaxStack >= 1
    BY UndoAssumption DEF U!UndoAssumption
  <1>2. /\ long \in Seq(Entries) /\ Len(long) = Len(st) + 1 /\ Len(st) \in Nat /\ long # <<>>
        /\ long[Len(st) + 1] = e /\ \A k \in 1..Len(st) : long[k] = st[k]
    OBVIOUS
  <1> HIDE DEF long
  <1>3. CASE Len(st) < MaxStack
    <2>1. U!Pushed(st, e) = long
      BY <1>3 DEF U!Pushed, long
    <2>2. \A k \in 1..Len(long) : long[k] = e \/ \E j \in 1..Len(st) : long[k] = st[j]
      BY <1>2
    <2>3. Len(long) <= MaxStack
      BY <1>1, <1>2, <1>3
    <2> QED BY <1>2, <2>1, <2>2, <2>3 DEF long
  <1>4. CASE ~(Len(st) < MaxStack)
    <2> DEFINE short == Tail(long)
    <2>1. U!Pushed(st, e) = short
      BY <1>4 DEF U!Pushed, long
    <2>2. /\ short \in Seq(Entries) /\ Len(short) = Len(st)
          /\ \A k \in 1..Len(short) : short[k] = long[k + 1]
      BY <1>2
    <2>3. Len(st) = MaxStack
      BY <1>1, <1>2, <1>4
    <2> HIDE DEF short
    <2>4. short # <<>> /\ short[Len(short)] = e
      BY <1>1, <1>2, <2>2, <2>3
    <2>5. \A k \in 1..Len(short) : short[k] = e \/ \E j \in 1..Len(st) : short[k] = st[j]
      <3>1. ASSUME NEW k \in 1..Len(short)
            PROVE  short[k] = e \/ \E j \in 1..Len(st) : short[k] = st[j]
        <4>1. CASE k = Len(st)
          BY <1>2, <2>2, <4>1
        <4>2. CASE k # Len(st)
          <5>1. k + 1 \in 1..Len(st)
            BY <1>2, <2>2, <4>2
          <5> QED BY <1>2, <2>2, <5>1
        <4> QED BY <4>1, <4>2
      <3> QED BY <3>1
    <2>6. \A n \in Nat : \A x \in Maps(n) : HasChain(long, x, n) => HasChain(short, x, n)
      BY <1>2, ChainTail DEF short
    <2> QED BY <2>1, <2>2, <2>3, <2>4, <2>5, <2>6 DEF long
  <1> QED BY <1>3, <1>4

\* The requests under way after others, or a hurry, have spoiled them.
LEMMA SpoiledOfCalls ==
    ASSUME UndoTypes, UndoCalls
    PROVE  LET cs == U!SpoiledCalls
           IN  /\ cs \subseteq Calls /\ IsFiniteSet(cs)
               /\ Cardinality(cs) <= Cardinality(calls)
               /\ Cardinality(Creating(cs)) <= Cardinality(Creating(calls))
               /\ \A r \in cs : /\ r.entry.before = {} /\ r.act < acts
                                /\ r.id < nextID /\ r.entry.id < nextID
               /\ \A r \in calls : \E s \in cs : s.act = r.act /\ s.state = r.state
               /\ \A s \in cs : \E r \in calls : s.act = r.act /\ s.state = r.state
               /\ \A r, q \in cs : r # q => r.act # q.act
  <1> DEFINE F(r) == [r EXCEPT !.entry = U!Spoiled(@)]
             cs == U!SpoiledCalls
  <1>1. cs = {F(r) : r \in calls}
    BY DEF U!SpoiledCalls
  <1>2. ASSUME NEW r \in calls
        PROVE  /\ F(r) \in Calls /\ F(r).entry.before = {} /\ F(r).entry.id = r.entry.id
               /\ F(r).act = r.act /\ F(r).id = r.id
               /\ F(r).kind = r.kind /\ F(r).state = r.state
    <2>1. r \in Calls /\ r.entry \in Entries
      BY CallShape DEF UndoTypes
    <2> DEFINE s == U!Spoiled(r.entry)
    <2>2. s \in Entries /\ s.before = {} /\ s.id = r.entry.id
      BY <2>1, SpoiledEntry
    <2>3. F(r) = [r EXCEPT !.entry = s]
      OBVIOUS
    <2> HIDE DEF s
    <2>4. F(r) \in Calls /\ F(r).entry = s /\ F(r).act = r.act /\ F(r).id = r.id
          /\ F(r).kind = r.kind /\ F(r).state = r.state
      BY <2>1, <2>2, <2>3 DEF Calls
    <2> QED BY <2>2, <2>4
  <1> HIDE DEF F
  <1>3. cs \subseteq Calls
    BY <1>1, <1>2
  <1>4. \A r \in cs : /\ r.entry.before = {} /\ r.act < acts
                      /\ r.id < nextID /\ r.entry.id < nextID
    BY <1>1, <1>2 DEF UndoTypes
  <1>5. \A r, q \in cs : r # q => r.act # q.act
    BY <1>1, <1>2 DEF UndoCalls
  <1>6. /\ \A r \in calls : \E s \in cs : s.act = r.act /\ s.state = r.state
        /\ \A s \in cs : \E r \in calls : s.act = r.act /\ s.state = r.state
    BY <1>1, <1>2
  <1>7. IsFiniteSet(cs) /\ Cardinality(cs) <= Cardinality(calls)
    <2> DEFINE g == [r \in calls |-> F(r)]
    <2>1. g \in Surjection(calls, cs)
      BY <1>1 DEF Surjection
    <2>2. IsFiniteSet(calls)
      BY DEF UndoTypes
    <2> QED BY <2>1, <2>2, FS_Surjection
  <1>8. Cardinality(Creating(cs)) <= Cardinality(Creating(calls))
    <2> DEFINE g == [r \in Creating(calls) |-> F(r)]
    <2>1. g \in Surjection(Creating(calls), Creating(cs))
      BY <1>1, <1>2 DEF Surjection, Creating
    <2>2. IsFiniteSet(Creating(calls))
      <3>1. Creating(calls) \subseteq calls /\ IsFiniteSet(calls)
        BY DEF Creating, UndoTypes
      <3> QED BY <3>1, FS_Subset
    <2> QED BY <2>1, <2>2, FS_Surjection
  <1> QED BY <1>3, <1>4, <1>5, <1>6, <1>7, <1>8

(***************************************************************************)
(* The invariant: what can be expected of each request under way, of the stack *)
(* `st', the events `x' and the next ID `n'.                                   *)
(***************************************************************************)
\* An entry that is not, or no longer, on the stack leads from the events to those
\* the stack leads on from.
Linked(e, st, x, n) == /\ Fits(x, e)
                       /\ e.before = {U!Count(Undone(x, e))}
                       /\ HasChain(st, Undone(x, e), n)

\* What a request that changes or deletes an event will make of the events.
Done(x, r) == IF r.kind = "update" THEN U!With(x, r.id, r.content) ELSE U!Without(x, r.id)

WaitsToUndo(r, st, x, n) ==
    IF r.state = "served" THEN HasChain(st, x, n)
    ELSE /\ r.id = r.entry.id /\ r.content = r.entry.old
         /\ r.kind = U!Opposite[r.entry.action]
         /\ Linked(r.entry, st, x, n)

WaitsToCreate(r, st, x, n) ==
    /\ r.entry.action = "create"
    /\ IF r.state = "served" THEN Linked([r.entry EXCEPT !.id = r.id], st, x, n)
       ELSE r.entry.before = {U!Count(x)} /\ HasChain(st, x, n)

\* A change that fails leaves an entry which undoes nothing, a deletion a void one.
WaitsToChange(r, st, x, n) ==
    IF r.state = "served" THEN HasChain(st, x, n)
    ELSE /\ r.id \in DOMAIN x
         /\ HasChain(st, Done(x, r), n)
         /\ r.kind = "update" => HasChain(st, x, n)
         /\ r.kind = "delete" => \/ Dead(st)
                                 \/ U!Deletes(st[Len(st)], r.id)

Waits(r, st, x, n) == /\ r.undoing => WaitsToUndo(r, st, x, n)
                      /\ ~r.undoing /\ r.kind = "create" => WaitsToCreate(r, st, x, n)
                      /\ ~r.undoing /\ r.kind # "create" => WaitsToChange(r, st, x, n)

\* While an undoing that is void waits to be served, nothing is known of the stack:
\* whatever becomes of it spoils the stack.
Leads(cs, st, x, n) ==
    /\ cs = {} => HasChain(st, x, n)
    /\ \A r \in cs : r.entry.before # {} => Waits(r, st, x, n)
    /\ (cs # {} /\ \A r \in cs : r.entry.before = {})
       => Dead(st) \/ \E r \in cs : r.undoing /\ r.state = "sent"

UndoInv == UndoTypes /\ UndoCalls /\ Leads(calls, stack, events, nextID)

LEMMA DeadLeads ==
    ASSUME NEW cs, NEW n \in Nat, NEW st \in Seq(Entries), NEW x \in Maps(n),
           \A r \in cs : r.entry.before = {}, Dead(st)
    PROVE  Leads(cs, st, x, n)
  BY ChainOfDead DEF Leads

LEMMA ChainEnd ==
    ASSUME NEW n \in Nat, NEW st \in Seq(Entries), NEW x, HasChain(st, x, n)
    PROVE  x \in Maps(n)
  <1>1. PICK c : IsChain(c, st, x, n)
    BY DEF HasChain
  <1>2. Len(st) + 1 \in 1..(Len(st) + 1)
    OBVIOUS
  <1> QED BY <1>1, <1>2 DEF IsChain

LEMMA DeadWaits ==
    ASSUME NEW n \in Nat, NEW st \in Seq(Entries), NEW x \in Maps(n), NEW r,
           Waits(r, st, x, n), NEW su \in Seq(Entries), Dead(su)
    PROVE  Waits(r, su, x, n)
  <1>1. \A y : HasChain(st, y, n) => HasChain(su, y, n)
    BY ChainEnd, ChainOfDead
  <1>2. \A e : Linked(e, st, x, n) => Linked(e, su, x, n)
    BY <1>1 DEF Linked
  <1>3. WaitsToUndo(r, st, x, n) => WaitsToUndo(r, su, x, n)
    BY <1>1, <1>2, Zenon DEF WaitsToUndo
  <1>4. WaitsToCreate(r, st, x, n) => WaitsToCreate(r, su, x, n)
    BY <1>1, <1>2, Zenon DEF WaitsToCreate
  <1>5. WaitsToChange(r, st, x, n) => WaitsToChange(r, su, x, n)
    BY <1>1, Zenon DEF WaitsToChange
  <1> QED BY <1>3, <1>4, <1>5, Zenon DEF Waits

IsRequest(q, k, i, c, e) == /\ q \in Calls /\ q.kind = k /\ q.id = i /\ q.content = c
                            /\ q.entry = e /\ q.act = acts /\ q.state = "sent"

LEMMA RequestShape ==
    ASSUME UndoTypes, NEW k \in EntryActions, NEW i \in Nat, NEW c \in Contents,
           NEW e \in Entries
    PROVE  /\ IsRequest(U!Request(k, i, c, e, TRUE), k, i, c, e)
           /\ U!Request(k, i, c, e, TRUE).undoing
           /\ IsRequest(U!Request(k, i, c, e, FALSE), k, i, c, e)
           /\ ~U!Request(k, i, c, e, FALSE).undoing
  <1>1. acts \in Nat
    BY UndoAssumption DEF UndoTypes, U!UndoAssumption
  <1>2. ASSUME NEW u \in BOOLEAN
        PROVE  IsRequest(U!Request(k, i, c, e, u), k, i, c, e)
    BY <1>1 DEF U!Request, Calls, IsRequest
  <1>3. U!Request(k, i, c, e, TRUE).undoing
    BY DEF U!Request
  <1>4. ~U!Request(k, i, c, e, FALSE).undoing
    BY DEF U!Request
  <1> QED BY <1>2, <1>3, <1>4

LEMMA OneMore ==
    ASSUME NEW D, IsFiniteSet(D), NEW a
    PROVE  /\ IsFiniteSet(D \cup {a}) /\ Cardinality(D) \in Nat /\ Cardinality(D \cup {a}) \in Nat
           /\ Cardinality(D \cup {a}) <= Cardinality(D) + 1
  <1>1. Cardinality(D) \in Nat
    BY FS_CardinalityType
  <1>2. /\ IsFiniteSet(D \cup {a})
        /\ Cardinality(D \cup {a}) = IF a \in D THEN Cardinality(D) ELSE Cardinality(D) + 1
    BY FS_AddElement
  <1> QED BY <1>1, <1>2

\* What sending a request does.
LEMMA SendsEffect ==
    ASSUME UndoTypes, UndoCalls, NEW q \in Calls, q.act = acts, q.state = "sent",
           q.id < nextID, q.entry.id < nextID,
           NEW st \in Seq(Entries), Len(st) <= MaxStack, \A k \in 1..Len(st) : st[k].id < nextID,
           NEW now \in BOOLEAN, U!Sends(q, st, now), U!Acts,
           UNCHANGED <<events, nextID, view>>
    PROVE  /\ UndoTypes' /\ UndoCalls'
           /\ calls = {} => /\ calls' = {q}
                            /\ stack' = IF now THEN U!Pushed(st, q.entry) ELSE st
           /\ calls # {} => Leads(calls', stack', events', nextID')
           /\ \A r \in calls' : r.act = acts \/ \E s \in calls : s.act = r.act /\ s.state = r.state
           /\ \A r \in calls' : r.act = acts => r.state = "sent"
  <1> DEFINE r == IF calls # {} THEN [q EXCEPT !.entry = U!Spoiled(@)] ELSE q
             kept == IF calls # {} THEN U!SpoiledStack(st) ELSE st
             cs == U!SpoiledCalls
  <1>1. /\ Cardinality(calls) < MaxCalls
        /\ calls' = cs \cup {r}
        /\ stack' = IF now THEN U!Pushed(kept, r.entry) ELSE kept
    BY SameCardinality DEF U!Sends, U!Hasty
  <1>2. acts' = acts + 1 /\ acts' \in 0..MaxActs /\ acts \in Nat
    BY UndoAssumption DEF U!Acts, UndoTypes, U!UndoAssumption
  <1>3. /\ r \in Calls /\ r.act = acts /\ r.state = "sent" /\ r.kind = q.kind
        /\ r.id = q.id /\ r.entry \in Entries /\ r.entry.id = q.entry.id
        /\ calls # {} => r.entry.before = {}
    <2>1. q.entry \in Entries
      BY CallShape
    <2> DEFINE e == U!Spoiled(q.entry)
    <2>2. e \in Entries /\ e.before = {} /\ e.id = q.entry.id
      BY <2>1, SpoiledEntry
    <2>3. [q EXCEPT !.entry = U!Spoiled(@)] = [q EXCEPT !.entry = e]
      OBVIOUS
    <2> HIDE DEF e
    <2>4. /\ [q EXCEPT !.entry = e] \in Calls /\ [q EXCEPT !.entry = e].act = acts
          /\ [q EXCEPT !.entry = e].state = "sent" /\ [q EXCEPT !.entry = e].kind = q.kind
          /\ [q EXCEPT !.entry = e].id = q.id /\ [q EXCEPT !.entry = e].entry = e
      BY <2>2 DEF Calls
    <2> QED BY <2>1, <2>2, <2>3, <2>4
  <1>4. /\ kept \in Seq(Entries) /\ Len(kept) <= MaxStack
        /\ \A k \in 1..Len(kept) : kept[k].id < nextID
        /\ calls # {} => Dead(kept)
    BY SpoiledOfStack
  <1>5. /\ cs \subseteq Calls /\ IsFiniteSet(cs)
        /\ Cardinality(cs) <= Cardinality(calls)
        /\ Cardinality(Creating(cs)) <= Cardinality(Creating(calls))
        /\ \A s \in cs : /\ s.entry.before = {} /\ s.act < acts
                         /\ s.id < nextID /\ s.entry.id < nextID
        /\ \A s \in cs : \E t \in calls : s.act = t.act /\ s.state = t.state
        /\ \A s, t \in cs : s # t => s.act # t.act
    BY SpoiledOfCalls
  <1>6. calls = {} => cs = {} /\ r = q /\ kept = st
    BY <1>5
  <1> HIDE DEF r, kept, cs
  <1>7. /\ stack' \in Seq(Entries) /\ Len(stack') <= MaxStack
        /\ \A k \in 1..Len(stack') : stack'[k].id < nextID
        /\ calls # {} => Dead(stack')
    <2>1. CASE now
      <3> DEFINE su == U!Pushed(kept, r.entry)
      <3>1. stack' = su
        BY <1>1, <2>1
      <3>2. /\ su \in Seq(Entries) /\ Len(su) <= MaxStack /\ su # <<>>
            /\ su[Len(su)] = r.entry
            /\ \A k \in 1..Len(su) : su[k] = r.entry \/ \E j \in 1..Len(kept) : su[k] = kept[j]
        BY <1>3, <1>4, Pushing
      <3> HIDE DEF su
      <3>3. \A k \in 1..Len(su) : su[k].id < nextID
        BY <1>3, <1>4, <3>2
      <3>4. calls # {} => Dead(su)
        BY <1>3, <3>2 DEF Dead
      <3> QED BY <3>1, <3>2, <3>3, <3>4
    <2>2. CASE ~now
      BY <1>1, <1>4, <2>2
    <2> QED BY <2>1, <2>2
  <1>8. /\ IsFiniteSet(calls') /\ Cardinality(calls') <= MaxCalls
        /\ nextID + Cardinality(Creating(calls')) <= acts' + 2
    <2>1. IsFiniteSet(cs \cup {r}) /\ Cardinality(cs \cup {r}) <= Cardinality(cs) + 1
      BY <1>5, OneMore
    <2>2. IsFiniteSet(Creating(cs)) /\ IsFiniteSet(Creating(calls))
      <3>1. Creating(cs) \subseteq cs /\ Creating(calls) \subseteq calls /\ IsFiniteSet(calls)
        BY DEF Creating, UndoTypes
      <3> QED BY <1>5, <3>1, FS_Subset
    <2>3. Creating(cs \cup {r}) = Creating(cs) \/ Creating(cs \cup {r}) = Creating(cs) \cup {r}
      BY DEF Creating
    <2>4. Cardinality(Creating(cs \cup {r})) <= Cardinality(Creating(cs)) + 1
      <3>1. /\ Cardinality(Creating(cs) \cup {r}) <= Cardinality(Creating(cs)) + 1
            /\ Cardinality(Creating(cs)) \in Nat
        BY <2>2, OneMore
      <3>2. CASE Creating(cs \cup {r}) = Creating(cs)
        BY <3>1, <3>2
      <3>3. CASE Creating(cs \cup {r}) = Creating(cs) \cup {r}
        BY <3>1, <3>3
      <3> QED BY <2>3, <3>2, <3>3
    <2>5. /\ Cardinality(cs) \in Nat /\ Cardinality(calls) \in Nat /\ MaxCalls \in Nat
          /\ Cardinality(cs \cup {r}) \in Nat /\ Cardinality(Creating(cs \cup {r})) \in Nat
          /\ Cardinality(Creating(cs)) \in Nat /\ Cardinality(Creating(calls)) \in Nat
          /\ nextID \in Nat /\ nextID + Cardinality(Creating(calls)) <= acts + 2
      <3>1. IsFiniteSet(Creating(cs \cup {r}))
        BY <2>2, <2>3, FS_AddElement
      <3> QED BY <1>5, <2>1, <2>2, <3>1, FS_CardinalityType, UndoAssumption
              DEF UndoTypes, U!UndoAssumption
    <2> HIDE DEF Creating
    <2> QED BY <1>1, <1>2, <1>5, <2>1, <2>4, <2>5
  <1>9. calls' \subseteq Calls /\ \A s \in calls' : s.id < nextID /\ s.entry.id < nextID /\ s.act < acts'
    BY <1>1, <1>2, <1>3, <1>5, CallShape
  <1>10. UndoTypes'
    BY <1>2, <1>7, <1>8, <1>9 DEF UndoTypes
  <1>11. UndoCalls'
    BY <1>1, <1>3, <1>5, <1>6, CallShape DEF UndoCalls
  <1>12. calls # {} => Leads(calls', stack', events', nextID')
    BY <1>1, <1>3, <1>5, <1>7, <1>10, DeadLeads DEF UndoTypes
  <1>13. calls = {} => /\ calls' = {q}
                       /\ stack' = IF now THEN U!Pushed(st, q.entry) ELSE st
    BY <1>1, <1>6
  <1>14. /\ \A s \in calls' : s.act = acts \/ \E t \in calls : t.act = s.act /\ t.state = s.state
         /\ \A s \in calls' : s.act = acts => s.state = "sent"
    BY <1>1, <1>2, <1>3, <1>5, CallShape
  <1> QED BY <1>10, <1>11, <1>12, <1>13, <1>14

(***************************************************************************)
(* The steps of the tab.                                                      *)
(***************************************************************************)
LEMMA EntryOf ==
    ASSUME UndoTypes, NEW a \in EntryActions, NEW i \in Nat, NEW c \in Contents
    PROVE  /\ U!Entry(a, i, c) \in Entries /\ U!Entry(a, i, c).action = a
           /\ U!Entry(a, i, c).id = i /\ U!Entry(a, i, c).old = c
           /\ U!Entry(a, i, c).before = {U!Count(events)}
  <1>1. {U!Count(events)} \in Befores
    BY CountType DEF UndoTypes, Befores
  <1>2. U!Entry(a, i, c) = [action |-> a, id |-> i, old |-> c, before |-> {U!Count(events)}]
    BY DEF U!Entry
  <1>3. [action |-> a, id |-> i, old |-> c, before |-> {U!Count(events)}] \in Entries
    BY <1>1, EntryIntro
  <1> QED BY <1>2, <1>3

LEMMA UndoCreate ==
    ASSUME UndoInv, NEW c \in Contents, U!Create(c)
    PROVE  UndoInv'
  <1> DEFINE e == U!Entry("create", 0, c)
             q == U!Request("create", 0, c, e, FALSE)
  <1>1. /\ UndoTypes /\ UndoCalls /\ Leads(calls, stack, events, nextID)
        /\ stack \in Seq(Entries) /\ Len(stack) <= MaxStack
        /\ \A k \in 1..Len(stack) : stack[k].id < nextID
        /\ nextID \in Nat /\ 0 < nextID /\ events \in Maps(nextID)
    BY DEF UndoInv, UndoTypes
  <1>2. U!Sends(q, stack, FALSE) /\ U!Acts /\ UNCHANGED <<events, nextID, view>>
    BY DEF U!Create
  <1>3. e \in Entries /\ e.action = "create" /\ e.id = 0 /\ e.before = {U!Count(events)}
    <2>1. "create" \in EntryActions /\ 0 \in Nat
      BY DEF EntryActions
    <2>2. UndoTypes
      BY <1>1
    <2> QED BY <2>1, <2>2, EntryOf
  <1> HIDE DEF e
  <1>4. /\ q \in Calls /\ q.kind = "create" /\ q.id = 0 /\ q.entry = e
        /\ ~q.undoing /\ q.act = acts /\ q.state = "sent"
    <2>1. "create" \in EntryActions /\ 0 \in Nat
      BY DEF EntryActions
    <2>2. IsRequest(q, "create", 0, c, e) /\ ~q.undoing
      BY <1>1, <1>3, <2>1, RequestShape, Zenon
    <2> HIDE DEF q
    <2> QED BY <2>2, Zenon DEF IsRequest
  <1> HIDE DEF q
  <1>5. /\ UndoTypes' /\ UndoCalls'
        /\ calls = {} => calls' = {q} /\ stack' = stack
        /\ calls # {} => Leads(calls', stack', events', nextID')
    BY <1>1, <1>2, <1>3, <1>4, SendsEffect
  <1>6. CASE calls = {}
    <2>1. HasChain(stack, events, nextID)
      BY <1>1, <1>6 DEF Leads
    <2>2. WaitsToCreate(q, stack, events, nextID)
      BY <1>3, <1>4, <2>1 DEF WaitsToCreate
    <2>3. Waits(q, stack, events, nextID)
      BY <1>4, <2>2 DEF Waits
    <2>4. q.entry.before # {}
      BY <1>3, <1>4
    <2>5. Leads({q}, stack, events, nextID)
      BY <2>3, <2>4, Zenon DEF Leads
    <2>6. calls' = {q} /\ stack' = stack /\ events' = events /\ nextID' = nextID
      BY <1>2, <1>5, <1>6
    <2> QED BY <1>5, <2>5, <2>6 DEF UndoInv
  <1>7. CASE calls # {}
    BY <1>5, <1>7 DEF UndoInv
  <1> QED BY <1>6, <1>7

LEMMA UndoChange ==
    ASSUME UndoInv, NEW i \in DOMAIN view, NEW k \in {"update", "delete"}, NEW c \in Contents,
           U!Acts, U!Sends(U!Request(k, i, c, U!Replaced(k, i), FALSE), stack, TRUE),
           UNCHANGED <<events, nextID, view>>
    PROVE  UndoInv'
  <1> DEFINE e == U!Replaced(k, i)
             q == U!Request(k, i, c, e, FALSE)
             st == U!Pushed(stack, e)
  <1>1. /\ UndoTypes /\ UndoCalls /\ Leads(calls, stack, events, nextID)
        /\ stack \in Seq(Entries) /\ Len(stack) <= MaxStack
        /\ \A j \in 1..Len(stack) : stack[j].id < nextID
        /\ nextID \in Nat /\ events \in Maps(nextID)
    BY DEF UndoInv, UndoTypes
  <1>2. view[i] \in Contents /\ i \in Nat /\ i < nextID /\ i \in 1..(nextID - 1)
    BY <1>1, MapShape DEF UndoTypes
  <1>3. k \in EntryActions
    BY DEF EntryActions
  <1>4. /\ e \in Entries /\ e.action = k /\ e.id = i /\ e.old = view[i]
        /\ e.before # {} => /\ e.before = {U!Count(events)}
                            /\ i \in DOMAIN events /\ events[i] = view[i]
    <2> DEFINE f == U!Entry(k, i, view[i])
    <2>1. /\ f \in Entries /\ f.action = k /\ f.id = i /\ f.old = view[i]
          /\ f.before = {U!Count(events)}
      BY <1>1, <1>2, <1>3, EntryOf
    <2>2. e = IF U!Current(i) THEN f ELSE U!Spoiled(f)
      BY DEF U!Replaced
    <2> HIDE DEF f, e
    <2>3. CASE U!Current(i)
      BY <2>1, <2>2, <2>3 DEF U!Current
    <2>4. CASE ~U!Current(i)
      BY <2>1, <2>2, <2>4, SpoiledEntry
    <2> QED BY <2>3, <2>4
  <1>5. U!Sends(q, stack, TRUE)
    OBVIOUS
  <1> HIDE DEF e
  <1>6. /\ q \in Calls /\ q.kind = k /\ q.id = i /\ q.content = c /\ q.entry = e
        /\ ~q.undoing /\ q.act = acts /\ q.state = "sent"
    <2>1. IsRequest(q, k, i, c, e) /\ ~q.undoing
      BY <1>1, <1>2, <1>3, <1>4, RequestShape, Zenon
    <2> HIDE DEF q
    <2> QED BY <2>1, Zenon DEF IsRequest
  <1> HIDE DEF q
  <1>7. /\ UndoTypes' /\ UndoCalls'
        /\ calls = {} => calls' = {q} /\ stack' = st
        /\ calls # {} => Leads(calls', stack', events', nextID')
    BY <1>1, <1>2, <1>4, <1>5, <1>6, SendsEffect
  <1>8. /\ st \in Seq(Entries) /\ st # <<>> /\ st[Len(st)] = e
        /\ \A x \in Maps(nextID) :
              HasChain(Append(stack, e), x, nextID) => HasChain(st, x, nextID)
    BY <1>1, <1>4, Pushing
  <1> HIDE DEF st
  <1>9. CASE calls # {}
    BY <1>7, <1>9 DEF UndoInv
  <1>10. CASE calls = {} /\ e.before = {}
    <2>1. Dead(st)
      BY <1>8, <1>10 DEF Dead
    <2>2. Leads({q}, st, events, nextID)
      BY <1>1, <1>6, <1>8, <1>10, <2>1, DeadLeads
    <2>3. calls' = {q} /\ stack' = st
      BY <1>7, <1>10
    <2> QED BY <1>7, <2>2, <2>3 DEF UndoInv
  <1>11. CASE calls = {} /\ e.before # {}
    <2> DEFINE x == events
               y == Done(x, q)
    <2>1. HasChain(stack, x, nextID)
      BY <1>1, <1>11 DEF Leads
    <2>2. i \in DOMAIN x /\ x[i] = e.old /\ e.before = {U!Count(x)}
      BY <1>4, <1>11
    <2>3. x \in [DOMAIN x -> Contents]
      BY <1>1, MapShape
    <2>4. y \in Maps(nextID)
      BY <1>1, <1>2, <1>6, WithMap, WithoutMap DEF Done
    <2>5. Undone(y, e) = x /\ Fits(y, e)
      <3>1. CASE k = "update"
        BY <1>4, <1>6, <2>2, <2>3, <3>1 DEF Done, Undone, Fits, U!With
      <3>2. CASE k = "delete"
        BY <1>4, <1>6, <2>2, <2>3, <3>2 DEF Done, Undone, Fits, U!With, U!Without
      <3> QED BY <3>1, <3>2
    <2> HIDE DEF y
    <2>6. HasChain(st, y, nextID)
      <3>1. HasChain(Append(stack, e), y, nextID)
        BY <1>1, <1>4, <2>1, <2>2, <2>4, <2>5, ChainPush
      <3> QED BY <1>8, <2>4, <3>1
    <2>7. k = "update" => HasChain(st, x, nextID)
      <3>1. SUFFICES ASSUME k = "update" PROVE HasChain(st, x, nextID)
        OBVIOUS
      <3>2. Undone(x, e) = x /\ Fits(x, e)
        BY <1>4, <2>2, <2>3, <3>1 DEF Undone, Fits, U!With
      <3>3. HasChain(Append(stack, e), x, nextID)
        BY <1>1, <1>4, <2>1, <2>2, <3>2, ChainPush
      <3> QED BY <1>1, <1>8, <3>3
    <2>8. k = "delete" => U!Deletes(st[Len(st)], i)
      BY <1>4, <1>8 DEF U!Deletes
    <2>9. WaitsToChange(q, st, x, nextID)
      BY <1>6, <2>2, <2>6, <2>7, <2>8 DEF WaitsToChange, y
    <2>10. Waits(q, st, x, nextID)
      BY <1>6, <2>9 DEF Waits
    <2>11. Leads({q}, st, x, nextID)
      BY <1>6, <1>11, <2>10, Zenon DEF Leads
    <2>12. calls' = {q} /\ stack' = st
      BY <1>7, <1>11
    <2> QED BY <1>7, <2>11, <2>12 DEF UndoInv
  <1> QED BY <1>9, <1>10, <1>11

LEMMA UndoDecline ==
    ASSUME UndoInv, NEW i \in DOMAIN view, U!Decline(i)
    PROVE  UndoInv'
  <1> DEFINE e == U!Spoiled(U!Entry("delete", i, view[i]))
             st == U!Pushed(stack, e)
  <1>1. /\ UndoTypes /\ UndoCalls /\ Leads(calls, stack, events, nextID)
        /\ stack \in Seq(Entries) /\ Len(stack) <= MaxStack
        /\ \A j \in 1..Len(stack) : stack[j].id < nextID
        /\ nextID \in Nat /\ events \in Maps(nextID)
    BY DEF UndoInv, UndoTypes
  <1>2. view[i] \in Contents /\ i \in Nat /\ i < nextID
    BY <1>1, MapShape DEF UndoTypes
  <1>3. e \in Entries /\ e.before = {} /\ e.id = i
    <2> DEFINE f == U!Entry("delete", i, view[i])
    <2>1. f \in Entries /\ f.id = i
      BY <1>1, <1>2, EntryOf DEF EntryActions
    <2> HIDE DEF f
    <2> QED BY <2>1, SpoiledEntry DEF f
  <1>4. stack' = st /\ acts' = acts + 1 /\ acts < MaxActs /\ UNCHANGED <<events, nextID, view, calls>>
    BY DEF U!Decline, U!Acts
  <1> HIDE DEF e
  <1>5. /\ st \in Seq(Entries) /\ Len(st) <= MaxStack /\ st # <<>> /\ st[Len(st)] = e
        /\ \A k \in 1..Len(st) : st[k] = e \/ \E j \in 1..Len(stack) : st[k] = stack[j]
    BY <1>1, <1>3, Pushing
  <1> HIDE DEF st
  <1>6. Dead(st)
    BY <1>3, <1>5 DEF Dead
  <1>7. \A k \in 1..Len(st) : st[k].id < nextID
    BY <1>1, <1>2, <1>3, <1>5
  <1>8. /\ acts' \in 0..MaxActs
        /\ \A r \in calls : r.act < acts'
        /\ nextID + Cardinality(Creating(calls)) <= acts' + 2
    <2>1. acts \in 0..MaxActs /\ MaxActs \in Nat /\ \A r \in calls : r.act < acts /\ r.act \in Nat
      BY <1>1, CallShape, UndoAssumption DEF UndoTypes, U!UndoAssumption
    <2>2. nextID + Cardinality(Creating(calls)) <= acts + 2 /\ Cardinality(Creating(calls)) \in Nat
      <3>1. Creating(calls) \subseteq calls /\ IsFiniteSet(calls)
        BY <1>1 DEF Creating, UndoTypes
      <3>2. Cardinality(Creating(calls)) \in Nat
        BY <3>1, FS_Subset, FS_CardinalityType
      <3> QED BY <1>1, <3>2 DEF UndoTypes
    <2> QED BY <1>1, <1>4, <2>1, <2>2
  <1>9. UndoTypes'
    BY <1>1, <1>4, <1>5, <1>7, <1>8 DEF UndoTypes
  <1>10. UndoCalls'
    BY <1>1, <1>4 DEF UndoCalls
  <1>11. Leads(calls, st, events, nextID)
    <2>1. HasChain(st, events, nextID)
      BY <1>1, <1>5, <1>6, ChainOfDead
    <2>2. \A r \in calls : r.entry.before # {} => Waits(r, st, events, nextID)
      BY <1>1, <1>5, <1>6, DeadWaits DEF Leads
    <2> QED BY <1>6, <2>1, <2>2 DEF Leads
  <1> QED BY <1>4, <1>9, <1>10, <1>11 DEF UndoInv

LEMMA UndoPerform ==
    ASSUME UndoInv, U!PerformUndo
    PROVE  UndoInv'
  <1> DEFINE e == stack[Len(stack)]
             st == SubSeq(stack, 1, Len(stack) - 1)
             q == U!Request(U!Opposite[e.action], e.id, e.old, e, TRUE)
  <1>1. /\ UndoTypes /\ UndoCalls /\ Leads(calls, stack, events, nextID)
        /\ stack \in Seq(Entries) /\ Len(stack) <= MaxStack
        /\ \A j \in 1..Len(stack) : stack[j].id < nextID
        /\ nextID \in Nat /\ events \in Maps(nextID)
    BY DEF UndoInv, UndoTypes
  <1>2. /\ stack # <<>> /\ U!Sends(q, st, FALSE) /\ U!Acts
        /\ UNCHANGED <<events, nextID, view>>
    BY DEF U!PerformUndo, U!Last, U!Front
  <1>3. Len(stack) \in Nat \ {0} /\ e \in Entries /\ e.id < nextID
    <2>1. Len(stack) \in Nat \ {0} /\ Len(stack) \in 1..Len(stack)
      BY <1>1, <1>2
    <2> QED BY <1>1, <2>1
  <1>4. /\ st \in Seq(Entries) /\ Len(st) <= MaxStack
        /\ \A k \in 1..Len(st) : st[k].id < nextID
    <2>1. /\ st \in Seq(Entries) /\ Len(st) = Len(stack) - 1
          /\ \A k \in 1..Len(st) : st[k] = stack[k]
      <3>1. Len(stack) - 1 \in Nat /\ Len(stack) = (Len(stack) - 1) + 1
        BY <1>3
      <3> QED BY <1>1, <3>1, FrontShape
    <2>2. MaxStack \in Nat
      BY UndoAssumption DEF U!UndoAssumption
    <2> HIDE DEF st
    <2> QED BY <1>1, <1>3, <2>1, <2>2
  <1>5. e.action \in EntryActions /\ e.id \in Nat /\ e.old \in Contents
    BY <1>3, EntryShape
  <1>6. U!Opposite[e.action] \in EntryActions
    BY <1>5 DEF U!Opposite, EntryActions
  <1> HIDE DEF e, st
  <1>7. /\ q \in Calls /\ q.kind = U!Opposite[e.action] /\ q.id = e.id /\ q.content = e.old
        /\ q.entry = e /\ q.undoing /\ q.act = acts /\ q.state = "sent"
    <2>1. IsRequest(q, U!Opposite[e.action], e.id, e.old, e) /\ q.undoing
      BY <1>1, <1>3, <1>5, <1>6, RequestShape, Zenon
    <2> HIDE DEF q
    <2> QED BY <2>1, Zenon DEF IsRequest
  <1> HIDE DEF q
  <1>8. /\ UndoTypes' /\ UndoCalls'
        /\ calls = {} => calls' = {q} /\ stack' = st
        /\ calls # {} => Leads(calls', stack', events', nextID')
    BY <1>1, <1>2, <1>3, <1>4, <1>7, SendsEffect
  <1>9. CASE calls # {}
    BY <1>8, <1>9 DEF UndoInv
  <1>10. CASE calls = {}
    <2>1. calls' = {q} /\ stack' = st
      BY <1>8, <1>10
    <2>2. q.entry.before # {} => Waits(q, st, events, nextID)
      <3>1. SUFFICES ASSUME e.before # {} PROVE Waits(q, st, events, nextID)
        BY <1>7
      <3>2. HasChain(stack, events, nextID)
        BY <1>1, <1>10 DEF Leads
      <3>3. /\ Fits(events, e) /\ e.before = {U!Count(Undone(events, e))}
            /\ HasChain(st, Undone(events, e), nextID)
        BY <1>1, <1>2, <3>1, <3>2, ChainPop DEF e, st
      <3>4. Linked(e, st, events, nextID)
        BY <3>3 DEF Linked
      <3>5. WaitsToUndo(q, st, events, nextID)
        BY <1>7, <3>4 DEF WaitsToUndo
      <3> QED BY <1>7, <3>5 DEF Waits
    <2>3. Leads({q}, st, events, nextID)
      BY <1>7, <2>2, Zenon DEF Leads
    <2> QED BY <1>2, <1>8, <2>1, <2>3 DEF UndoInv
  <1> QED BY <1>9, <1>10

(***************************************************************************)
(* The server, and what comes back.                                           *)
(***************************************************************************)
\* What is expected of something under way is expected of nothing else.
LEMMA Alone ==
    ASSUME UndoCalls, NEW r \in calls, r.entry.before # {}
    PROVE  calls = {r}
  BY DEF UndoCalls

\* A request nothing is expected of is done with, or goes on as another such one.
LEMMA VoidLeads ==
    ASSUME UndoInv, NEW r \in calls, r.entry.before = {}, NEW n \in Nat,
           NEW x \in Maps(n), NEW st \in Seq(Entries), NEW cs, calls \ {r} \subseteq cs,
           \A q \in cs : q \in calls \/ q.entry.before = {},
           Dead(stack) => Dead(st), r.undoing /\ r.state = "sent" => Dead(st)
    PROVE  Leads(cs, st, x, n)
  <1>1. \A q \in calls : q.entry.before = {}
    BY Alone DEF UndoInv
  <1>2. \A q \in cs : q.entry.before = {}
    BY <1>1
  <1>3. CASE Dead(st)
    BY <1>2, <1>3, DeadLeads
  <1>4. CASE ~Dead(st)
    <2>1. PICK q \in calls : q.undoing /\ q.state = "sent"
      BY <1>1, <1>4 DEF UndoInv, Leads
    <2>2. q \in cs
      BY <1>4, <2>1
    <2> QED BY <1>2, <2>1, <2>2, Zenon DEF Leads
  <1> QED BY <1>3, <1>4

\* Types: a request is done with.
LEMMA LessTypes ==
    ASSUME UndoInv, NEW r \in calls, calls' = calls \ {r},
           UNCHANGED <<events, nextID, view, acts>>,
           stack' \in Seq(Entries), Len(stack') <= MaxStack,
           \A k \in 1..Len(stack') : stack'[k].id < nextID
    PROVE  UndoTypes' /\ UndoCalls'
  <1>1. UndoTypes /\ UndoCalls
    BY DEF UndoInv
  <1>2. /\ IsFiniteSet(calls) /\ Cardinality(calls) <= MaxCalls /\ MaxCalls \in Nat
        /\ nextID \in Nat /\ acts \in Nat /\ nextID + Cardinality(Creating(calls)) <= acts + 2
    BY <1>1, UndoAssumption DEF UndoTypes, U!UndoAssumption
  <1>3. Creating(calls') \subseteq Creating(calls) /\ Creating(calls) \subseteq calls
    BY DEF Creating
  <1>4. IsFiniteSet(Creating(calls)) /\ IsFiniteSet(calls') /\ IsFiniteSet(Creating(calls'))
    BY <1>2, <1>3, FS_Subset
  <1>5. /\ Cardinality(calls') <= Cardinality(calls)
        /\ Cardinality(Creating(calls')) <= Cardinality(Creating(calls))
    BY <1>2, <1>3, <1>4, FS_Subset
  <1>6. /\ Cardinality(calls') \in Nat /\ Cardinality(calls) \in Nat
        /\ Cardinality(Creating(calls')) \in Nat /\ Cardinality(Creating(calls)) \in Nat
    BY <1>2, <1>4, FS_CardinalityType
  <1> HIDE DEF Creating
  <1>7. Cardinality(calls') <= MaxCalls /\ nextID' + Cardinality(Creating(calls')) <= acts' + 2
    BY <1>2, <1>5, <1>6
  <1>8. UndoTypes'
    BY <1>1, <1>4, <1>7 DEF UndoTypes
  <1>9. UndoCalls'
    BY <1>1 DEF UndoCalls
  <1> QED BY <1>8, <1>9

\* The stack after a request that failed, and after an undoing.
SpoiledAt(st, S) == [k \in DOMAIN st |-> IF k \in S THEN U!Spoiled(st[k]) ELSE st[k]]

LEMMA SpoiledSome ==
    ASSUME NEW st \in Seq(Entries), NEW S
    PROVE  LET su == SpoiledAt(st, S)
           IN  /\ su \in Seq(Entries) /\ Len(su) = Len(st)
               /\ \A k \in 1..Len(st) : /\ su[k].id = st[k].id
                                        /\ k \notin S => su[k] = st[k]
                                        /\ k \in S => su[k].before = {}
               /\ Dead(st) => Dead(su)
  <1> DEFINE su == SpoiledAt(st, S)
  <1>1. Len(st) \in Nat /\ DOMAIN st = 1..Len(st) /\ \A k \in 1..Len(st) : st[k] \in Entries
    OBVIOUS
  <1>2. \A k \in 1..Len(st) : /\ U!Spoiled(st[k]) \in Entries
                              /\ U!Spoiled(st[k]).before = {}
                              /\ U!Spoiled(st[k]).id = st[k].id
    BY <1>1, SpoiledEntry
  <1>3. \A k \in 1..Len(st) : su[k] = IF k \in S THEN U!Spoiled(st[k]) ELSE st[k]
    BY <1>1 DEF SpoiledAt
  <1>4. su \in [1..Len(st) -> Entries]
    BY <1>1, <1>2 DEF SpoiledAt
  <1>5. su \in Seq(Entries) /\ Len(su) = Len(st)
    BY <1>1, <1>4
  <1> HIDE DEF su
  <1>6. \A k \in 1..Len(st) : /\ su[k].id = st[k].id
                              /\ k \notin S => su[k] = st[k]
                              /\ k \in S => su[k].before = {}
    BY <1>2, <1>3
  <1>7. ASSUME Dead(st) PROVE Dead(su)
    <2>1. CASE Len(st) = 0
      BY <1>5, <2>1 DEF Dead
    <2>2. CASE Len(st) # 0
      <3>1. Len(st) \in 1..Len(st) /\ st # <<>>
        BY <1>1, <2>2
      <3>2. st[Len(st)].before = {}
        BY <1>7, <3>1 DEF Dead
      <3> QED BY <1>5, <1>6, <3>1, <3>2 DEF Dead
    <2> QED BY <2>1, <2>2
  <1> QED BY <1>5, <1>6, <1>7 DEF su

LEMMA UndoFail ==
    ASSUME UndoInv, NEW r \in calls, U!Fail(r)
    PROVE  UndoInv'
  <1> DEFINE P(k) == r.kind = "delete" /\ U!Deletes(stack[k], r.id)
             S == {k \in DOMAIN stack : P(k)}
             some == SpoiledAt(stack, S)
             n == nextID
  <1>1. /\ UndoTypes /\ UndoCalls /\ Leads(calls, stack, events, n)
        /\ stack \in Seq(Entries) /\ Len(stack) <= MaxStack
        /\ \A k \in 1..Len(stack) : stack[k].id < n
        /\ n \in Nat /\ events \in Maps(n) /\ r \in Calls
    BY DEF UndoInv, UndoTypes
  <1>2. /\ r.state = "sent" /\ calls' = calls \ {r}
        /\ stack' = IF r.undoing THEN U!SpoiledStack(stack) ELSE some
        /\ UNCHANGED <<events, nextID, view, acts>>
    <2>1. some = [k \in DOMAIN stack |-> IF P(k) THEN U!Spoiled(stack[k]) ELSE stack[k]]
      BY DEF SpoiledAt
    <2> HIDE DEF some
    <2> QED BY <2>1, Zenon DEF U!Fail
  <1>3. /\ some \in Seq(Entries) /\ Len(some) = Len(stack)
        /\ \A k \in 1..Len(stack) : /\ some[k].id = stack[k].id
                                    /\ ~P(k) => some[k] = stack[k]
                                    /\ P(k) => some[k].before = {}
        /\ Dead(stack) => Dead(some)
    <2>1. \A k \in 1..Len(stack) : k \in S <=> P(k)
      BY <1>1
    <2> HIDE DEF S, P
    <2>2. /\ some \in Seq(Entries) /\ Len(some) = Len(stack)
          /\ \A k \in 1..Len(stack) : /\ some[k].id = stack[k].id
                                      /\ k \notin S => some[k] = stack[k]
                                      /\ k \in S => some[k].before = {}
          /\ Dead(stack) => Dead(some)
      BY <1>1, SpoiledSome
    <2> HIDE DEF some
    <2> QED BY <2>1, <2>2
  <1> HIDE DEF some
  <1>4. /\ stack' \in Seq(Entries) /\ Len(stack') = Len(stack)
        /\ \A k \in 1..Len(stack) : stack'[k].id = stack[k].id
        /\ Dead(stack) => Dead(stack')
        /\ r.undoing => Dead(stack')
    BY <1>1, <1>2, <1>3, SpoiledOfStack
  <1>5. UndoTypes' /\ UndoCalls'
    BY <1>1, <1>2, <1>4, LessTypes
  <1>6. CASE r.entry.before = {}
    <2>1. Leads(calls', stack', events, n)
      BY <1>1, <1>2, <1>4, <1>6, VoidLeads
    <2> QED BY <1>2, <1>5, <2>1 DEF UndoInv
  <1>7. CASE r.entry.before # {}
    <2>1. calls' = {}
      BY <1>1, <1>2, <1>7, Alone
    <2>2. Waits(r, stack, events, n)
      BY <1>1, <1>7 DEF Leads
    <2>3. HasChain(stack, events, n) => HasChain(some, events, n)
      BY <1>1, <1>3, ChainSpoiled
    <2>4. CASE r.undoing
      BY <1>1, <1>4, <2>4, ChainOfDead, <1>2, <1>5, <2>1 DEF UndoInv, Leads
    <2>5. CASE ~r.undoing
      <3>1. HasChain(some, events, n)
        <4>1. CASE r.kind = "create"
          BY <1>2, <2>2, <2>3, <2>5, <4>1 DEF Waits, WaitsToCreate
        <4>2. CASE r.kind = "update"
          BY <1>2, <2>2, <2>3, <2>5, <4>2 DEF Waits, WaitsToChange
        <4>3. CASE r.kind = "delete"
          <5>1. Dead(stack) \/ U!Deletes(stack[Len(stack)], r.id)
            BY <1>2, <2>2, <2>5, <4>3 DEF Waits, WaitsToChange
          <5>2. Dead(some)
            <6>1. CASE Dead(stack)
              BY <1>3, <6>1
            <6>2. CASE U!Deletes(stack[Len(stack)], r.id)
              <7>1. CASE Len(stack) = 0
                BY <1>3, <7>1 DEF Dead
              <7>2. CASE Len(stack) # 0
                <8>1. Len(stack) \in 1..Len(stack)
                  BY <1>1, <7>2
                <8> QED BY <1>3, <4>3, <6>2, <8>1 DEF Dead
              <7> QED BY <7>1, <7>2
            <6> QED BY <5>1, <6>1, <6>2
          <5> QED BY <1>1, <1>3, <5>2, ChainOfDead
        <4> QED BY <1>1, <4>1, <4>2, <4>3, CallShape DEF EntryActions
      <3>2. HasChain(stack', events', nextID')
        BY <1>2, <2>5, <3>1
      <3> QED BY <1>5, <2>1, <3>2 DEF UndoInv, Leads
    <2> QED BY <2>4, <2>5
  <1> QED BY <1>6, <1>7

LEMMA UndoAnswer ==
    ASSUME UndoInv, NEW r \in calls, U!Answer(r)
    PROVE  UndoInv'
  <1> DEFINE e == [r.entry EXCEPT !.id = r.id]
             n == nextID
  <1>1. /\ UndoTypes /\ UndoCalls /\ Leads(calls, stack, events, n)
        /\ stack \in Seq(Entries) /\ Len(stack) <= MaxStack
        /\ \A k \in 1..Len(stack) : stack[k].id < n
        /\ n \in Nat /\ events \in Maps(n) /\ r \in Calls /\ r.id < n
    BY DEF UndoInv, UndoTypes
  <1>2. /\ r.state = "served" /\ calls' = calls \ {r}
        /\ stack' = IF r.kind = "create" /\ ~r.undoing THEN U!Pushed(stack, e) ELSE stack
        /\ UNCHANGED <<events, nextID, view, acts>>
    BY DEF U!Answer
  <1>3. e \in Entries /\ e.id = r.id /\ e.before = r.entry.before
    <2>1. r.entry \in Entries /\ r.id \in Nat
      BY <1>1, CallShape
    <2> QED BY <2>1 DEF Entries
  <1> HIDE DEF e
  <1> DEFINE su == U!Pushed(stack, e)
  <1>4. /\ su \in Seq(Entries) /\ Len(su) <= MaxStack /\ su # <<>> /\ su[Len(su)] = e
        /\ \A k \in 1..Len(su) : su[k] = e \/ \E j \in 1..Len(stack) : su[k] = stack[j]
        /\ \A x \in Maps(n) : HasChain(Append(stack, e), x, n) => HasChain(su, x, n)
    BY <1>1, <1>3, Pushing
  <1> HIDE DEF su
  <1>5. \A k \in 1..Len(su) : su[k].id < n
    BY <1>1, <1>3, <1>4
  <1>6. UndoTypes' /\ UndoCalls'
    BY <1>1, <1>2, <1>4, <1>5, LessTypes DEF su
  <1>7. CASE r.entry.before = {}
    <2>1. Dead(su)
      BY <1>3, <1>4, <1>7 DEF Dead
    <2>2. Leads(calls', stack', events, n)
      BY <1>1, <1>2, <1>4, <1>7, <2>1, VoidLeads DEF su
    <2> QED BY <1>2, <1>6, <2>2 DEF UndoInv
  <1>8. CASE r.entry.before # {}
    <2>1. calls' = {}
      BY <1>1, <1>2, <1>8, Alone
    <2>2. Waits(r, stack, events, n)
      BY <1>1, <1>8 DEF Leads
    <2>3. CASE r.kind = "create" /\ ~r.undoing
      <3>1. Linked(e, stack, events, n)
        BY <1>2, <2>2, <2>3 DEF Waits, WaitsToCreate, e
      <3>2. HasChain(Append(stack, e), events, n)
        BY <1>1, <1>3, <3>1, ChainPush DEF Linked
      <3>3. HasChain(stack', events', nextID')
        BY <1>1, <1>2, <1>4, <2>3, <3>2 DEF su
      <3> QED BY <1>6, <2>1, <3>3 DEF UndoInv, Leads
    <2>4. CASE ~(r.kind = "create" /\ ~r.undoing)
      <3>1. HasChain(stack, events, n)
        BY <1>2, <2>2, <2>4 DEF Waits, WaitsToUndo, WaitsToChange
      <3>2. HasChain(stack', events', nextID')
        BY <1>2, <2>4, <3>1
      <3> QED BY <1>6, <2>1, <3>2 DEF UndoInv, Leads
    <2> QED BY <2>3, <2>4
  <1> QED BY <1>7, <1>8

LEMMA UndoLose ==
    ASSUME UndoInv, NEW r \in calls, U!Lose(r)
    PROVE  UndoInv'
  <1> DEFINE n == nextID
             su == U!SpoiledStack(stack)
  <1>1. /\ UndoTypes /\ UndoCalls /\ Leads(calls, stack, events, n)
        /\ stack \in Seq(Entries) /\ Len(stack) <= MaxStack
        /\ \A k \in 1..Len(stack) : stack[k].id < n
        /\ n \in Nat /\ events \in Maps(n)
    BY DEF UndoInv, UndoTypes
  <1>2. /\ r.state = "served" /\ calls' = calls \ {r}
        /\ stack' = IF r.kind = "create" /\ ~r.undoing THEN su ELSE stack
        /\ UNCHANGED <<events, nextID, view, acts>>
    BY DEF U!Lose
  <1>3. /\ su \in Seq(Entries) /\ Len(su) = Len(stack) /\ Dead(su)
        /\ \A k \in 1..Len(stack) : su[k].id = stack[k].id
    BY <1>1, SpoiledOfStack
  <1> HIDE DEF su
  <1>4. UndoTypes' /\ UndoCalls'
    BY <1>1, <1>2, <1>3, LessTypes
  <1>5. CASE r.entry.before = {}
    <2>1. Leads(calls', stack', events, n)
      BY <1>1, <1>2, <1>3, <1>5, VoidLeads
    <2> QED BY <1>2, <1>4, <2>1 DEF UndoInv
  <1>6. CASE r.entry.before # {}
    <2>1. calls' = {}
      BY <1>1, <1>2, <1>6, Alone
    <2>2. Waits(r, stack, events, n)
      BY <1>1, <1>6 DEF Leads
    <2>3. HasChain(stack', events, n)
      <3>1. CASE r.kind = "create" /\ ~r.undoing
        BY <1>1, <1>2, <1>3, <3>1, ChainOfDead
      <3>2. CASE ~(r.kind = "create" /\ ~r.undoing)
        BY <1>2, <2>2, <3>2 DEF Waits, WaitsToUndo, WaitsToChange
      <3> QED BY <3>1, <3>2
    <2> QED BY <1>2, <1>4, <2>1, <2>3 DEF UndoInv, Leads
  <1> QED BY <1>5, <1>6

\* What the server makes of its events.
LEMMA Executed ==
    ASSUME UndoTypes, NEW r, r.kind \in EntryActions, r.content \in Contents,
           r.kind = "create" \/ r.id \in DOMAIN events, U!Executes(r)
    PROVE  /\ r.kind = "create" => /\ events' = U!With(events, nextID, r.content)
                                   /\ nextID' = nextID + 1
           /\ r.kind # "create" => events' = Done(events, r) /\ nextID' = nextID
           /\ nextID' \in Nat /\ nextID' >= 2 /\ nextID <= nextID' /\ nextID' <= nextID + 1
           /\ events' \in Maps(nextID') /\ view \in Maps(nextID')
  <1>1. /\ nextID \in Nat /\ nextID >= 2 /\ events \in Maps(nextID) /\ view \in Maps(nextID)
    BY DEF UndoTypes
  <1>2. /\ events \in [DOMAIN events -> Contents] /\ DOMAIN events \subseteq 1..(nextID - 1)
    BY <1>1, MapShape
  <1>3. CASE r.kind = "create"
    <2>1. events' = U!With(events, nextID, r.content) /\ nextID' = nextID + 1
      BY <1>3 DEF U!Executes
    <2>2. /\ nextID + 1 \in Nat /\ nextID \in 1..((nextID + 1) - 1)
          /\ events \in Maps(nextID + 1) /\ view \in Maps(nextID + 1)
      BY <1>1, MapGrows
    <2>3. U!With(events, nextID, r.content) \in Maps(nextID + 1)
      BY <2>2, WithMap
    <2>4. events' \in Maps(nextID') /\ view \in Maps(nextID')
      BY <2>1, <2>2, <2>3
    <2>5. nextID' \in Nat /\ nextID' >= 2 /\ nextID <= nextID' /\ nextID' <= nextID + 1
      BY <1>1, <2>1
    <2> QED BY <1>3, <2>1, <2>4, <2>5
  <1>4. CASE r.kind = "update"
    <2>1. events' = [events EXCEPT ![r.id] = r.content] /\ nextID' = nextID
      BY <1>4 DEF U!Executes
    <2>2. events' = U!With(events, r.id, r.content)
      BY <1>2, <1>4, <2>1 DEF U!With
    <2>3. events' = Done(events, r)
      BY <1>4, <2>2 DEF Done
    <2>4. U!With(events, r.id, r.content) \in Maps(nextID)
      BY <1>1, <1>2, <1>4, WithMap
    <2>5. r.kind # "create"
      BY <1>4
    <2>6. events' \in Maps(nextID') /\ view \in Maps(nextID')
      BY <1>1, <2>1, <2>2, <2>4
    <2>7. nextID' \in Nat /\ nextID' >= 2 /\ nextID <= nextID' /\ nextID' <= nextID + 1
      BY <1>1, <2>1
    <2> QED BY <2>1, <2>3, <2>5, <2>6, <2>7
  <1>5. CASE r.kind = "delete"
    <2>1. events' = U!Without(events, r.id) /\ nextID' = nextID
      BY <1>5 DEF U!Executes
    <2>2. events' = Done(events, r)
      BY <1>5, <2>1 DEF Done
    <2>3. U!Without(events, r.id) \in Maps(nextID)
      BY <1>1, WithoutMap
    <2>4. r.kind # "create"
      BY <1>5
    <2>5. events' \in Maps(nextID') /\ view \in Maps(nextID')
      BY <1>1, <2>1, <2>3
    <2>6. nextID' \in Nat /\ nextID' >= 2 /\ nextID <= nextID' /\ nextID' <= nextID + 1
      BY <1>1, <2>1
    <2> QED BY <2>1, <2>2, <2>4, <2>5, <2>6
  <1> QED BY <1>3, <1>4, <1>5 DEF EntryActions

LEMMA ServedShape ==
    ASSUME NEW r \in Calls, NEW n \in Nat
    PROVE  LET s == [r EXCEPT !.state = "served",
                              !.id = IF r.kind = "create" THEN n ELSE @]
           IN  /\ s \in Calls /\ s.state = "served" /\ s.kind = r.kind
               /\ s.id = (IF r.kind = "create" THEN n ELSE r.id)
               /\ s.entry = r.entry /\ s.undoing = r.undoing /\ s.act = r.act
  <1> DEFINE i == IF r.kind = "create" THEN n ELSE r.id
             s == [r EXCEPT !.state = "served", !.id = i]
  <1>1. i \in Nat
    BY CallShape
  <1> HIDE DEF i
  <1>2. s \in Calls /\ s.state = "served" /\ s.kind = r.kind
        /\ s.id = i /\ s.entry = r.entry /\ s.undoing = r.undoing /\ s.act = r.act
    BY <1>1 DEF Calls
  <1> QED BY <1>2 DEF i

\* Undoing a deletion: the event is there again, under another ID.
LEMMA Recreated ==
    ASSUME NEW n \in Nat \ {0}, NEW x \in Maps(n), NEW i \in 1..(n - 1), i \notin DOMAIN x,
           NEW c \in Contents
    PROVE  U!With(x, n, c) = Renamed(U!With(x, i, c), i, n)
  <1>1. n \notin DOMAIN x /\ n # i
    BY MapShape
  <1>2. DOMAIN U!With(x, i, c) = DOMAIN x \cup {i} /\ U!With(x, i, c)[i] = c
    BY DEF U!With
  <1>3. U!Without(U!With(x, i, c), i) = x
    <2>1. x \in [DOMAIN x -> Contents]
      BY MapShape
    <2> QED BY <2>1 DEF U!With, U!Without
  <1>4. Renamed(U!With(x, i, c), i, n) = U!With(U!Without(U!With(x, i, c), i), n, c)
    BY <1>2 DEF Renamed
  <1> QED BY <1>3, <1>4

\* Undoing the creation that has just been made.
LEMMA CreatedUndone ==
    ASSUME NEW n \in Nat, NEW x \in Maps(n), NEW c
    PROVE  U!Without(U!With(x, n, c), n) = x
  <1>1. x \in [DOMAIN x -> Contents] /\ n \notin DOMAIN x
    BY MapShape
  <1> QED BY <1>1 DEF U!With, U!Without

\* A request that undoes an entry which is not void.
LEMMA UndoServed ==
    ASSUME UndoTypes, NEW r \in calls, r.undoing, r.state = "sent",
           r.entry.before # {}, Waits(r, stack, events, nextID), U!Executes(r)
    PROVE  /\ U!Finds(r)
           /\ HasChain(U!AfterUndo(r.entry), events', nextID')
           /\ r.entry.before = {U!Count(events')}
  <1> DEFINE e == r.entry
             x == events
             n == nextID
             S == {k \in DOMAIN stack : e.before = {} \/ U!Deletes(e, stack[k].id)}
             su == SpoiledAt(stack, S)
  <1>1. /\ n \in Nat /\ n >= 2 /\ x \in Maps(n) /\ stack \in Seq(Entries)
        /\ \A k \in 1..Len(stack) : stack[k].id < n
        /\ r \in Calls /\ e.id < n
    BY DEF UndoTypes
  <1>2. /\ e.action \in EntryActions /\ e.id \in Nat /\ e.old \in Contents
        /\ r.kind \in EntryActions
    BY <1>1, CallShape, EntryShape
  <1>3. /\ r.id = e.id /\ r.content = e.old /\ r.kind = U!Opposite[e.action]
        /\ Fits(x, e) /\ e.before = {U!Count(Undone(x, e))}
        /\ HasChain(stack, Undone(x, e), n)
    BY Zenon DEF Waits, WaitsToUndo, Linked
  <1>4. /\ e.action = "create" => r.kind = "delete"
        /\ e.action = "update" => r.kind = "update"
        /\ e.action = "delete" => r.kind = "create"
    BY <1>2, <1>3 DEF U!Opposite
  <1>5. U!Finds(r) /\ (r.kind = "create" \/ r.id \in DOMAIN x)
    BY <1>2, <1>3, <1>4 DEF U!Finds, Fits, EntryActions
  <1>6. /\ r.kind = "create" => x' = U!With(x, n, r.content) /\ n' = n + 1
        /\ r.kind # "create" => x' = Done(x, r) /\ n' = n
    BY <1>2, <1>3, <1>5, Executed
  <1>7. /\ su \in Seq(Entries) /\ Len(su) = Len(stack)
        /\ \A k \in 1..Len(stack) : /\ su[k].id = stack[k].id
                                    /\ k \notin S => su[k] = stack[k]
                                    /\ k \in S => su[k].before = {}
    <2> HIDE DEF S
    <2> QED BY <1>1, SpoiledSome
  <1>8. U!AfterUndo(e) = su
    BY DEF U!AfterUndo, SpoiledAt, U!Void
  <1>9. DOMAIN stack = 1..Len(stack)
    BY <1>1
  <1>10. Undone(x, e) \in Maps(n)
    BY <1>1, <1>3, ChainEnd
  <1>11. CASE e.action # "delete"
    <2>1. S = {}
      BY <1>11 DEF U!Deletes
    <2>2. HasChain(su, Undone(x, e), n)
      <3>1. \A k \in 1..Len(stack) : su[k] = stack[k]
        BY <1>7, <2>1
      <3> HIDE DEF su
      <3> QED BY <1>1, <1>3, <1>7, <1>10, <3>1, ChainSpoiled
    <2>3. x' = Undone(x, e) /\ n' = n
      BY <1>2, <1>3, <1>4, <1>6, <1>11 DEF Undone, Done, EntryActions
    <2> QED BY <1>3, <1>5, <1>8, <2>2, <2>3
  <1>12. CASE e.action = "delete"
    <2> DEFINE y == Undone(x, e)
    <2>1. y = U!With(x, e.id, e.old) /\ e.id \notin DOMAIN x
      BY <1>3, <1>12 DEF Undone, Fits
    <2>2. e.id # 0 => e.id \in 1..(n - 1)
      BY <1>1, <1>2
    <2>3. e.id \in DOMAIN y
      BY <2>1 DEF U!With
    <2>4. e.id \in 1..(n - 1)
      BY <1>1, <1>10, <2>3, MapShape
    <2>5. x' = Renamed(y, e.id, n) /\ n' = n + 1
      BY <1>1, <1>2, <1>3, <1>4, <1>6, <1>12, <2>1, <2>4, Recreated
    <2>6. \A k \in 1..Len(stack) : \/ su[k].before = {}
                                   \/ su[k] = stack[k] /\ stack[k].id # e.id
      <3>1. ASSUME NEW k \in 1..Len(stack), k \notin S
            PROVE  stack[k].id # e.id
        BY <1>9, <1>12, <3>1 DEF U!Deletes
      <3> HIDE DEF S, su
      <3> QED BY <1>7, <3>1
    <2> HIDE DEF su, y
    <2>7. n \in Nat \ {0}
      BY <1>1
    <2>8. HasChain(su, Renamed(y, e.id, n), n + 1)
      BY <1>1, <1>3, <1>7, <1>10, <2>6, <2>7, ChainRenamed DEF y
    <2>9. U!Count(Renamed(y, e.id, n)) = U!Count(y)
      BY <1>10, <2>7, CountRenamed DEF y
    <2> QED BY <1>3, <1>5, <1>8, <2>5, <2>8, <2>9 DEF y
  <1> QED BY <1>11, <1>12

LEMMA UndoServe ==
    ASSUME UndoInv, NEW r \in calls, U!Serve(r)
    PROVE  UndoInv'
  <1> DEFINE n == nextID
             x == events
             s == [r EXCEPT !.state = "served", !.id = IF r.kind = "create" THEN n ELSE @]
             S == {k \in DOMAIN stack : r.entry.before = {} \/ U!Deletes(r.entry, stack[k].id)}
             su == SpoiledAt(stack, S)
  <1>1. /\ UndoTypes /\ UndoCalls /\ Leads(calls, stack, x, n)
        /\ stack \in Seq(Entries) /\ Len(stack) <= MaxStack
        /\ \A k \in 1..Len(stack) : stack[k].id < n
        /\ n \in Nat /\ x \in Maps(n) /\ r \in Calls
        /\ r.id < n /\ r.entry.id < n /\ r.act < acts
    BY DEF UndoInv, UndoTypes
  <1>2. /\ r.kind \in EntryActions /\ r.id \in Nat /\ r.content \in Contents
        /\ r.entry \in Entries /\ r.entry.id \in Nat
    BY <1>1, CallShape, EntryShape
  <1>3. /\ r.state = "sent" /\ (r.kind = "create" \/ r.id \in DOMAIN x)
        /\ U!Executes(r) /\ calls' = (calls \ {r}) \cup {s}
        /\ stack' = IF r.undoing THEN U!AfterUndo(r.entry) ELSE stack
        /\ UNCHANGED <<view, acts>>
    BY DEF U!Serve, U!Finds
  <1>4. /\ r.kind = "create" => x' = U!With(x, n, r.content) /\ n' = n + 1
        /\ r.kind # "create" => x' = Done(x, r) /\ n' = n
        /\ n' \in Nat /\ n' >= 2 /\ n <= n' /\ n' <= n + 1
        /\ x' \in Maps(n') /\ view \in Maps(n')
    BY <1>1, <1>2, <1>3, Executed
  <1>5. /\ s \in Calls /\ s.state = "served" /\ s.kind = r.kind
        /\ s.id = (IF r.kind = "create" THEN n ELSE r.id)
        /\ s.entry = r.entry /\ s.undoing = r.undoing /\ s.act = r.act
    BY <1>1, ServedShape
  <1> HIDE DEF s
  <1>6. s.id < n'
    BY <1>1, <1>2, <1>4, <1>5
  <1>7. /\ su \in Seq(Entries) /\ Len(su) = Len(stack)
        /\ \A k \in 1..Len(stack) : /\ su[k].id = stack[k].id
                                    /\ k \in S => su[k].before = {}
    <2> HIDE DEF S
    <2> QED BY <1>1, SpoiledSome
  <1>8. U!AfterUndo(r.entry) = su
    BY DEF U!AfterUndo, SpoiledAt, U!Void
  <1>9. r.entry.before = {} => Dead(su)
    <2>1. ASSUME r.entry.before = {}, su # <<>>
          PROVE  su[Len(su)].before = {}
      <3>1. S = 1..Len(stack)
        BY <1>1, <2>1
      <3> HIDE DEF su, S
      <3>2. Len(su) \in 1..Len(stack)
        BY <1>1, <1>7, <2>1
      <3> QED BY <1>7, <3>1, <3>2
    <2> QED BY <2>1 DEF Dead
  <1> HIDE DEF su, S
  <1>10. /\ stack' \in Seq(Entries) /\ Len(stack') = Len(stack)
         /\ \A k \in 1..Len(stack) : stack'[k].id = stack[k].id
    BY <1>1, <1>3, <1>7, <1>8
  <1>11. \A k \in 1..Len(stack') : stack'[k].id < n'
    <2>1. ASSUME NEW k \in 1..Len(stack) PROVE stack[k].id < n'
      <3>1. stack[k].id < n /\ stack[k].id \in Nat
        BY <1>1, EntryShape
      <3> QED BY <1>1, <1>4, <3>1
    <2> QED BY <1>10, <2>1
  <1>12. /\ IsFiniteSet(calls') /\ Cardinality(calls') <= MaxCalls
    <2>1. IsFiniteSet(calls) /\ Cardinality(calls) <= MaxCalls /\ MaxCalls \in Nat
      BY <1>1, UndoAssumption DEF UndoTypes, U!UndoAssumption
    <2>2. IsFiniteSet(calls \ {r}) /\ Cardinality(calls \ {r}) = Cardinality(calls) - 1
      BY <2>1, FS_RemoveElement
    <2>3. /\ IsFiniteSet((calls \ {r}) \cup {s})
          /\ Cardinality((calls \ {r}) \cup {s}) \in Nat /\ Cardinality(calls \ {r}) \in Nat
          /\ Cardinality((calls \ {r}) \cup {s}) <= Cardinality(calls \ {r}) + 1
      BY <2>2, OneMore
    <2>4. Cardinality(calls) \in Nat
      BY <2>1, FS_CardinalityType
    <2>5. Cardinality((calls \ {r}) \cup {s}) <= MaxCalls
      BY <2>1, <2>2, <2>3, <2>4
    <2> QED BY <1>3, <2>3, <2>5
  <1>13. n' + Cardinality(Creating(calls')) <= acts + 2
    <2>1. /\ IsFiniteSet(Creating(calls)) /\ Cardinality(Creating(calls)) \in Nat
          /\ n + Cardinality(Creating(calls)) <= acts + 2 /\ acts \in Nat
      <3>1. Creating(calls) \subseteq calls /\ IsFiniteSet(calls)
        BY <1>1 DEF Creating, UndoTypes
      <3>2. acts \in Nat /\ n + Cardinality(Creating(calls)) <= acts + 2
        BY <1>1, UndoAssumption DEF UndoTypes, U!UndoAssumption
      <3> QED BY <3>1, <3>2, FS_Subset, FS_CardinalityType
    <2>2. Creating(calls') \subseteq Creating(calls) \ {r}
      BY <1>3, <1>5 DEF Creating
    <2>3. Creating(calls) \ {r} \subseteq Creating(calls)
      OBVIOUS
    <2>4. IsFiniteSet(Creating(calls) \ {r})
      BY <2>1, <2>3, FS_Subset
    <2>5. /\ Cardinality(Creating(calls')) <= Cardinality(Creating(calls) \ {r})
          /\ Cardinality(Creating(calls) \ {r}) <= Cardinality(Creating(calls))
          /\ IsFiniteSet(Creating(calls'))
      BY <2>1, <2>2, <2>3, <2>4, FS_Subset
    <2>6. Cardinality(Creating(calls')) \in Nat /\ Cardinality(Creating(calls) \ {r}) \in Nat
      BY <2>4, <2>5, FS_CardinalityType
    <2>7. CASE r.kind = "create"
      <3>1. r \in Creating(calls)
        BY <1>3, <2>7 DEF Creating
      <3>2. Cardinality(Creating(calls) \ {r}) = Cardinality(Creating(calls)) - 1
        BY <2>1, <3>1, FS_RemoveElement
      <3> HIDE DEF Creating
      <3> QED BY <1>1, <1>4, <2>1, <2>5, <2>6, <2>7, <3>2
    <2>8. CASE r.kind # "create"
      <3> HIDE DEF Creating
      <3> QED BY <1>1, <1>4, <2>1, <2>5, <2>6, <2>8
    <2> QED BY <2>7, <2>8
  <1>14. calls' \subseteq Calls /\ \A q \in calls' : q.id < n' /\ q.entry.id < n' /\ q.act < acts
    <2>1. \A q \in calls : /\ q \in Calls /\ q.id < n /\ q.entry.id < n /\ q.act < acts
                           /\ q.id \in Nat /\ q.entry.id \in Nat
      BY <1>1, CallShape, EntryShape DEF UndoTypes
    <2>2. \A q \in calls : q.id < n' /\ q.entry.id < n'
      BY <1>1, <1>4, <2>1
    <2> QED BY <1>3, <1>5, <1>6, <2>1, <2>2
  <1>15. UndoTypes'
    <2>1. acts \in 0..MaxActs
      BY <1>1 DEF UndoTypes
    <2> QED BY <1>1, <1>3, <1>4, <1>10, <1>11, <1>12, <1>13, <1>14, <2>1 DEF UndoTypes
  <1>16. UndoCalls'
    BY <1>1, <1>3, <1>5 DEF UndoCalls
  <1>17. CASE r.entry.before = {}
    <2>1. Leads(calls', stack', x', n')
      <3>1. Dead(stack) => Dead(stack')
        BY <1>3, <1>8, <1>9, <1>17
      <3>2. r.undoing => Dead(stack')
        BY <1>3, <1>8, <1>9, <1>17
      <3>3. \A q \in calls' : q \in calls \/ q.entry.before = {}
        BY <1>3, <1>5, <1>17
      <3>4. calls \ {r} \subseteq calls'
        BY <1>3
      <3> QED BY <1>4, <1>10, <1>17, <3>1, <3>2, <3>3, <3>4, VoidLeads
    <2> QED BY <1>15, <1>16, <2>1 DEF UndoInv
  <1>18. CASE r.entry.before # {}
    <2>1. calls' = {s} /\ Waits(r, stack, x, n)
      BY <1>1, <1>3, <1>18, Alone DEF Leads
    <2>2. Waits(s, stack', x', n')
      <3>1. CASE r.undoing
        <4>1. HasChain(stack', x', n')
          BY <1>1, <1>3, <1>18, <2>1, <3>1, UndoServed
        <4>2. WaitsToUndo(s, stack', x', n')
          BY <1>5, <4>1 DEF WaitsToUndo
        <4> QED BY <1>5, <3>1, <4>2 DEF Waits
      <3>2. CASE ~r.undoing /\ r.kind = "create"
        <4> DEFINE e == [r.entry EXCEPT !.id = n]
                   m == n + 1
        <4>1. /\ r.entry.action = "create" /\ r.entry.before = {U!Count(x)}
              /\ HasChain(stack, x, n)
          BY <1>3, <2>1, <3>2 DEF Waits, WaitsToCreate
        <4>2. e.action = "create" /\ e.id = n /\ e.before = {U!Count(x)}
          BY <1>1, <1>2, <4>1 DEF Entries
        <4> HIDE DEF e
        <4>3. x' = U!With(x, n, r.content) /\ n' = m /\ stack' = stack
          BY <1>3, <1>4, <3>2
        <4>4. Undone(x', e) = x
          BY <1>1, <4>2, <4>3, CreatedUndone DEF Undone
        <4>5. Fits(x', e)
          BY <4>2, <4>3 DEF Fits, U!With
        <4>6. HasChain(stack, x, m)
          BY <1>1, <4>1, ChainGrows
        <4>7. Linked(e, stack', x', n')
          BY <4>2, <4>3, <4>4, <4>5, <4>6 DEF Linked
        <4>8. [s.entry EXCEPT !.id = s.id] = e
          BY <1>5, <3>2 DEF e
        <4>9. WaitsToCreate(s, stack', x', n')
          BY <1>5, <4>1, <4>7, <4>8 DEF WaitsToCreate
        <4> QED BY <1>5, <3>2, <4>9 DEF Waits
      <3>3. CASE ~r.undoing /\ r.kind # "create"
        <4>1. HasChain(stack, Done(x, r), n)
          BY <1>3, <2>1, <3>3 DEF Waits, WaitsToChange
        <4>2. HasChain(stack', x', n')
          BY <1>3, <1>4, <3>3, <4>1
        <4>3. WaitsToChange(s, stack', x', n')
          BY <1>5, <4>2 DEF WaitsToChange
        <4> QED BY <1>5, <3>3, <4>3 DEF Waits
      <3> QED BY <3>1, <3>2, <3>3
    <2>3. Leads({s}, stack', x', n')
      BY <1>5, <1>18, <2>2, Zenon DEF Leads
    <2> QED BY <1>15, <1>16, <2>1, <2>3 DEF UndoInv
  <1> QED BY <1>17, <1>18

LEMMA UndoOthers ==
    ASSUME UndoInv, U!Others
    PROVE  UndoInv'
  <1> DEFINE n == nextID
             cs == U!SpoiledCalls
             su == U!SpoiledStack(stack)
  <1>1. /\ UndoTypes /\ UndoCalls /\ Leads(calls, stack, events, n)
        /\ stack \in Seq(Entries) /\ Len(stack) <= MaxStack
        /\ \A k \in 1..Len(stack) : stack[k].id < n
        /\ n \in Nat
    BY DEF UndoInv, UndoTypes
  <1>2. PICK c \in Contents, i \in DOMAIN events, kind \in {"create", "update", "delete"} :
           U!Executes([kind |-> kind, id |-> i, content |-> c])
    BY DEF U!Others
  <1>3. acts' = acts + 1 /\ acts < MaxActs /\ stack' = su /\ calls' = cs /\ view' = view
    BY DEF U!Others, U!Acts
  <1>4. /\ n' \in Nat /\ n' >= 2 /\ n <= n' /\ n' <= n + 1
        /\ events' \in Maps(n') /\ view \in Maps(n')
    <2> DEFINE r == [kind |-> kind, id |-> i, content |-> c]
    <2>1. /\ r.kind \in EntryActions /\ r.content \in Contents /\ r.id \in DOMAIN events
          /\ U!Executes(r)
      BY <1>2 DEF EntryActions
    <2> HIDE DEF r
    <2> QED BY <1>1, <2>1, Executed
  <1>5. /\ su \in Seq(Entries) /\ Len(su) = Len(stack) /\ Dead(su)
        /\ \A k \in 1..Len(stack) : su[k].id = stack[k].id
    BY <1>1, SpoiledOfStack
  <1>6. /\ cs \subseteq Calls /\ IsFiniteSet(cs)
        /\ Cardinality(cs) <= Cardinality(calls)
        /\ Cardinality(Creating(cs)) <= Cardinality(Creating(calls))
        /\ \A r \in cs : /\ r.entry.before = {} /\ r.act < acts
                         /\ r.id < n /\ r.entry.id < n
        /\ \A r, q \in cs : r # q => r.act # q.act
    BY <1>1, SpoiledOfCalls
  <1> HIDE DEF cs, su
  <1>7. /\ acts \in 0..MaxActs /\ MaxActs \in Nat /\ MaxCalls \in Nat
        /\ IsFiniteSet(calls) /\ Cardinality(calls) <= MaxCalls
        /\ n + Cardinality(Creating(calls)) <= acts + 2
    BY <1>1, UndoAssumption DEF UndoTypes, U!UndoAssumption
  <1>8. /\ Cardinality(cs) <= MaxCalls /\ n' + Cardinality(Creating(cs)) <= acts' + 2
        /\ acts' \in 0..MaxActs
    <2>1. Creating(calls) \subseteq calls /\ Creating(cs) \subseteq cs
      BY DEF Creating
    <2>2. /\ Cardinality(Creating(calls)) \in Nat /\ Cardinality(Creating(cs)) \in Nat
          /\ Cardinality(calls) \in Nat /\ Cardinality(cs) \in Nat
      BY <1>6, <1>7, <2>1, FS_Subset, FS_CardinalityType
    <2> HIDE DEF Creating
    <2> QED BY <1>1, <1>3, <1>4, <1>6, <1>7, <2>2
  <1>9. \A k \in 1..Len(su) : su[k].id < n'
    <2>1. \A k \in 1..Len(stack) : stack[k].id < n /\ stack[k].id \in Nat
      BY <1>1, EntryShape
    <2>2. \A k \in 1..Len(stack) : stack[k].id < n'
      BY <1>1, <1>4, <2>1
    <2> QED BY <1>5, <2>2
  <1>10. \A r \in cs : r.id < n' /\ r.entry.id < n' /\ r.act < acts'
    <2>1. \A r \in cs : /\ r.id < n /\ r.entry.id < n /\ r.act < acts
                        /\ r.id \in Nat /\ r.entry.id \in Nat /\ r.act \in Nat
      BY <1>6, CallShape, EntryShape
    <2> QED BY <1>1, <1>3, <1>4, <1>7, <2>1
  <1>11. UndoTypes'
    BY <1>1, <1>3, <1>4, <1>5, <1>6, <1>8, <1>9, <1>10 DEF UndoTypes
  <1>12. UndoCalls'
    BY <1>3, <1>6 DEF UndoCalls
  <1>13. Leads(calls', stack', events', n')
    BY <1>3, <1>4, <1>5, <1>6, DeadLeads
  <1> QED BY <1>11, <1>12, <1>13 DEF UndoInv

LEMMA UndoRefresh ==
    ASSUME UndoInv, U!Refresh
    PROVE  UndoInv'
  <1>1. UndoTypes /\ UndoCalls /\ Leads(calls, stack, events, nextID)
    BY DEF UndoInv
  <1>2. view' = events /\ UNCHANGED <<events, nextID, stack, calls, acts>>
    BY DEF U!Refresh
  <1>3. UndoTypes'
    BY <1>1, <1>2 DEF UndoTypes
  <1>4. UndoCalls'
    BY <1>1, <1>2 DEF UndoCalls
  <1> QED BY <1>1, <1>2, <1>3, <1>4 DEF UndoInv

LEMMA UndoStart ==
    ASSUME U!Init
    PROVE  UndoInv
  <1> DEFINE c == CHOOSE c \in Contents : TRUE
  <1>1. /\ events = [i \in {1} |-> c] /\ nextID = 2 /\ view = events /\ stack = <<>>
        /\ calls = {} /\ acts = 0
    BY DEF U!Init
  <1>2. c \in Contents /\ MaxActs \in Nat /\ MaxCalls \in Nat \ {0} /\ MaxStack \in Nat \ {0}
    BY UndoAssumption DEF U!UndoAssumption
  <1> HIDE DEF c
  <1>3. events \in Maps(nextID)
    <2>1. {1} \in SUBSET (1..(2 - 1)) /\ [i \in {1} |-> c] \in [{1} -> Contents]
      BY <1>2
    <2> QED BY <1>1, <2>1, MapIntro
  <1>4. stack \in Seq(Entries) /\ Len(stack) = 0
    BY <1>1
  <1>5. IsFiniteSet({}) /\ Cardinality({}) = 0 /\ Creating({}) = {}
    BY FS_EmptySet DEF Creating
  <1>6. UndoTypes
    <2>1. IsFiniteSet(calls) /\ Cardinality(calls) = 0 /\ Cardinality(Creating(calls)) = 0
      BY <1>1, <1>5
    <2>2. nextID + Cardinality(Creating(calls)) <= acts + 2
      BY <1>1, <2>1
    <2> QED BY <1>1, <1>2, <1>3, <1>4, <2>1, <2>2 DEF UndoTypes
  <1>7. UndoCalls
    BY <1>1 DEF UndoCalls
  <1>8. Leads(calls, stack, events, nextID)
    <2>1. Dead(stack)
      BY <1>1 DEF Dead
    <2> QED BY <1>1, <1>3, <1>4, <2>1, DeadLeads
  <1> QED BY <1>6, <1>7, <1>8 DEF UndoInv

\* A step of the tab or the server keeps the invariant.
LEMMA UndoStep ==
    ASSUME UndoInv, U!Next
    PROVE  UndoInv'
  <1>1. ASSUME NEW c \in Contents, U!Create(c) PROVE UndoInv'
    BY <1>1, UndoCreate
  <1>2. ASSUME NEW c \in Contents, NEW i \in DOMAIN view, U!Update(i, c) PROVE UndoInv'
    <2>1. /\ U!Acts /\ UNCHANGED <<events, nextID, view>>
          /\ U!Sends(U!Request("update", i, c, U!Replaced("update", i), FALSE), stack, TRUE)
      BY <1>2 DEF U!Update
    <2> QED BY <2>1, UndoChange
  <1>3. ASSUME NEW i \in DOMAIN view, U!Delete(i) PROVE UndoInv'
    <2>1. /\ U!Acts /\ UNCHANGED <<events, nextID, view>>
          /\ U!Sends(U!Request("delete", i, view[i], U!Replaced("delete", i), FALSE), stack, TRUE)
      BY <1>3 DEF U!Delete
    <2>2. view[i] \in Contents
      BY MapShape DEF UndoInv, UndoTypes
    <2> QED BY <2>1, <2>2, UndoChange
  <1>4. ASSUME NEW i \in DOMAIN view, U!Decline(i) PROVE UndoInv'
    BY <1>4, UndoDecline
  <1>5. ASSUME U!PerformUndo PROVE UndoInv'
    BY <1>5, UndoPerform
  <1>6. ASSUME NEW r \in calls, U!Serve(r) \/ U!Fail(r) \/ U!Answer(r) \/ U!Lose(r)
        PROVE  UndoInv'
    BY <1>6, UndoServe, UndoFail, UndoAnswer, UndoLose
  <1>7. ASSUME U!Refresh \/ U!Others PROVE UndoInv'
    BY <1>7, UndoRefresh, UndoOthers
  <1> QED BY <1>1, <1>2, <1>3, <1>4, <1>5, <1>6, <1>7 DEF U!Next

(***************************************************************************)
(* What follows from it.                                                      *)
(***************************************************************************)
LEMMA UndoInvTypes ==
    ASSUME UndoInv
    PROVE  U!TypeOK
  <1>1. /\ UndoTypes /\ nextID \in Nat /\ events \in Maps(nextID) /\ view \in Maps(nextID)
        /\ stack \in Seq(Entries) /\ Len(stack) <= MaxStack
        /\ \A k \in 1..Len(stack) : stack[k].id < nextID
        /\ \A r \in calls : r \in Calls /\ r.entry.id < nextID
    BY DEF UndoInv, UndoTypes
  <1>2. /\ DOMAIN events \subseteq 1..(nextID - 1) /\ \A i \in DOMAIN events : events[i] \in Contents
        /\ DOMAIN view \subseteq 1..(nextID - 1) /\ \A i \in DOMAIN view : view[i] \in Contents
    BY <1>1, MapShape
  <1>3. /\ nextID \in 2..(MaxActs + 2) /\ acts \in 0..MaxActs /\ MaxActs \in Nat
    <2>1. /\ acts \in 0..MaxActs /\ MaxActs \in Nat /\ nextID >= 2
          /\ nextID + Cardinality(Creating(calls)) <= acts + 2
      BY <1>1, UndoAssumption DEF UndoTypes, U!UndoAssumption
    <2>2. Cardinality(Creating(calls)) \in Nat
      <3>1. Creating(calls) \subseteq calls /\ IsFiniteSet(calls)
        BY <1>1 DEF Creating, UndoTypes
      <3> QED BY <3>1, FS_Subset, FS_CardinalityType
    <2> HIDE DEF Creating
    <2> QED BY <1>1, <2>1, <2>2
  <1>4. ASSUME NEW e \in Entries, e.id < nextID
        PROVE  U!IsEntry(e)
    <2>1. /\ e.action \in {"create", "update", "delete"} /\ e.id \in Nat /\ e.old \in Contents
          /\ e.before \in Befores
      BY EntryShape DEF EntryActions
    <2>2. e.id \in 0..(MaxActs + 1)
      BY <1>1, <1>3, <1>4, <2>1
    <2>3. Cardinality(e.before) <= 1
      <3>1. CASE e.before = {}
        <4>1. Cardinality(e.before) = 0
          BY <3>1, FS_EmptySet
        <4> QED BY <4>1
      <3>2. CASE e.before # {}
        <4>1. PICK f : e.before = {f}
          BY <2>1, <3>2 DEF Befores
        <4>2. Cardinality(e.before) = 1
          BY <4>1, FS_Singleton
        <4> QED BY <4>2
      <3> QED BY <3>1, <3>2
    <2>4. U!Cardinality(e.before) <= 1
      BY <2>3, SameCardinality
    <2> QED BY <2>1, <2>2, <2>4 DEF U!IsEntry
  <1>5. \A k \in DOMAIN stack : U!IsEntry(stack[k])
    BY <1>1, <1>4
  <1>6. \A r \in calls : U!IsEntry(r.entry)
    BY <1>1, <1>4, CallShape
  <1>7. U!Cardinality(calls) <= MaxCalls
    BY <1>1, SameCardinality DEF UndoTypes
  <1> QED BY <1>1, <1>2, <1>3, <1>5, <1>6, <1>7 DEF U!TypeOK

\* Only the server serves.
ServesNothing == \A q \in calls' : q.state = "served" =>
                    \E p \in calls : p.act = q.act /\ p.state = "served"

LEMMA SendsServesNothing ==
    ASSUME UndoInv, NEW k, NEW i, NEW c, NEW e, NEW u, NEW st, NEW now,
           U!Sends(U!Request(k, i, c, e, u), st, now)
    PROVE  ServesNothing
  <1> DEFINE q == U!Request(k, i, c, e, u)
             r == IF calls # {} THEN [q EXCEPT !.entry = U!Spoiled(@)] ELSE q
             cs == U!SpoiledCalls
  <1>1. calls' = cs \cup {r}
    BY DEF U!Sends, U!Hasty
  <1>2. r.state = "sent"
    BY DEF U!Request
  <1>3. \A s \in cs : \E p \in calls : s.act = p.act /\ s.state = p.state
    BY SpoiledOfCalls DEF UndoInv
  <1> HIDE DEF r, cs
  <1> QED BY <1>1, <1>2, <1>3 DEF ServesNothing

LEMMA OnlyServeServes ==
    ASSUME UndoInv, U!Next, \A r \in calls : ~U!Serve(r)
    PROVE  ServesNothing
  <1>1. ASSUME NEW c \in Contents, U!Create(c) PROVE ServesNothing
    BY <1>1, SendsServesNothing DEF U!Create
  <1>2. ASSUME NEW c \in Contents, NEW i \in DOMAIN view, U!Update(i, c) PROVE ServesNothing
    BY <1>2, SendsServesNothing DEF U!Update
  <1>3. ASSUME NEW i \in DOMAIN view, U!Delete(i) PROVE ServesNothing
    BY <1>3, SendsServesNothing DEF U!Delete
  <1>4. ASSUME NEW i \in DOMAIN view, U!Decline(i) PROVE ServesNothing
    BY <1>4 DEF U!Decline, ServesNothing
  <1>5. ASSUME U!PerformUndo PROVE ServesNothing
    BY <1>5, SendsServesNothing DEF U!PerformUndo
  <1>6. ASSUME NEW r \in calls, U!Fail(r) \/ U!Answer(r) \/ U!Lose(r)
        PROVE  ServesNothing
    <2>1. calls' = calls \ {r}
      BY <1>6 DEF U!Fail, U!Answer, U!Lose
    <2> QED BY <2>1 DEF ServesNothing
  <1>7. ASSUME U!Refresh PROVE ServesNothing
    BY <1>7 DEF U!Refresh, ServesNothing
  <1>8. ASSUME U!Others PROVE ServesNothing
    <2>1. calls' = U!SpoiledCalls
      BY <1>8 DEF U!Others
    <2> QED BY <2>1, SpoiledOfCalls DEF UndoInv, ServesNothing
  <1> QED BY <1>1, <1>2, <1>3, <1>4, <1>5, <1>6, <1>7, <1>8 DEF U!Next

GoesBack(r) == /\ U!Finds(r)
               /\ (\E q \in calls' : q.act = r.act /\ q.state = "served")
                  => r.entry.before = {U!Count(events')}

LEMMA UndoneGoesBack ==
    ASSUME UndoInv, U!Next \/ UNCHANGED calls, NEW r \in calls, r.state = "sent", r.undoing,
           r.entry.before # {}
    PROVE  GoesBack(r)
  <1>1. /\ UndoTypes /\ UndoCalls /\ Waits(r, stack, events, nextID) /\ calls = {r}
    BY Alone DEF UndoInv, Leads
  <1>2. U!Finds(r)
    <2> DEFINE e == r.entry
    <2>1. e.action \in EntryActions
      BY <1>1, CallShape, EntryShape DEF UndoTypes
    <2>2. r.id = e.id /\ r.kind = U!Opposite[e.action] /\ Fits(events, e)
      BY <1>1, Zenon DEF Waits, WaitsToUndo, Linked
    <2>3. e.action = "delete" => r.kind = "create"
      BY <2>2 DEF U!Opposite
    <2> QED BY <2>1, <2>2, <2>3 DEF U!Finds, Fits, EntryActions
  <1>3. CASE U!Serve(r)
    <2>1. U!Executes(r)
      BY <1>3 DEF U!Serve
    <2> QED BY <1>1, <1>2, <2>1, UndoServed DEF GoesBack
  <1>4. CASE ~U!Serve(r)
    <2>1. ServesNothing
      BY <1>1, <1>4, OnlyServeServes DEF ServesNothing
    <2>2. ~\E q \in calls' : q.act = r.act /\ q.state = "served"
      BY <1>1, <2>1 DEF ServesNothing
    <2> QED BY <1>2, <2>2 DEF GoesBack
  <1> QED BY <1>3, <1>4

UndoPart == /\ part \in {"workflow", "undo"}
            /\ part = "undo" => UndoInv
            /\ part = "workflow" => calls = {}

LEMMA UndoPartHolds == MCSpec => []UndoPart
  <1>1. MCInit => UndoPart
    BY UndoStart DEF MCInit, UndoIdle, UndoPart
  <1>2. UndoPart /\ [MCNext]_<<part, vars, undoVars>> => UndoPart'
    <2>1. SUFFICES ASSUME UndoPart, MCNext \/ UNCHANGED <<part, vars, undoVars>>
                   PROVE  UndoPart'
      OBVIOUS
    <2>2. CASE UNCHANGED undoVars /\ UNCHANGED part
      <3>1. UNCHANGED <<events, nextID, view, stack, calls, acts>>
        BY <2>2 DEF undoVars
      <3>2. UndoInv => UndoInv'
        BY <3>1 DEF UndoInv, UndoTypes, UndoCalls
      <3> QED BY <2>1, <2>2, <3>1, <3>2 DEF UndoPart
    <2>3. CASE part = "undo" /\ U!Next /\ UNCHANGED part
      <3>1. UndoInv'
        BY <2>1, <2>3, UndoStep DEF UndoPart
      <3> QED BY <2>3, <3>1 DEF UndoPart
    <2> QED BY <2>1, <2>2, <2>3 DEF MCNext
  <1> QED BY <1>1, <1>2, PTL DEF MCSpec

(***************************************************************************)
(* Whatever was done, undone, answered out of order, lost, refused or done by   *)
(* others meanwhile: an undoing whose entry is not void finds its event, and   *)
(* takes the server's events back to the contents there were before the change  *)
(* (performUndo and pushUndo, undo.js), for any number of requests, entries and *)
(* contents; and pushUndo's cap holds.                                        *)
(***************************************************************************)
THEOREM UndoAlwaysGoesBack == MCSpec => UndoGoesBack
  <1>1. UndoPart /\ [MCNext]_<<part, vars, undoVars>> =>
           [\A r \in calls :
               /\ r.state = "sent" /\ r.undoing /\ r.entry.before # U!Void
               => GoesBack(r)]_(U!vars)
    <2>1. SUFFICES ASSUME UndoPart, MCNext \/ UNCHANGED <<part, vars, undoVars>>,
                          NEW r \in calls, r.state = "sent", r.undoing, r.entry.before # {}
                   PROVE  GoesBack(r)
      BY DEF U!Void
    <2>2. UndoInv
      BY <2>1 DEF UndoPart
    <2>3. U!Next \/ UNCHANGED calls
      BY <2>1 DEF MCNext, undoVars
    <2> QED BY <2>1, <2>2, <2>3, UndoneGoesBack
  <1>2. UndoPart => (part = "undo" => U!TypeOK)
    BY UndoInvTypes DEF UndoPart
  <1>3. MCSpec => []UndoPart
    BY UndoPartHolds
  <1> QED BY <1>1, <1>2, <1>3, PTL DEF MCSpec, UndoGoesBack, U!UndoGoesBack, GoesBack
=============================================================================
