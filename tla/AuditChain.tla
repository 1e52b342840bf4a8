----------------------------- MODULE AuditChain -----------------------------
(***************************************************************************)
(* The audit trail: the slice s.audit, in which each entry carries the hash  *)
(* of the one before it, its counter, and the file audit.json.               *)
(*                                                                           *)
(* LogAudit appends and copies the slice under s.mu and writes the copy later,  *)
(* so several copies may be on their way to the file and arrive in any order.  *)
(* The slice keeps the newest MaxAudit entries (10 000 in the code).           *)
(*                                                                           *)
(* The hash of an entry covers its number, its time, its text and the hash    *)
(* before it.  It is modelled by a serial number: distinct entries have        *)
(* distinct hashes.                                                           *)
(***************************************************************************)
EXTENDS Naturals, Sequences

CONSTANTS MaxAudit,   \* entries the slice keeps
          MaxLogged,  \* bound on the entries ever logged
          Writers     \* calls of LogAudit that may run at once

ASSUME AuditAssumption == MaxAudit \in Nat \ {0} /\ MaxLogged \in Nat

VARIABLES audit,        \* s.audit
          nextAuditID,  \* s.nextAuditID, the last number handed out
          saving,       \* the copy each call still has to write, as a set
          auditFile,    \* what audit.json holds
          logged        \* number of hashes computed

vars == <<audit, nextAuditID, saving, auditFile, logged>>

NoHash == 0
Entry == [id : Nat \ {0}, prev : Nat, hash : Nat \ {0}]

Init == /\ audit = <<>>
        /\ nextAuditID = 0
        /\ saving = [w \in Writers |-> {}]
        /\ auditFile = <<>>
        /\ logged = 0

PrevHash == IF audit = <<>> THEN NoHash ELSE audit[Len(audit)].hash

\* Mutant: the cap lets one entry too many stay.
CappedLate(s) == IF Len(s) > MaxAudit + 1 THEN SubSeq(s, Len(s) - MaxAudit, Len(s)) ELSE s

\* The oldest entries go when there are too many.
Capped(s) == IF Len(s) > MaxAudit THEN SubSeq(s, Len(s) - MaxAudit + 1, Len(s)) ELSE s

LogAudit(w) ==
    /\ saving[w] = {} /\ logged < MaxLogged
    /\ logged' = logged + 1
    /\ nextAuditID' = nextAuditID + 1
    /\ audit' = Capped(Append(audit,
                  [id |-> nextAuditID', prev |-> PrevHash, hash |-> logged']))
    /\ saving' = [saving EXCEPT ![w] = {audit'}]
    /\ UNCHANGED auditFile

\* persist succeeds or fails; app.audit ignores which.
Persist(w) ==
    /\ \E copy \in saving[w] : auditFile' \in {copy, auditFile}
    /\ saving' = [saving EXCEPT ![w] = {}]
    /\ UNCHANGED <<audit, nextAuditID, logged>>

\* Mutant: the counter survives the reset.
ResetToEmptyKeepsCounter ==
    /\ audit' = <<>>
    /\ auditFile' \in {<<>>, auditFile}
    /\ UNCHANGED <<nextAuditID, saving, logged>>

\* The full reset; a copy taken before it may still be written after it.
ResetToEmpty ==
    /\ audit' = <<>>
    /\ nextAuditID' = 0
    /\ auditFile' \in {<<>>, auditFile}
    /\ UNCHANGED <<saving, logged>>

\* The largest number of a trail, which load looks for.
LargestId(s) == IF s = <<>> THEN 0
                ELSE CHOOSE n \in {s[i].id : i \in DOMAIN s} : \A i \in DOMAIN s : s[i].id <= n

\* Mutant: the counter continues from the number of entries.
LoadCounting ==
    /\ audit' = auditFile
    /\ nextAuditID' = Len(auditFile)
    /\ saving' = [w \in Writers |-> {}]
    /\ UNCHANGED <<auditFile, logged>>

\* The process stops and a new one loads the file.
Load ==
    /\ audit' = auditFile
    /\ nextAuditID' = LargestId(auditFile)
    /\ saving' = [w \in Writers |-> {}]
    /\ UNCHANGED <<auditFile, logged>>

Next == \/ \E w \in Writers : LogAudit(w) \/ Persist(w)
        \/ ResetToEmpty
        \/ Load

Spec == Init /\ [][Next]_vars

(***************************************************************************)
(* Properties.                                                               *)
(***************************************************************************)

IsTrail(s) == s \in Seq(Entry) /\ Len(s) <= MaxAudit

\* The variables keep their types and the trail its bound (store.go: audit).
TypeOK == /\ IsTrail(audit)
          /\ IsTrail(auditFile)
          /\ nextAuditID \in Nat
          /\ logged \in 0..MaxLogged
          /\ DOMAIN saving = Writers
          /\ \A w \in Writers : \A copy \in saving[w] : IsTrail(copy)

Linked(s) == \A i \in 1..(Len(s) - 1) :
                /\ s[i + 1].prev = s[i].hash
                /\ s[i + 1].id = s[i].id + 1

\* Whatever was capped, lost, reloaded or reset before, the trail in memory and
\* the trail in the file are chains without a gap: each entry carries the hash
\* and follows the number of the entry before it (LogAudit).
ChainLinked == Linked(audit) /\ Linked(auditFile)

HeadHonest(s) == s # <<>> => (s[1].prev = NoHash <=> s[1].id = 1)

\* The first entry says whether entries before it were cut off: it has no
\* previous hash exactly when it is number 1.  So a trail shortened at the front
\* by the cap cannot be taken for one that starts there.
HeadCutVisible == HeadHonest(audit) /\ HeadHonest(auditFile)

=============================================================================
