-------------------------- MODULE AuditChainProofs --------------------------
(***************************************************************************)
(* The audit trail is a chain without a gap, and its head says whether it    *)
(* was cut, for every cap, every number of writers and every bound.          *)
(*                                                                           *)
(* ChainLinked and HeadCutVisible are not inductive: a copy that is still on   *)
(* its way to the file must be sound too, and the counter must agree with the  *)
(* last entry, after a reload as well.  The reload computes the largest        *)
(* number, which is the last one because all numbers are consecutive           *)
(* (Numbered); Linked alone would need an induction for that.                 *)
(***************************************************************************)
EXTENDS AuditChain, SequenceTheorems, TLAPS

Numbered(s) == \A i, j \in 1..Len(s) : s[j].id + i = s[i].id + j

Sound(s) == IsTrail(s) /\ Linked(s) /\ HeadHonest(s) /\ Numbered(s)

LastId(s) == IF s = <<>> THEN 0 ELSE s[Len(s)].id

IInv == /\ Sound(audit)
        /\ Sound(auditFile)
        /\ DOMAIN saving = Writers
        /\ \A w \in Writers : \A copy \in saving[w] : Sound(copy)
        /\ nextAuditID = LastId(audit)
        /\ logged \in 0..MaxLogged

\* The shape of a sequence of entries.
LEMMA EntriesShape ==
    ASSUME NEW s \in Seq(Entry)
    PROVE  /\ Len(s) \in Nat
           /\ DOMAIN s = 1..Len(s)
           /\ s # <<>> => Len(s) \in 1..Len(s)
           /\ \A i \in 1..Len(s) :
                 /\ s[i] \in Entry
                 /\ s[i].id \in Nat \ {0} /\ s[i].hash \in Nat \ {0} /\ s[i].prev \in Nat
  <1>1. Len(s) \in Nat /\ DOMAIN s = 1..Len(s) /\ \A i \in 1..Len(s) : s[i] \in Entry
    BY LenProperties, ElementOfSeq
  <1>2. s # <<>> => Len(s) \in 1..Len(s)
    BY <1>1, EmptySeq
  <1>3. \A x \in Entry : x.id \in Nat \ {0} /\ x.hash \in Nat \ {0} /\ x.prev \in Nat
    BY DEF Entry
  <1>4. QED BY <1>1, <1>2, <1>3

\* The empty trail is sound.
LEMMA EmptySound == Sound(<<>>)
  BY AuditAssumption DEF Sound, IsTrail, Linked, HeadHonest, Numbered

\* The last number of a trail is a natural number.
LEMMA LastIdType == ASSUME NEW s, Sound(s) PROVE LastId(s) \in Nat
  BY EntriesShape DEF Sound, IsTrail, LastId

\* Numbers one further along differ by the same distance.
LEMMA Shift == \A a, b, n, k \in Nat : a + k = b + n => (a + 1) + k = b + (n + 1)
  OBVIOUS

\* A sound trail stays sound when the next entry is appended, but for its length.
LEMMA AppendSound ==
    ASSUME NEW s, Sound(s), NEW e \in Entry,
           e.id = LastId(s) + 1,
           e.prev = IF s = <<>> THEN NoHash ELSE s[Len(s)].hash
    PROVE  LET t == Append(s, e)
           IN  /\ t \in Seq(Entry) /\ Len(t) = Len(s) + 1 /\ t[Len(t)] = e
               /\ Linked(t) /\ HeadHonest(t) /\ Numbered(t)
  <1> DEFINE t == Append(s, e)
  <1>1. /\ s \in Seq(Entry) /\ Len(s) \in Nat
        /\ \A i \in 1..Len(s) : s[i] \in Entry
    BY LenProperties, ElementOfSeq DEF Sound, IsTrail
  <1>2. /\ t \in Seq(Entry) /\ Len(t) = Len(s) + 1 /\ t[Len(t)] = e
        /\ \A i \in 1..Len(s) : t[i] = s[i]
        /\ t # <<>>
    BY <1>1, AppendProperties
  <1> HIDE DEF t
  <1>3. s # <<>> => Len(s) > 0
    BY <1>1, EmptySeq
  <1>4. Linked(t)
    <2> SUFFICES ASSUME NEW i \in 1..Len(s)
                 PROVE  t[i + 1].prev = t[i].hash /\ t[i + 1].id = t[i].id + 1
      BY <1>1, <1>2 DEF Linked
    <2>1. CASE i < Len(s)
      BY <2>1, <1>1, <1>2 DEF Sound, Linked
    <2>2. CASE i = Len(s)
      BY <2>2, <1>1, <1>2 DEF LastId
    <2>3. QED BY <2>1, <2>2, <1>1
  <1>5. HeadHonest(t)
    <2>1. CASE s = <<>>
      BY <2>1, <1>1, <1>2 DEF HeadHonest, LastId, NoHash
    <2>2. CASE s # <<>>
      BY <2>2, <1>1, <1>2, <1>3 DEF Sound, HeadHonest
    <2>3. QED BY <2>1, <2>2
  <1>6. Numbered(t)
    <2>1. \A i \in 1..Len(s) : e.id + i = s[i].id + (Len(s) + 1)
      <3> TAKE i \in 1..Len(s)
      <3>1. s[Len(s)].id + i = s[i].id + Len(s)
        BY <1>1 DEF Sound, Numbered
      <3>2. e.id = s[Len(s)].id + 1
        BY <1>1, <1>3 DEF LastId
      <3>3. s[Len(s)].id \in Nat /\ s[i].id \in Nat /\ Len(s) \in Nat /\ i \in Nat
        BY <1>1, EntriesShape
      <3>4. (s[Len(s)].id + 1) + i = s[i].id + (Len(s) + 1)
        <4> DEFINE a == s[Len(s)].id
                   b == s[i].id
                   n == Len(s)
        <4>1. a + i = b + n /\ a \in Nat /\ b \in Nat /\ n \in Nat /\ i \in Nat
          BY <3>1, <3>3
        <4> HIDE DEF a, b, n
        <4>2. (a + 1) + i = b + (n + 1)
          BY <4>1, Shift
        <4>3. QED BY <4>2 DEF a, b, n
      <3>5. QED BY <3>2, <3>4, Zenon
    <2>2. \A i \in 1..Len(t) : t[i].id \in Nat
      BY <1>2, EntriesShape
    <2> SUFFICES ASSUME NEW i \in 1..Len(t), NEW j \in 1..Len(t)
                 PROVE  t[j].id + i = t[i].id + j
      BY DEF Numbered
    <2>3. CASE i \in 1..Len(s) /\ j \in 1..Len(s)
      BY <2>3, <1>1, <1>2 DEF Sound, Numbered
    <2>4. CASE i = Len(t) /\ j \in 1..Len(s)
      BY <2>4, <2>1, <2>2, <1>1, <1>2
    <2>5. CASE i \in 1..Len(s) /\ j = Len(t)
      BY <2>5, <2>1, <2>2, <1>1, <1>2
    <2>6. CASE i = Len(t) /\ j = Len(t)
      BY <2>6
    <2>7. QED BY <2>3, <2>4, <2>5, <2>6, <1>1, <1>2
  <1>7. QED BY <1>2, <1>4, <1>5, <1>6 DEF t

\* Cutting the front off keeps a chain a chain, and the new head carries the
\* hash of an entry that is gone.
LEMMA CapSound ==
    ASSUME NEW t \in Seq(Entry), t # <<>>, Len(t) <= MaxAudit + 1,
           Linked(t), HeadHonest(t), Numbered(t)
    PROVE  Sound(Capped(t)) /\ LastId(Capped(t)) = t[Len(t)].id
  <1>1. Len(t) \in Nat \ {0} /\ \A i \in 1..Len(t) : t[i] \in Entry
    BY EmptySeq, ElementOfSeq
  <1>2. CASE Len(t) <= MaxAudit
    BY <1>1, <1>2, AuditAssumption DEF Capped, Sound, IsTrail, LastId
  <1>3. CASE Len(t) > MaxAudit
    <2> DEFINE u == SubSeq(t, Len(t) - MaxAudit + 1, Len(t))
    <2>1. Len(t) = MaxAudit + 1 /\ MaxAudit \in Nat \ {0}
      BY <1>1, <1>3, AuditAssumption
    <2>2. /\ u \in Seq(Entry) /\ Len(u) = MaxAudit
          /\ \A i \in 1..MaxAudit : u[i] = t[i + 1]
      BY <2>1, <1>1
    <2>3. Capped(t) = u
      BY <1>3 DEF Capped
    <2> HIDE DEF u
    <2>4. u # <<>>
      BY <2>1, <2>2, EmptySeq
    <2>5. Linked(u) /\ Numbered(u)
      <3>1. Linked(u)
        BY <2>1, <2>2 DEF Linked
      <3>2. ASSUME NEW i \in 1..MaxAudit, NEW j \in 1..MaxAudit
            PROVE  u[j].id + i = u[i].id + j
        <4>1. t[j + 1].id + (i + 1) = t[i + 1].id + (j + 1)
          BY <2>1 DEF Numbered
        <4>2. t[j + 1].id \in Nat /\ t[i + 1].id \in Nat
          BY <2>1, EntriesShape
        <4>3. u[i] = t[i + 1] /\ u[j] = t[j + 1]
          BY <2>2
        <4>4. t[j + 1].id + i = t[i + 1].id + j
          BY <4>1, <4>2, <2>1
        <4>5. QED BY <4>3, <4>4
      <3>3. QED BY <3>1, <3>2, <2>2 DEF Numbered
    <2>6. HeadHonest(u)
      <3>1. t[2].prev = t[1].hash /\ t[2].id = t[1].id + 1
        BY <2>1 DEF Linked
      <3>2. t[1].hash \in Nat \ {0} /\ t[1].id \in Nat \ {0}
        BY <1>1, <2>1 DEF Entry
      <3>3. QED BY <3>1, <3>2, <2>1, <2>2 DEF HeadHonest, NoHash
    <2>7. QED BY <2>1, <2>2, <2>3, <2>4, <2>5, <2>6 DEF Sound, IsTrail, LastId
  <1>4. QED BY <1>1, <1>2, <1>3, AuditAssumption

\* The number a reload continues from is the last one of the file.
LEMMA LargestIsLast == ASSUME NEW s, Sound(s) PROVE LargestId(s) = LastId(s)
  <1>1. /\ s \in Seq(Entry) /\ Len(s) \in Nat /\ DOMAIN s = 1..Len(s)
        /\ \A i \in 1..Len(s) : s[i].id \in Nat
    BY EntriesShape DEF Sound, IsTrail
  <1>2. CASE s = <<>>
    BY <1>2 DEF LargestId, LastId
  <1>3. CASE s # <<>>
    <2> DEFINE n == s[Len(s)].id
    <2>1. Len(s) \in 1..Len(s)
      BY <1>1, <1>3, EmptySeq
    <2>2. \A i \in 1..Len(s) : s[i].id <= n
      <3> TAKE i \in 1..Len(s)
      <3>1. n + i = s[i].id + Len(s)
        BY <2>1 DEF Sound, Numbered
      <3>2. QED BY <3>1, <2>1, <1>1
    <2>3. \A m \in {s[i].id : i \in DOMAIN s} :
             (\A i \in DOMAIN s : s[i].id <= m) => m = n
      <3> SUFFICES ASSUME NEW k \in 1..Len(s), \A i \in 1..Len(s) : s[i].id <= s[k].id
                   PROVE  s[k].id = n
        BY <1>1
      <3>1. n <= s[k].id /\ s[k].id <= n
        BY <2>1, <2>2
      <3>2. n \in Nat /\ s[k].id \in Nat
        BY <1>1, <2>1
      <3>3. QED BY <3>1, <3>2
    <2>4. n \in {s[i].id : i \in DOMAIN s} /\ \A i \in DOMAIN s : s[i].id <= n
      BY <1>1, <2>1, <2>2
    <2> HIDE DEF n
    <2>5. (CHOOSE m \in {s[i].id : i \in DOMAIN s} : \A i \in DOMAIN s : s[i].id <= m) = n
      BY <2>3, <2>4
    <2>6. QED BY <2>5, <1>3 DEF LargestId, LastId, n
  <1>4. QED BY <1>2, <1>3

\* The inductive step.
LEMMA IInvInductive == IInv /\ [Next]_vars => IInv'
  <1> SUFFICES ASSUME IInv, [Next]_vars PROVE IInv'
    OBVIOUS
  <1>1. ASSUME NEW w \in Writers, LogAudit(w) PROVE IInv'
    <2> DEFINE e == [id |-> nextAuditID', prev |-> PrevHash, hash |-> logged']
               t == Append(audit, e)
    <2>1. audit \in Seq(Entry) /\ Len(audit) \in Nat /\ Len(audit) <= MaxAudit
      BY LenProperties DEF IInv, Sound, IsTrail
    <2>2. PrevHash \in Nat /\ PrevHash = IF audit = <<>> THEN NoHash ELSE audit[Len(audit)].hash
      BY <2>1, EntriesShape DEF PrevHash, NoHash
    <2>3. e \in Entry /\ e.id = LastId(audit) + 1 /\ e.prev = PrevHash
      BY <1>1, <2>2, LastIdType DEF LogAudit, IInv, Entry
    <2>4. /\ t \in Seq(Entry) /\ Len(t) = Len(audit) + 1 /\ t[Len(t)] = e
          /\ Linked(t) /\ HeadHonest(t) /\ Numbered(t)
      <3> HIDE DEF e
      <3>1. QED BY <2>2, <2>3, AppendSound DEF IInv
    <2>5. t # <<>> /\ Len(t) <= MaxAudit + 1
      BY <2>1, <2>4, AuditAssumption, EmptySeq
    <2>6. Sound(Capped(t)) /\ LastId(Capped(t)) = t[Len(t)].id
      <3> HIDE DEF t
      <3>1. QED BY <2>4, <2>5, CapSound
    <2>7. audit' = Capped(t)
      BY <1>1 DEF LogAudit
    <2>8. t[Len(t)].id = nextAuditID'
      BY <2>4
    <2> HIDE DEF t, e
    <2>9. Sound(audit)' /\ (nextAuditID = LastId(audit))'
      BY <2>6, <2>7, <2>8
    <2>10. (logged \in 0..MaxLogged)'
      BY <1>1, AuditAssumption DEF LogAudit, IInv
    <2>11. /\ DOMAIN saving' = Writers
           /\ \A v \in Writers : saving'[v] = IF v = w THEN {audit'} ELSE saving[v]
      BY <1>1 DEF LogAudit, IInv
    <2>12. QED BY <1>1, <2>9, <2>10, <2>11 DEF LogAudit, IInv
  <1>2. ASSUME NEW w \in Writers, Persist(w) PROVE IInv'
    BY <1>2 DEF Persist, IInv
  <1>3. CASE ResetToEmpty
    BY <1>3, EmptySound DEF ResetToEmpty, IInv, LastId
  <1>4. CASE Load
    <2>1. Sound(audit)' /\ (nextAuditID = LastId(audit))'
      BY <1>4, LargestIsLast DEF Load, IInv
    <2>2. QED BY <1>4, <2>1 DEF Load, IInv
  <1>5. CASE UNCHANGED vars
    BY <1>5 DEF vars, IInv
  <1>6. QED BY <1>1, <1>2, <1>3, <1>4, <1>5 DEF Next

\* Every reachable state satisfies the strengthened invariant.
THEOREM AlwaysIInv == Spec => []IInv
  <1>1. Init => IInv
    BY EmptySound, AuditAssumption DEF Init, IInv, LastId
  <1>2. QED BY <1>1, IInvInductive, PTL DEF Spec

\* The variables keep their types and the trail its bound.
THEOREM TypesHold == Spec => []TypeOK
  <1>1. IInv => TypeOK
    BY LastIdType DEF IInv, Sound, TypeOK
  <1>2. QED BY <1>1, AlwaysIInv, PTL

\* The trail and its file are chains without a gap (LogAudit).
THEOREM ChainAlwaysLinked == Spec => []ChainLinked
  <1>1. IInv => ChainLinked
    BY DEF IInv, Sound, ChainLinked
  <1>2. QED BY <1>1, AlwaysIInv, PTL

\* The head of the trail says whether it was cut (LogAudit's cap).
THEOREM HeadCutAlwaysVisible == Spec => []HeadCutVisible
  <1>1. IInv => HeadCutVisible
    BY DEF IInv, Sound, HeadCutVisible
  <1>2. QED BY <1>1, AlwaysIInv, PTL

=============================================================================
