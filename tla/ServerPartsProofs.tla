-------------------------- MODULE ServerPartsProofs --------------------------
(***************************************************************************)
(* Proofs about the parts of ServerParts, for every value of the constants  *)
(* that ServerAssumption allows: Shutdown, Alarms, BattleRhythm, BoardOrder.    *)
(*                                                                           *)
(* Only the part that Init picked ever moves.  So a theorem rests on an       *)
(* invariant of that part alone, which Steps carries over to the sum.        *)
(***************************************************************************)
EXTENDS ServerParts, SequenceTheorems, FiniteSetTheorems, WellFoundedInduction, TLAPS

\* A step of the sum is one of the part it began with.
LEMMA Steps ==
    ASSUME [ServerNext]_serverVars
    PROVE  /\ service' = service
           /\ service = "shutdown" => [S!Next]_(S!vars)
           /\ service = "alarms" => [A!Next]_(A!vars)
           /\ service = "rhythm" => [R!Next]_(R!vars)
           /\ service = "board" => [B!Next]_(B!vars)
           /\ service # "board" => request' = request
  <1>1. CASE UNCHANGED serverVars
    BY <1>1 DEF serverVars, shutdownVars, S!vars, S!channels, S!senders, alarmVars, A!vars,
       A!server, A!history, rhythmVars, R!vars, R!history, boardVars, B!vars
  <1>2. CASE ServerNext
    BY <1>2 DEF ServerNext, boardVars
  <1> QED BY <1>1, <1>2

(***************************************************************************)
(* Sequences.                                                                *)
(***************************************************************************)
\* A sequence without its i-th element: RemoveAt.
Without(s, i) == SubSeq(s, 1, i - 1) \o SubSeq(s, i + 1, Len(s))

LEMMA Removing ==
    ASSUME NEW X, NEW s \in Seq(X), NEW i \in DOMAIN s
    PROVE  /\ Without(s, i) \in Seq(X) /\ Len(Without(s, i)) = Len(s) - 1
           /\ \A n \in DOMAIN Without(s, i) :
                 Without(s, i)[n] = IF n < i THEN s[n] ELSE s[n + 1]
  <1>1. i \in 1..Len(s) /\ Len(s) \in Nat
    OBVIOUS
  <1> DEFINE a == SubSeq(s, 1, i - 1)
             b == SubSeq(s, i + 1, Len(s))
             r == Without(s, i)
  <1>2. a \in Seq(X) /\ Len(a) = i - 1 /\ \A n \in 1..(i - 1) : a[n] = s[n]
    BY <1>1
  <1>3. b \in Seq(X) /\ Len(b) = Len(s) - i /\ \A n \in 1..(Len(s) - i) : b[n] = s[n + i]
    BY <1>1
  <1> HIDE DEF a, b, r
  <1>4. r = a \o b
    BY DEF a, b, r, Without
  <1>5. /\ r \in Seq(X) /\ Len(r) = Len(s) - 1
        /\ \A n \in 1..(Len(s) - 1) : r[n] = IF n <= i - 1 THEN a[n] ELSE b[n - (i - 1)]
    <2>1. i - 1 + (Len(s) - i) = Len(s) - 1
      BY <1>1
    <2>2. /\ a \o b \in Seq(X) /\ Len(a \o b) = Len(a) + Len(b)
          /\ \A n \in 1..Len(a) + Len(b) :
                (a \o b)[n] = IF n <= Len(a) THEN a[n] ELSE b[n - Len(a)]
      BY <1>2, <1>3, ConcatProperties
    <2>3. Len(a) + Len(b) = Len(s) - 1 /\ Len(a) = i - 1
      BY <1>2, <1>3, <2>1
    <2>4. /\ a \o b \in Seq(X) /\ Len(a \o b) = Len(s) - 1
          /\ \A n \in 1..(Len(s) - 1) :
                (a \o b)[n] = IF n <= i - 1 THEN a[n] ELSE b[n - (i - 1)]
      BY <2>2, <2>3
    <2> QED BY <1>4, <2>4
  <1>6. ASSUME NEW n \in DOMAIN r PROVE r[n] = IF n < i THEN s[n] ELSE s[n + 1]
    <2>1. n \in 1..(Len(s) - 1)
      BY <1>5
    <2>2. CASE n < i
      BY <1>1, <1>2, <1>5, <2>1, <2>2
    <2>3. CASE ~(n < i)
      <3>1. r[n] = b[n - (i - 1)]
        <4>1. ~(n <= i - 1)
          BY <1>1, <2>1, <2>3
        <4> QED BY <1>5, <2>1, <4>1
      <3>2. n - (i - 1) \in 1..(Len(s) - i) /\ n - (i - 1) + i = n + 1
        BY <1>1, <2>1, <2>3
      <3> QED BY <1>3, <2>3, <3>1, <3>2
    <2> QED BY <2>2, <2>3
  <1> QED BY <1>5, <1>6 DEF r

(***************************************************************************)
(* Shutdown.                                                                 *)
(***************************************************************************)
Before == {"waiting", "requests", "signals", "bus"}

\* The stages of App.Stop: what is closed at each, and what can go on no more.
Staged == /\ stopping <=> (stopper \notin {"waiting", "requests", "signals"})
          /\ jobsOpen <=> (stopper \in Before \cup {"jobs"})
          /\ deliverer = "sending" => stopper \in Before

\* A worker leaves only when there is nothing left, and the flush comes when all
\* have left.
Drained == /\ \A w \in Workers : worker[w] = "gone" => ~jobsOpen /\ jobs = 0
           /\ stopper \in {"flush", "done"} => \A w \in Workers : worker[w] = "gone"

ShutdownInv == S!TypeOK /\ Staged /\ Drained

LEMMA ShutdownInit == ASSUME S!Init PROVE ShutdownInv
  <1>1. S!TypeOK
    <2>1. bus \in 0..BusRoom /\ jobs \in 0..JobRoom
      BY ServerAssumption DEF S!Init, S!ShutdownAssumption
    <2> QED BY <2>1, Zenon DEF S!Init, S!TypeOK
  <1>2. Staged /\ Drained
    BY DEF S!Init, Staged, Before, Drained
  <1> QED BY <1>1, <1>2 DEF ShutdownInv

\* A job is taken only while the channel is open and nobody has left.
LEMMA QueueKeeps ==
    ASSUME ShutdownInv, UNCHANGED <<stopper, stopping, jobsOpen, worker>>,
           S!Accepts \/ UNCHANGED jobs
    PROVE  Drained' /\ jobs' \in 0..JobRoom
  <1>1. CASE S!Accepts
    <2>1. jobsOpen /\ jobs' = jobs + 1 /\ jobs < JobRoom /\ jobs \in Nat /\ JobRoom \in Nat
      BY <1>1, ServerAssumption DEF S!Accepts, ShutdownInv, S!TypeOK, S!ShutdownAssumption
    <2>2. \A w \in Workers : worker[w] # "gone"
      BY <2>1 DEF ShutdownInv, Drained
    <2>3. stopper \notin {"flush", "done"}
      BY <2>1 DEF ShutdownInv, Staged, Before
    <2> QED BY <2>1, <2>2, <2>3 DEF Drained
  <1>2. CASE UNCHANGED jobs
    BY <1>2 DEF ShutdownInv, S!TypeOK, Drained
  <1> QED BY <1>1, <1>2

LEMMA ShutdownNext == ASSUME ShutdownInv, [S!Next]_(S!vars) PROVE ShutdownInv'
  <1>1. /\ S!TypeOK /\ Staged /\ Drained
        /\ BusRoom \in Nat \ {0} /\ JobRoom \in Nat \ {0} /\ Workers # {}
        /\ Requests \cap Others = {}
    BY ServerAssumption DEF ShutdownInv, S!ShutdownAssumption
  <1>2. ASSUME NEW r \in Requests, S!RequestBegins(r) \/ S!RequestEnds(r) PROVE ShutdownInv'
    BY <1>1, <1>2 DEF S!RequestBegins, S!RequestEnds, ShutdownInv, S!TypeOK, Staged,
       Drained, S!channels
  <1>3. ASSUME NEW s \in Requests \cup Others, S!Looks(s) PROVE ShutdownInv'
    BY <1>1, <1>3 DEF S!Looks, ShutdownInv, S!TypeOK, Staged, Drained, S!channels
  <1>4. ASSUME NEW s \in Requests \cup Others, S!PublishSends(s) PROVE ShutdownInv'
    <2>1. /\ bus' \in 0..BusRoom /\ serving' \subseteq Requests
          /\ process' \in {"up", "exited", "crashed"}
      BY <1>1, <1>4 DEF S!PublishSends, S!Panics, S!TypeOK
    <2> QED BY <1>1, <1>4, <2>1 DEF S!PublishSends, ShutdownInv, S!TypeOK, Staged, Drained
  <1>5. ASSUME NEW s \in Requests \cup Others, S!EnqueueSends(s) PROVE ShutdownInv'
    <2>1. /\ serving' \subseteq Requests /\ process' \in {"up", "exited", "crashed"}
          /\ S!Accepts \/ UNCHANGED jobs
          /\ UNCHANGED <<stopper, stopping, jobsOpen, worker>>
      BY <1>1, <1>5 DEF S!EnqueueSends, S!Panics, S!Drops, S!TypeOK
    <2>2. Drained' /\ jobs' \in 0..JobRoom
      BY <2>1, QueueKeeps
    <2> QED BY <1>1, <1>5, <2>1, <2>2 DEF S!EnqueueSends, ShutdownInv, S!TypeOK, Staged
  <1>6. CASE S!Receive
    BY <1>1, <1>6 DEF S!Receive, ShutdownInv, S!TypeOK, Staged, Before, Drained
  <1>7. CASE S!Deliver
    BY <1>1, <1>7 DEF S!Deliver, ShutdownInv, S!TypeOK, Staged, Before, Drained, S!channels
  <1>8. CASE S!DeliverSends
    <2>1. /\ S!Accepts \/ UNCHANGED jobs
          /\ UNCHANGED <<stopper, stopping, jobsOpen, worker>>
      BY <1>8 DEF S!DeliverSends, S!Drops
    <2>2. Drained' /\ jobs' \in 0..JobRoom
      BY <2>1, QueueKeeps
    <2> QED BY <1>1, <1>8, <2>1, <2>2 DEF S!DeliverSends, ShutdownInv, S!TypeOK, Staged
  <1>9. ASSUME NEW w \in Workers, S!TakeJob(w) PROVE ShutdownInv'
    BY <1>1, <1>9 DEF S!TakeJob, ShutdownInv, S!TypeOK, Staged, Drained, S!senders
  <1>10. ASSUME NEW w \in Workers, S!Called(w) PROVE ShutdownInv'
    BY <1>1, <1>10 DEF S!Called, ShutdownInv, S!TypeOK, Staged, Drained, S!senders, S!channels
  <1>11. ASSUME NEW w \in Workers, S!Leave(w) PROVE ShutdownInv'
    <2>1. /\ worker' \in [Workers -> {"idle", "calling", "gone"}]
          /\ \A v \in Workers : worker[v] = "gone" => worker'[v] = "gone"
      BY <1>1, <1>11 DEF S!Leave, S!TypeOK
    <2>2. ~jobsOpen' /\ jobs' = 0 /\ UNCHANGED <<stopper, jobsOpen>>
      BY <1>11 DEF S!Leave, S!channels
    <2>3. Drained'
      BY <1>1, <2>1, <2>2 DEF Drained
    <2> QED BY <1>1, <1>11, <2>1, <2>3 DEF S!Leave, ShutdownInv, S!TypeOK, Staged,
       S!senders, S!channels
  <1>12. CASE S!Signal \/ S!ShutdownReturns \/ S!CloseStopCh
    <2>1. timedOut' \in BOOLEAN
      BY <1>1, <1>12, Zenon DEF S!Signal, S!ShutdownReturns, S!CloseStopCh, S!TypeOK
    <2>2. S!TypeOK'
      BY <1>1, <1>12, <2>1 DEF S!Signal, S!ShutdownReturns, S!CloseStopCh, S!Goes,
         S!TypeOK, S!senders, S!channels
    <2>3. Staged' /\ Drained'
      BY <1>1, <1>12 DEF S!Signal, S!ShutdownReturns, S!CloseStopCh, S!Goes, S!TypeOK,
         Staged, Before, Drained, S!senders, S!channels
    <2> QED BY <2>2, <2>3 DEF ShutdownInv
  <1>13. CASE S!StopBus
    BY <1>1, <1>13 DEF S!StopBus, S!Goes, ShutdownInv, S!TypeOK, Staged, Before, Drained,
       S!senders
  <1>14. CASE S!CloseJobs
    BY <1>1, <1>14 DEF S!CloseJobs, S!Goes, ShutdownInv, S!TypeOK, Staged, Before,
       Drained, S!senders
  <1>15. CASE S!WorkersGone \/ S!Flush
    BY <1>1, <1>15 DEF S!WorkersGone, S!Flush, S!Goes, ShutdownInv, S!TypeOK, Staged,
       Before, Drained, S!senders, S!channels
  <1>16. CASE S!MainReturns
    BY <1>1, <1>16 DEF S!MainReturns, ShutdownInv, S!TypeOK, Staged, Before, Drained,
       S!senders, S!channels
  <1>17. CASE UNCHANGED S!vars
    BY <1>1, <1>17 DEF S!vars, ShutdownInv, S!TypeOK, Staged, Before, Drained, S!senders,
       S!channels
  <1> QED
    BY <1>2, <1>3, <1>4, <1>5, <1>6, <1>7, <1>8, <1>9, <1>10, <1>11, <1>12, <1>13,
       <1>14, <1>15, <1>16, <1>17 DEF S!Next

ShutdownPart == service = "shutdown" => ShutdownInv

LEMMA ShutdownPartAlways == ServerSpec => []ShutdownPart
  <1>1. ServerInit => ShutdownPart
    BY ShutdownInit DEF ServerInit, ShutdownPart
  <1>2. ShutdownPart /\ [ServerNext]_serverVars => ShutdownPart'
    BY Steps, ShutdownNext DEF ShutdownPart
  <1> QED BY <1>1, <1>2, PTL DEF ServerSpec

\* The bus never sends on the closed channel of the workers (EventBus.Stop).
THEOREM BusAlwaysSafe == ServerSpec => []ShutdownBusIsSafe
  <1>1. ShutdownPart => ShutdownBusIsSafe
    BY DEF ShutdownPart, ShutdownInv, Staged, Before, ShutdownBusIsSafe, S!BusIsSafe
  <1> QED BY <1>1, ShutdownPartAlways, PTL

\* When the store is flushed, every webhook job that was queued was tried (App.Stop).
THEOREM QueuedAlwaysTried == ServerSpec => []ShutdownQueuedAreTried
  <1>1. ShutdownPart => ShutdownQueuedAreTried
    BY ServerAssumption
       DEF ShutdownPart, ShutdownInv, Drained, ShutdownQueuedAreTried, S!QueuedAreTried,
           S!ShutdownAssumption
  <1> QED BY <1>1, ShutdownPartAlways, PTL

(***************************************************************************)
(* Alarms.                                                                   *)
(***************************************************************************)
Alarm == [due : BOOLEAN, fired : BOOLEAN, active : BOOLEAN]

LoopState == [pc : {"rest", "mark", "notify", "loop"}, todo : SUBSET Ids,
              slots : Seq(Tabs \cup {Closed}), at : Nat \ {0}, shared : BOOLEAN]

AlarmsTypes == /\ alarms \in [DOMAIN alarms -> Alarm] /\ DOMAIN alarms \subseteq Ids
               /\ conns \in Seq(Tabs)
               /\ \A m, n \in DOMAIN conns : conns[m] = conns[n] => m = n
               /\ loop \in LoopState
               /\ inbox \in [Tabs -> Seq(Ids \cup {0})]
               /\ \A t \in Tabs : Len(inbox[t]) <= Buffer
               /\ begun \in [Ids -> Nat] /\ got \in [Tabs -> Nat]
               /\ owed \subseteq Tabs /\ shaken \in BOOLEAN /\ crashed \in BOOLEAN

\* A stored alarm that was announced is marked; of the scheduler's copy, only the
\* alarm it is handing over was announced yet; a mark stands for an announcement.
AlarmsAnnounced ==
    /\ \A a \in Ids : begun[a] <= 1
    /\ \A a \in DOMAIN alarms : begun[a] = 1 => alarms[a].fired
    /\ \A a \in loop.todo : begun[a] # 0 => loop.pc = "loop" /\ a = A!Current
    /\ loop.pc # "rest" => loop.todo # {}
    /\ (loop.pc = "notify" /\ A!Current \in DOMAIN alarms) => alarms[A!Current].fired
    /\ \A a \in DOMAIN alarms :
          (alarms[a].fired /\ ~crashed) => begun[a] = 1 \/ (loop.pc = "notify" /\ a = A!Current)

\* Outside of its loop Notify has handed over nothing; while the slots lie in the
\* broker's own array they are its connections.
HandedRest == loop.pc # "loop" => (\A t \in Tabs : got[t] = 0) /\ ~loop.shared

HandedShared ==
    loop.shared => \A n \in DOMAIN loop.slots \cap DOMAIN conns : loop.slots[n] = conns[n]

\* Every tab that is owed the alarm has a slot: one the loop has yet to come to, or it
\* has the alarm.
HandedOwed ==
    loop.pc = "loop" =>
       \A t \in owed : \E n \in DOMAIN loop.slots :
          /\ loop.slots[n] = t
          /\ n < loop.at => got[t] >= 1
          /\ loop.shared => n \in DOMAIN conns /\ conns[n] = t

\* As long as no connection is closed the slots stay what they were.
HandedOnce ==
    (loop.pc = "loop" /\ ~shaken) =>
       /\ \A m, n \in DOMAIN loop.slots : loop.slots[m] = loop.slots[n] => m = n
       /\ loop.shared => Len(conns) >= Len(loop.slots)
       /\ \A n \in DOMAIN loop.slots : /\ loop.slots[n] \in Tabs
                                       /\ got[loop.slots[n]] <= 1
                                       /\ n >= loop.at => got[loop.slots[n]] = 0

AlarmsHanded == HandedRest /\ HandedShared /\ HandedOwed /\ HandedOnce

AlarmsInv == AlarmsTypes /\ AlarmsAnnounced /\ AlarmsHanded

\* The first alarm of a set that is not empty belongs to it.
LEMMA FirstAlarm == ASSUME NEW X \in SUBSET Ids, X # {} PROVE A!Min(X) \in X
  <1>1. X \subseteq Nat
    BY ServerAssumption DEF A!AlarmsAssumption
  <1>2. PICK x \in X : \A y \in X : ~(<<y, x>> \in OpToRel(<, Nat))
    BY <1>1, NatLessThanWellFounded, WFMin
  <1>3. ASSUME NEW y \in X PROVE x <= y
    <2>1. x \in Nat /\ y \in Nat
      BY <1>1
    <2>2. <<y, x>> \in Nat \X Nat /\ <<y, x>>[1] = y /\ <<y, x>>[2] = x
      BY <2>1
    <2>3. ~(y < x)
      BY <1>2, <2>2 DEF OpToRel
    <2> QED BY <2>1, <2>3
  <1> QED BY <1>3 DEF A!Min

LEMMA CurrentAlarm == ASSUME AlarmsTypes, loop.todo # {} PROVE A!Current \in loop.todo
  <1>1. loop.todo \in SUBSET Ids
    BY DEF AlarmsTypes, LoopState
  <1> QED BY <1>1, FirstAlarm DEF A!Current

\* A set that is finite, laid out as a sequence.
LEMMA AsSequence ==
    ASSUME NEW X, IsFiniteSet(X)
    PROVE  /\ A!SetToSeq(X) \in Seq(X)
           /\ \A m, n \in DOMAIN A!SetToSeq(X) : A!SetToSeq(X)[m] = A!SetToSeq(X)[n] => m = n
  <1>1. Cardinality(X) \in Nat /\ ExistsBijection(1..Cardinality(X), X)
    BY FS_CardinalityType
  <1>2. PICK g \in [1..Cardinality(X) -> X] : \A m, n \in DOMAIN g : g[m] = g[n] => m = n
    BY <1>1 DEF ExistsBijection, Bijection, Injection, IsInjective
  <1>3. A!Cardinality(X) = Cardinality(X)
    BY DEF A!Cardinality, Cardinality
  <1>4. A!IsInjective(g)
    BY <1>2 DEF A!IsInjective
  <1>5. /\ A!SetToSeq(X) \in [1..Cardinality(X) -> X]
        /\ A!IsInjective(A!SetToSeq(X))
    BY <1>3, <1>4 DEF A!SetToSeq
  <1> QED BY <1>1, <1>5 DEF A!IsInjective

LEMMA AlarmsInit == ASSUME A!Init PROVE AlarmsInv
  <1>1. /\ alarms = [a \in Ids |-> [due |-> FALSE, fired |-> FALSE, active |-> TRUE]]
        /\ loop = [pc |-> "rest", todo |-> {}, slots |-> <<>>, at |-> 1, shared |-> FALSE]
        /\ begun = [a \in Ids |-> 0] /\ got = [t \in Tabs |-> 0]
        /\ owed = {} /\ shaken = FALSE /\ crashed = FALSE
        /\ inbox = [t \in Tabs |-> <<>>] /\ conns = A!SetToSeq(Tabs)
    BY DEF A!Init, A!Resting
  <1>2. conns \in Seq(Tabs) /\ \A m, n \in DOMAIN conns : conns[m] = conns[n] => m = n
    <2>1. IsFiniteSet(Tabs)
      BY ServerAssumption DEF A!AlarmsAssumption, A!IsFiniteSet, IsFiniteSet
    <2> QED BY <1>1, <2>1, AsSequence
  <1>3. /\ inbox \in [Tabs -> Seq(Ids \cup {0})]
        /\ \A t \in Tabs : Len(inbox[t]) <= Buffer
    <2>1. <<>> \in Seq(Ids \cup {0}) /\ Len(<<>>) = 0 /\ Buffer \in Nat
      BY ServerAssumption DEF A!AlarmsAssumption
    <2> QED BY <1>1, <2>1
  <1>4. alarms \in [DOMAIN alarms -> Alarm] /\ DOMAIN alarms \subseteq Ids
    BY <1>1 DEF Alarm
  <1>5. loop \in LoopState
    <2>1. <<>> \in Seq(Tabs \cup {Closed})
      OBVIOUS
    <2> QED BY <1>1, <2>1 DEF LoopState
  <1>6. AlarmsTypes
    BY <1>1, <1>2, <1>3, <1>4, <1>5 DEF AlarmsTypes
  <1>7. AlarmsAnnounced
    BY <1>1 DEF AlarmsAnnounced
  <1>8. AlarmsHanded
    BY <1>1 DEF AlarmsHanded, HandedRest, HandedShared, HandedOwed, HandedOnce
  <1> QED BY <1>6, <1>7, <1>8 DEF AlarmsInv

\* A tab unsubscribes.
LEMMA AlarmsUnsubscribe ==
    ASSUME AlarmsTypes, NEW t \in Tabs, A!Unsubscribe(t)
    PROVE  \E i \in DOMAIN conns :
              /\ conns[i] = t /\ conns' = Without(conns, i)
              /\ loop' = [loop EXCEPT !.slots = A!Shifted(loop.slots, i),
                                      !.shared = loop.shared /\ Len(conns) > 1]
              /\ owed' = IF i < loop.at THEN {} ELSE owed \ {t}
              /\ inbox' = [inbox EXCEPT ![t] = <<>>]
              /\ shaken' = (loop.pc = "loop")
              /\ UNCHANGED <<alarms, begun, got, crashed>>
  <1> DEFINE i == CHOOSE n \in DOMAIN conns : conns[n] = t
  <1>1. \E n \in DOMAIN conns : conns[n] = t
    BY DEF A!Unsubscribe, A!Range
  <1>2. i \in DOMAIN conns /\ conns[i] = t
    BY <1>1
  <1>3. /\ conns' = Without(conns, i)
        /\ loop' = [loop EXCEPT !.slots = A!Shifted(loop.slots, i),
                                !.shared = loop.shared /\ Len(conns) > 1]
        /\ owed' = IF i < loop.at THEN {} ELSE owed \ {t}
    BY DEF A!Unsubscribe, A!RemoveAt, Without
  <1>4. /\ inbox' = [inbox EXCEPT ![t] = <<>>]
        /\ shaken' = (loop.pc = "loop")
        /\ UNCHANGED <<alarms, begun, got, crashed>>
    BY DEF A!Unsubscribe
  <1> HIDE DEF i
  <1> QED BY <1>2, <1>3, <1>4

\* What a slot holds afterwards.
LEMMA AlarmsShifted ==
    ASSUME AlarmsTypes, NEW i \in DOMAIN conns
    PROVE  /\ A!Shifted(loop.slots, i) \in Seq(Tabs \cup {Closed})
           /\ Len(A!Shifted(loop.slots, i)) = Len(loop.slots)
           /\ \A n \in DOMAIN loop.slots :
                 A!Shifted(loop.slots, i)[n] =
                    IF loop.shared /\ i <= n /\ n < Len(conns) THEN conns[n + 1]
                    ELSE IF loop.slots[n] = conns[i] THEN Closed ELSE loop.slots[n]
  <1> DEFINE ss == loop.slots
             r == A!Shifted(ss, i)
             X == Tabs \cup {Closed}
  <1>1. ss \in Seq(X) /\ conns \in Seq(Tabs)
    BY DEF AlarmsTypes, LoopState
  <1>2. /\ DOMAIN r = DOMAIN ss
        /\ \A n \in DOMAIN ss : r[n] = IF loop.shared /\ i <= n /\ n < Len(conns) THEN conns[n + 1]
                                       ELSE IF ss[n] = conns[i] THEN Closed ELSE ss[n]
    BY DEF A!Shifted
  <1>3. r = [n \in DOMAIN ss |-> r[n]]
    BY DEF A!Shifted
  <1> HIDE DEF ss, r, X
  <1>4. i \in 1..Len(conns) /\ Len(conns) \in Nat /\ Len(ss) \in Nat /\ DOMAIN ss = 1..Len(ss)
    BY <1>1
  <1>5. ASSUME NEW n \in DOMAIN ss PROVE r[n] \in X
    <2>1. ss[n] \in X /\ n \in Nat \ {0}
      BY <1>1, <1>4, <1>5
    <2>2. CASE loop.shared /\ i <= n /\ n < Len(conns)
      <3>1. r[n] = conns[n + 1]
        BY <1>2, <2>2
      <3>2. n + 1 \in 1..Len(conns)
        BY <1>4, <2>1, <2>2
      <3> QED BY <1>1, <3>1, <3>2 DEF X
    <2>3. CASE ~(loop.shared /\ i <= n /\ n < Len(conns))
      <3>1. r[n] = IF ss[n] = conns[i] THEN Closed ELSE ss[n]
        BY <1>2, <2>3
      <3> QED BY <2>1, <3>1 DEF X
    <2> QED BY <2>2, <2>3
  <1>6. r \in [1..Len(ss) -> X]
    BY <1>3, <1>4, <1>5
  <1>7. r \in Seq(X) /\ Len(r) = Len(ss)
    BY <1>4, <1>6
  <1> QED BY <1>2, <1>7 DEF ss, r, X

\* A tab subscribes: a slot of the present loop may become its own.
LEMMA AlarmsSubscribe ==
    ASSUME AlarmsTypes, NEW t \in Tabs, A!Subscribe(t)
    PROVE  /\ \A n \in DOMAIN conns : conns[n] # t
           /\ conns' \in Seq(Tabs) /\ Len(conns') = Len(conns) + 1
           /\ \A n \in DOMAIN conns' : conns'[n] = IF n = Len(conns) + 1 THEN t ELSE conns[n]
           /\ \/ /\ loop.shared /\ Len(conns) < Len(loop.slots)
                 /\ loop' = [loop EXCEPT !.slots = [loop.slots EXCEPT ![Len(conns) + 1] = t]]
              \/ /\ ~(loop.shared /\ Len(conns) < Len(loop.slots))
                 /\ \E room \in BOOLEAN : loop' = [loop EXCEPT !.shared = loop.shared /\ room]
           /\ UNCHANGED <<alarms, inbox, begun, got, owed, shaken, crashed>>
  <1>1. conns \in Seq(Tabs)
    BY DEF AlarmsTypes
  <1>2. conns' = Append(conns, t) /\ \A n \in DOMAIN conns : conns[n] # t
    BY DEF A!Subscribe, A!Range
  <1>3. /\ conns' \in Seq(Tabs) /\ Len(conns') = Len(conns) + 1
        /\ \A n \in DOMAIN conns' : conns'[n] = IF n = Len(conns) + 1 THEN t ELSE conns[n]
    BY <1>1, <1>2
  <1>4. \/ /\ loop.shared /\ Len(conns) < Len(loop.slots)
           /\ loop' = [loop EXCEPT !.slots = [loop.slots EXCEPT ![Len(conns) + 1] = t]]
        \/ /\ ~(loop.shared /\ Len(conns) < Len(loop.slots))
           /\ \E room \in BOOLEAN : loop' = [loop EXCEPT !.shared = loop.shared /\ room]
    BY DEF A!Subscribe
  <1>5. UNCHANGED <<alarms, inbox, begun, got, owed, shaken, crashed>>
    BY DEF A!Subscribe, A!history
  <1> QED BY <1>2, <1>3, <1>4, <1>5

\* What the loop of Notify does at a slot.
LEMMA AlarmsHandOver ==
    ASSUME AlarmsTypes, A!HandOver, loop.todo # {}
    PROVE  /\ loop.pc = "loop" /\ loop.at \in DOMAIN loop.slots
           /\ loop' = [loop EXCEPT !.at = loop.at + 1]
           /\ inbox' \in [Tabs -> Seq(Ids \cup {0})] /\ \A t \in Tabs : Len(inbox'[t]) <= Buffer
           /\ got' \in [Tabs -> Nat] /\ owed' \subseteq owed
           /\ \A t \in Tabs \ {loop.slots[loop.at]} : got'[t] = got[t]
           /\ loop.slots[loop.at] \in Tabs =>
                 LET t == loop.slots[loop.at]
                 IN  /\ got'[t] = got[t] \/ got'[t] = got[t] + 1
                     /\ t \in owed' => got'[t] = got[t] + 1
           /\ UNCHANGED <<alarms, conns, begun, shaken, crashed>>
  <1> DEFINE t == loop.slots[loop.at]
             a == A!Current
             boxes == Seq(Ids \cup {0})
  <1>1. /\ loop.pc = "loop" /\ loop.at \in DOMAIN loop.slots /\ t \in Tabs \cup {Closed}
        /\ loop' = [loop EXCEPT !.at = loop.at + 1]
        /\ UNCHANGED <<alarms, conns, begun, shaken, crashed>>
    BY DEF A!HandOver, AlarmsTypes, LoopState
  <1>2. /\ Buffer \in Nat /\ Closed \notin Tabs /\ a \in Ids \cup {0}
        /\ inbox \in [Tabs -> boxes] /\ \A u \in Tabs : Len(inbox[u]) <= Buffer
        /\ got \in [Tabs -> Nat] /\ owed \subseteq Tabs
    BY ServerAssumption, CurrentAlarm DEF A!AlarmsAssumption, AlarmsTypes, LoopState
  <1>3. \/ t = Closed /\ UNCHANGED <<inbox, got, owed>>
        \/ /\ t # Closed /\ inbox' = [inbox EXCEPT ![t] = A!Hand(t, a)]
           /\ got' = [got EXCEPT ![t] = got[t] + Len(inbox'[t]) - Len(inbox[t])]
           /\ owed' = IF Len(inbox[t]) = Buffer THEN owed \ {t} ELSE owed
    BY DEF A!HandOver
  <1> HIDE DEF t, a, boxes
  <1>4. CASE t = Closed
    BY <1>1, <1>2, <1>3, <1>4 DEF t, boxes
  <1>5. CASE t # Closed
    <2>1. /\ t \in Tabs /\ inbox[t] \in boxes /\ Len(inbox[t]) \in Nat /\ got[t] \in Nat
          /\ Len(inbox[t]) <= Buffer
      BY <1>1, <1>2, <1>5 DEF boxes
    <2>2. /\ A!Hand(t, a) \in boxes /\ Len(A!Hand(t, a)) <= Buffer
          /\ Len(A!Hand(t, a)) = IF Len(inbox[t]) < Buffer THEN Len(inbox[t]) + 1 ELSE Len(inbox[t])
      BY <1>2, <2>1 DEF A!Hand, boxes
    <2>3. inbox' \in [Tabs -> boxes] /\ \A u \in Tabs : Len(inbox'[u]) <= Buffer
      BY <1>2, <1>3, <1>5, <2>1, <2>2
    <2>4. inbox'[t] = A!Hand(t, a)
      BY <1>2, <1>3, <1>5, <2>1
    <2> DEFINE more == got[t] + Len(inbox'[t]) - Len(inbox[t])
    <2>5. more = IF Len(inbox[t]) < Buffer THEN got[t] + 1 ELSE got[t]
      BY <2>1, <2>2, <2>4
    <2>6. got' = [got EXCEPT ![t] = more]
      BY <1>3, <1>5
    <2> HIDE DEF more
    <2>7. /\ got' \in [Tabs -> Nat] /\ got'[t] = more
          /\ \A u \in Tabs \ {t} : got'[u] = got[u]
      BY <1>2, <2>1, <2>5, <2>6
    <2>8. owed' \subseteq owed /\ (t \in owed' => Len(inbox[t]) # Buffer)
      BY <1>3, <1>5
    <2>9. t \in owed' => got'[t] = got[t] + 1
      BY <1>2, <2>1, <2>5, <2>7, <2>8
    <2> QED BY <1>1, <2>3, <2>5, <2>7, <2>8, <2>9 DEF t, boxes
  <1> QED BY <1>4, <1>5

LEMMA AlarmsTypesNext == ASSUME AlarmsInv, [A!Next]_(A!vars) PROVE AlarmsTypes'
  <1>1. /\ AlarmsTypes
        /\ alarms \in [DOMAIN alarms -> Alarm] /\ DOMAIN alarms \subseteq Ids
        /\ conns \in Seq(Tabs)
        /\ \A m, n \in DOMAIN conns : conns[m] = conns[n] => m = n
        /\ loop \in LoopState
        /\ inbox \in [Tabs -> Seq(Ids \cup {0})] /\ \A t \in Tabs : Len(inbox[t]) <= Buffer
        /\ begun \in [Ids -> Nat] /\ got \in [Tabs -> Nat]
        /\ owed \subseteq Tabs /\ shaken \in BOOLEAN /\ crashed \in BOOLEAN
    BY DEF AlarmsInv, AlarmsTypes
  <1>2. Buffer \in Nat \ {0} /\ Len(<<>>) = 0 /\ <<>> \in Seq(Ids \cup {0}) /\ <<>> \in Seq(Tabs)
    BY ServerAssumption DEF A!AlarmsAssumption
  <1>3. A!Resting \in LoopState
    BY DEF A!Resting, LoopState
  <1> DEFINE Slotted == Seq(Tabs \cup {Closed})
  <1>16. ASSUME NEW l \in LoopState
         PROVE  /\ l.at + 1 \in Nat \ {0} /\ l.slots \in Slotted /\ l.todo \in SUBSET Ids
                /\ [l EXCEPT !.at = l.at + 1] \in LoopState
                /\ \A X \in SUBSET Ids : [l EXCEPT !.pc = "mark", !.todo = X] \in LoopState
                /\ \A s \in Slotted : [l EXCEPT !.pc = "loop", !.slots = s, !.at = 1,
                                                !.shared = TRUE] \in LoopState
                /\ \A s \in Slotted : [l EXCEPT !.slots = s] \in LoopState
    <2> HIDE DEF Slotted
    <2> DEFINE Places == Nat \ {0}
    <2>1. LoopState = [pc : {"rest", "mark", "notify", "loop"}, todo : SUBSET Ids,
                       slots : Slotted, at : Places, shared : BOOLEAN]
      BY DEF LoopState, Slotted
    <2>2. 1 \in Places /\ \A n \in Places : n + 1 \in Places
      OBVIOUS
    <2> HIDE DEF Places
    <2>3. l.at \in Places /\ l.slots \in Slotted /\ l.todo \in SUBSET Ids
      BY <2>1
    <2>4. \A n \in Places : [l EXCEPT !.at = n] \in LoopState
      BY <2>1
    <2>5. /\ \A X \in SUBSET Ids : [l EXCEPT !.pc = "mark", !.todo = X] \in LoopState
          /\ \A s \in Slotted : [l EXCEPT !.slots = s] \in LoopState
      BY <2>1
    <2>6. \A s \in Slotted : [l EXCEPT !.pc = "loop", !.slots = s, !.at = 1,
                                    !.shared = TRUE] \in LoopState
      BY <2>1, <2>2
    <2> QED BY <2>2, <2>3, <2>4, <2>5, <2>6 DEF Places
  <1> HIDE DEF Slotted
  <1>4. ASSUME NEW a \in Ids, A!FallsDue(a) \/ A!Delete(a) \/ A!Acknowledge(a)
        PROVE  AlarmsTypes'
    <2>1. alarms' \in [DOMAIN alarms' -> Alarm] /\ DOMAIN alarms' \subseteq Ids
      <3>1. CASE A!FallsDue(a)
        BY <1>1, <3>1 DEF A!FallsDue, Alarm
      <3>2. CASE A!Acknowledge(a)
        BY <1>1, <3>2 DEF A!Acknowledge, Alarm
      <3>3. CASE A!Delete(a)
        BY <1>1, <3>3 DEF A!Delete
      <3> QED BY <1>4, <3>1, <3>2, <3>3
    <2>2. UNCHANGED <<conns, loop, inbox, begun, got, owed, shaken, crashed>>
      BY <1>4 DEF A!FallsDue, A!Delete, A!Acknowledge, A!history
    <2> QED BY <1>1, <2>1, <2>2 DEF AlarmsTypes
  <1>5. CASE A!Tick
    <2>1. /\ UNCHANGED <<alarms, conns, inbox, begun, got, owed, shaken, crashed>>
          /\ \E ready \in SUBSET DOMAIN alarms :
                loop' = [A!Resting EXCEPT !.pc = "mark", !.todo = ready]
      BY <1>5 DEF A!Tick, A!history
    <2>2. loop' \in LoopState
      BY <1>1, <1>3, <2>1 DEF LoopState
    <2> QED BY <1>1, <2>1, <2>2 DEF AlarmsTypes
  <1>6. CASE A!Mark
    <2>1. /\ UNCHANGED <<conns, inbox, begun, got, owed, shaken, crashed>>
          /\ alarms' = A!Marked /\ loop' = [loop EXCEPT !.pc = "notify"]
      BY <1>6 DEF A!Mark, A!history
    <2>2. alarms' \in [DOMAIN alarms' -> Alarm] /\ DOMAIN alarms' \subseteq Ids
      <3>1. \A a \in DOMAIN alarms : /\ alarms[a] \in Alarm
                                     /\ [alarms[a] EXCEPT !.fired = TRUE] \in Alarm
        BY <1>1 DEF Alarm
      <3> QED BY <1>1, <2>1, <3>1 DEF A!Marked
    <2>3. loop' \in LoopState
      BY <1>1, <2>1 DEF LoopState
    <2> QED BY <1>1, <2>1, <2>2, <2>3 DEF AlarmsTypes
  <1>7. CASE A!TakeSlice
    <2>1. /\ UNCHANGED <<alarms, conns, inbox, got, shaken, crashed>>
          /\ loop' = [loop EXCEPT !.pc = "loop", !.slots = conns, !.at = 1, !.shared = TRUE]
          /\ begun' = [begun EXCEPT ![A!Current] = @ + 1]
          /\ owed' = {conns[n] : n \in DOMAIN conns}
      BY <1>7 DEF A!TakeSlice, A!Range
    <2>2. conns \in Slotted
      BY <1>1 DEF Slotted
    <2>3. loop' \in LoopState
      BY <1>1, <1>16, <2>1, <2>2
    <2>4. begun' \in [Ids -> Nat]
      <3>1. \A a \in Ids : begun[a] + 1 \in Nat
        BY <1>1
      <3> QED BY <1>1, <2>1, <3>1
    <2>5. owed' \subseteq Tabs
      <3>1. \A n \in DOMAIN conns : conns[n] \in Tabs
        BY <1>1
      <3> QED BY <2>1, <3>1
    <2> QED BY <1>1, <2>1, <2>3, <2>4, <2>5 DEF AlarmsTypes
  <1>8. CASE A!HandOver
    <2>1. loop.todo # {}
      BY <1>8 DEF A!HandOver, AlarmsInv, AlarmsAnnounced
    <2>2. loop' = [loop EXCEPT !.at = loop.at + 1]
      BY <1>1, <1>8, <2>1, AlarmsHandOver
    <2>3. loop' \in LoopState
      BY <1>1, <1>16, <2>2
    <2> QED BY <1>1, <1>8, <2>1, <2>3, AlarmsHandOver DEF AlarmsTypes
  <1>9. CASE A!NextAlarm
    <2>1. /\ UNCHANGED <<alarms, conns, inbox, begun, crashed>>
          /\ \/ loop' = A!Resting
             \/ loop' = [A!Resting EXCEPT !.pc = "mark", !.todo = loop.todo \ {A!Current}]
          /\ got' = [t \in Tabs |-> 0] /\ owed' = {} /\ shaken' = FALSE
      BY <1>9 DEF A!NextAlarm
    <2>2. loop' \in LoopState
      <3>1. loop.todo \ {A!Current} \in SUBSET Ids
        BY <1>1, <1>16
      <3> QED BY <1>3, <1>16, <2>1, <3>1
    <2> QED BY <1>1, <2>1, <2>2 DEF AlarmsTypes
  <1>10. ASSUME NEW t \in Tabs, A!Unsubscribe(t) PROVE AlarmsTypes'
    <2>1. PICK i \in DOMAIN conns :
              /\ conns[i] = t /\ conns' = Without(conns, i)
              /\ loop' = [loop EXCEPT !.slots = A!Shifted(loop.slots, i),
                                      !.shared = loop.shared /\ Len(conns) > 1]
              /\ owed' = IF i < loop.at THEN {} ELSE owed \ {t}
              /\ inbox' = [inbox EXCEPT ![t] = <<>>]
              /\ shaken' = (loop.pc = "loop")
              /\ UNCHANGED <<alarms, begun, got, crashed>>
      BY <1>1, <1>10, AlarmsUnsubscribe
    <2>2. /\ conns' \in Seq(Tabs) /\ Len(conns') = Len(conns) - 1
          /\ \A n \in DOMAIN conns' : conns'[n] = IF n < i THEN conns[n] ELSE conns[n + 1]
      BY <1>1, <2>1, Removing
    <2>3. \A m, n \in DOMAIN conns' : conns'[m] = conns'[n] => m = n
      <3>1. /\ i \in 1..Len(conns) /\ Len(conns) \in Nat /\ DOMAIN conns = 1..Len(conns)
            /\ DOMAIN conns' = 1..(Len(conns) - 1)
        BY <1>1, <2>2
      <3> DEFINE old(n) == IF n < i THEN n ELSE n + 1
      <3>2. \A n \in DOMAIN conns' : old(n) \in DOMAIN conns /\ conns'[n] = conns[old(n)]
        BY <2>2, <3>1
      <3>3. \A m, n \in DOMAIN conns' : old(m) = old(n) => m = n
        BY <3>1
      <3> HIDE DEF old
      <3> QED BY <1>1, <3>2, <3>3
    <2>4. loop' \in LoopState
      <3>1. A!Shifted(loop.slots, i) \in Seq(Tabs \cup {Closed})
        BY <1>1, AlarmsShifted
      <3> QED BY <1>1, <2>1, <3>1 DEF LoopState
    <2>5. inbox' \in [Tabs -> Seq(Ids \cup {0})] /\ \A u \in Tabs : Len(inbox'[u]) <= Buffer
      BY <1>1, <1>2, <2>1
    <2> QED BY <1>1, <2>1, <2>2, <2>3, <2>4, <2>5 DEF AlarmsTypes
  <1>11. ASSUME NEW t \in Tabs, A!Subscribe(t) PROVE AlarmsTypes'
    <2>1. /\ \A n \in DOMAIN conns : conns[n] # t
          /\ conns' \in Seq(Tabs) /\ Len(conns') = Len(conns) + 1
          /\ \A n \in DOMAIN conns' : conns'[n] = IF n = Len(conns) + 1 THEN t ELSE conns[n]
          /\ \/ /\ loop.shared /\ Len(conns) < Len(loop.slots)
                /\ loop' = [loop EXCEPT !.slots = [loop.slots EXCEPT ![Len(conns) + 1] = t]]
             \/ /\ ~(loop.shared /\ Len(conns) < Len(loop.slots))
                /\ \E room \in BOOLEAN : loop' = [loop EXCEPT !.shared = loop.shared /\ room]
          /\ UNCHANGED <<alarms, inbox, begun, got, owed, shaken, crashed>>
      BY <1>1, <1>11, AlarmsSubscribe
    <2>2. \A m, n \in DOMAIN conns' : conns'[m] = conns'[n] => m = n
      <3>1. /\ Len(conns) \in Nat /\ DOMAIN conns = 1..Len(conns)
            /\ DOMAIN conns' = 1..(Len(conns) + 1)
        BY <1>1, <2>1
      <3>2. \A n \in DOMAIN conns' : n # Len(conns) + 1 => n \in DOMAIN conns
        BY <3>1
      <3> QED BY <1>1, <2>1, <3>2
    <2>3. loop' \in LoopState
      <3>1. loop.slots \in Slotted
        BY <1>1, <1>16
      <3>2. [loop.slots EXCEPT ![Len(conns) + 1] = t] \in Slotted
        <4>1. loop.slots \in [1..Len(loop.slots) -> Tabs \cup {Closed}] /\ Len(loop.slots) \in Nat
          BY <3>1 DEF Slotted
        <4>2. [loop.slots EXCEPT ![Len(conns) + 1] = t]
                 \in [1..Len(loop.slots) -> Tabs \cup {Closed}]
          BY <4>1
        <4> QED BY <4>1, <4>2 DEF Slotted
      <3>3. CASE loop' = [loop EXCEPT !.slots = [loop.slots EXCEPT ![Len(conns) + 1] = t]]
        BY <1>1, <1>16, <3>2, <3>3
      <3>4. CASE \E room \in BOOLEAN : loop' = [loop EXCEPT !.shared = loop.shared /\ room]
        BY <1>1, <3>4 DEF LoopState
      <3> QED BY <2>1, <3>3, <3>4
    <2> QED BY <1>1, <2>1, <2>2, <2>3 DEF AlarmsTypes
  <1>12. CASE A!Crash
    <2>1. /\ conns' = <<>> /\ loop' = A!Resting
          /\ inbox' = [t \in Tabs |-> <<>>]
          /\ got' = [t \in Tabs |-> 0] /\ owed' = {} /\ shaken' = FALSE /\ crashed' = TRUE
          /\ UNCHANGED <<alarms, begun>>
      BY <1>12 DEF A!Crash
    <2>2. inbox' \in [Tabs -> Seq(Ids \cup {0})] /\ \A t \in Tabs : Len(inbox'[t]) <= Buffer
      BY <1>2, <2>1
    <2>3. DOMAIN conns' = {}
      BY <2>1
    <2> QED BY <1>1, <1>2, <1>3, <2>1, <2>2, <2>3 DEF AlarmsTypes
  <1>13. CASE A!Inform
    <2>1. /\ inbox' = [t \in Tabs |-> IF t \in A!Range(conns) THEN A!Hand(t, 0) ELSE inbox[t]]
          /\ UNCHANGED <<alarms, conns, loop, begun, got, owed, shaken, crashed>>
      BY <1>13 DEF A!Inform, A!server, A!history, A!Info
    <2>2. \A t \in Tabs : A!Hand(t, 0) \in Seq(Ids \cup {0}) /\ Len(A!Hand(t, 0)) <= Buffer
      BY <1>1, <1>2 DEF A!Hand
    <2>3. inbox' \in [Tabs -> Seq(Ids \cup {0})] /\ \A t \in Tabs : Len(inbox'[t]) <= Buffer
      BY <1>1, <2>1, <2>2
    <2> QED BY <1>1, <2>1, <2>3 DEF AlarmsTypes
  <1>14. ASSUME NEW t \in Tabs, A!Arrives(t) PROVE AlarmsTypes'
    <2>1. /\ inbox[t] # <<>> /\ inbox' = [inbox EXCEPT ![t] = Tail(inbox[t])]
          /\ UNCHANGED <<alarms, conns, loop, begun, got, owed, shaken, crashed>>
      BY <1>14 DEF A!Arrives, A!server, A!history
    <2>2. /\ Tail(inbox[t]) \in Seq(Ids \cup {0}) /\ Len(Tail(inbox[t])) = Len(inbox[t]) - 1
          /\ Len(inbox[t]) \in Nat
      BY <1>1, <2>1, HeadTailProperties
    <2>3. inbox' \in [Tabs -> Seq(Ids \cup {0})] /\ \A u \in Tabs : Len(inbox'[u]) <= Buffer
      BY <1>1, <1>2, <2>1, <2>2
    <2> QED BY <1>1, <2>1, <2>3 DEF AlarmsTypes
  <1>15. CASE UNCHANGED A!vars
    BY <1>1, <1>15 DEF A!vars, A!server, A!history, AlarmsTypes
  <1> QED BY <1>4, <1>5, <1>6, <1>7, <1>8, <1>9, <1>10, <1>11, <1>12, <1>13, <1>14, <1>15
          DEF A!Next, A!Scheduler, A!Connections, A!Users

\* What a step does to the alarms, to the scheduler and to the count of announcements.
LEMMA AlarmsAnnouncedNext == ASSUME AlarmsInv, [A!Next]_(A!vars) PROVE AlarmsAnnounced'
  <1>1. /\ AlarmsTypes /\ AlarmsAnnounced
        /\ alarms \in [DOMAIN alarms -> Alarm] /\ DOMAIN alarms \subseteq Ids
        /\ loop \in LoopState /\ begun \in [Ids -> Nat]
        /\ loop.todo \in SUBSET Ids
    BY DEF AlarmsInv, AlarmsTypes, LoopState
  <1>2. loop.todo # {} => A!Current \in loop.todo
    BY <1>1, CurrentAlarm
  <1>3. \A a \in DOMAIN alarms : alarms[a] \in Alarm
    BY <1>1
  <1>4. A!Resting = [pc |-> "rest", todo |-> {}, slots |-> <<>>, at |-> 1, shared |-> FALSE]
    BY DEF A!Resting
  \* A step that leaves the scheduler where it is.
  <1>5. ASSUME begun' = begun, loop'.pc = loop.pc, loop'.todo = loop.todo, crashed' = crashed,
               DOMAIN alarms' \subseteq DOMAIN alarms,
               \A a \in DOMAIN alarms' : alarms'[a].fired = alarms[a].fired
        PROVE  AlarmsAnnounced'
    <2>1. A!Current' = A!Current
      BY <1>5 DEF A!Current
    <2> QED BY <1>1, <1>5, <2>1 DEF AlarmsAnnounced
  <1>6. ASSUME NEW a \in Ids, A!FallsDue(a) \/ A!Delete(a) \/ A!Acknowledge(a)
        PROVE  AlarmsAnnounced'
    <2>1. begun' = begun /\ loop' = loop /\ crashed' = crashed
      BY <1>6 DEF A!FallsDue, A!Delete, A!Acknowledge, A!history
    <2>2. DOMAIN alarms' \subseteq DOMAIN alarms
      BY <1>6 DEF A!FallsDue, A!Delete, A!Acknowledge
    <2>3. ASSUME NEW b \in DOMAIN alarms' PROVE alarms'[b].fired = alarms[b].fired
      <3>1. alarms[b] \in Alarm /\ b \in DOMAIN alarms
        BY <1>3, <2>2
      <3>2. CASE A!FallsDue(a)
        <4>1. alarms' = [alarms EXCEPT ![a].due = TRUE]
          BY <3>2 DEF A!FallsDue
        <4> QED BY <1>1, <3>1, <4>1 DEF Alarm
      <3>3. CASE A!Acknowledge(a)
        <4>1. alarms' = [alarms EXCEPT ![a].active = FALSE]
          BY <3>3 DEF A!Acknowledge
        <4> QED BY <1>1, <3>1, <4>1 DEF Alarm
      <3>4. CASE A!Delete(a)
        BY <3>4 DEF A!Delete
      <3> QED BY <1>6, <3>2, <3>3, <3>4
    <2> QED BY <1>5, <2>1, <2>2, <2>3
  <1>7. CASE A!Tick
    <2>1. /\ UNCHANGED <<alarms, begun, crashed>> /\ loop.pc = "rest"
          /\ \E ready \in SUBSET {a \in DOMAIN alarms : ~alarms[a].fired} :
                ready # {} /\ loop' = [A!Resting EXCEPT !.pc = "mark", !.todo = ready]
      BY <1>7 DEF A!Tick, A!history
    <2>2. /\ loop'.pc = "mark" /\ loop'.todo # {}
          /\ \A a \in loop'.todo : a \in DOMAIN alarms /\ ~alarms[a].fired
      BY <1>4, <2>1
    <2>3. \A a \in loop'.todo : begun[a] = 0
      BY <1>1, <2>2 DEF AlarmsAnnounced
    <2> QED BY <1>1, <2>1, <2>2, <2>3 DEF AlarmsAnnounced
  <1>8. CASE A!Mark
    <2>1. /\ UNCHANGED <<begun, crashed>> /\ loop.pc = "mark"
          /\ alarms' = A!Marked /\ loop' = [loop EXCEPT !.pc = "notify"]
      BY <1>8 DEF A!Mark, A!history
    <2>2. loop'.pc = "notify" /\ loop'.todo = loop.todo
      BY <1>1, <2>1 DEF LoopState
    <2>3. A!Current' = A!Current
      BY <2>2 DEF A!Current
    <2>4. /\ DOMAIN alarms' = DOMAIN alarms
          /\ \A a \in DOMAIN alarms : alarms'[a].fired = (a = A!Current \/ alarms[a].fired)
      <3>1. \A a \in DOMAIN alarms : /\ alarms[a].fired \in BOOLEAN
                                     /\ [alarms[a] EXCEPT !.fired = TRUE].fired = TRUE
        BY <1>3 DEF Alarm
      <3> QED BY <2>1, <3>1 DEF A!Marked
    <2> QED BY <1>1, <1>2, <2>1, <2>2, <2>3, <2>4 DEF AlarmsAnnounced
  <1>9. CASE A!TakeSlice
    <2>1. /\ UNCHANGED <<alarms, crashed>> /\ loop.pc = "notify"
          /\ loop' = [loop EXCEPT !.pc = "loop", !.slots = conns, !.at = 1, !.shared = TRUE]
          /\ begun' = [begun EXCEPT ![A!Current] = @ + 1]
      BY <1>9 DEF A!TakeSlice
    <2>2. loop'.pc = "loop" /\ loop'.todo = loop.todo
      BY <1>1, <2>1 DEF LoopState
    <2>3. A!Current' = A!Current
      BY <2>2 DEF A!Current
    <2>4. A!Current \in loop.todo /\ A!Current \in Ids
      BY <1>1, <1>2, <2>1 DEF AlarmsAnnounced
    <2>5. begun[A!Current] = 0
      BY <1>1, <2>1, <2>4 DEF AlarmsAnnounced
    <2>6. /\ begun'[A!Current] = 1
          /\ \A a \in Ids \ {A!Current} : begun'[a] = begun[a]
      BY <1>1, <2>1, <2>4, <2>5
    <2> QED BY <1>1, <2>1, <2>2, <2>3, <2>4, <2>5, <2>6 DEF AlarmsAnnounced
  <1>10. CASE A!HandOver
    <2>1. UNCHANGED <<alarms, begun, crashed>> /\ loop' = [loop EXCEPT !.at = loop.at + 1]
      BY <1>10 DEF A!HandOver
    <2>2. loop'.pc = loop.pc /\ loop'.todo = loop.todo
      BY <1>1, <2>1 DEF LoopState
    <2> QED BY <1>5, <2>1, <2>2
  <1>11. CASE A!NextAlarm
    <2>1. /\ UNCHANGED <<alarms, begun, crashed>> /\ loop.pc = "loop"
          /\ loop' = IF loop.todo = {A!Current} THEN A!Resting
                     ELSE [A!Resting EXCEPT !.pc = "mark", !.todo = loop.todo \ {A!Current}]
      BY <1>11 DEF A!NextAlarm
    <2>2. /\ loop'.pc \in {"rest", "mark"} /\ loop'.todo \subseteq loop.todo \ {A!Current}
          /\ loop'.pc = "rest" \/ loop'.todo # {}
      BY <1>1, <1>2, <1>4, <2>1 DEF AlarmsAnnounced
    <2>3. \A a \in loop'.todo : begun[a] = 0
      BY <1>1, <2>2 DEF AlarmsAnnounced
    <2> QED BY <1>1, <2>1, <2>2, <2>3 DEF AlarmsAnnounced
  <1>12. ASSUME NEW t \in Tabs, A!Unsubscribe(t) PROVE AlarmsAnnounced'
    <2>1. PICK i : /\ UNCHANGED <<alarms, begun, crashed>>
                   /\ loop' = [loop EXCEPT !.slots = A!Shifted(loop.slots, i),
                                           !.shared = loop.shared /\ Len(conns) > 1]
      BY <1>1, <1>12, AlarmsUnsubscribe
    <2>2. loop'.pc = loop.pc /\ loop'.todo = loop.todo
      BY <1>1, <2>1 DEF LoopState
    <2> QED BY <1>5, <2>1, <2>2
  <1>13. ASSUME NEW t \in Tabs, A!Subscribe(t) PROVE AlarmsAnnounced'
    <2>1. /\ UNCHANGED <<alarms, begun, crashed>>
          /\ \/ loop' = [loop EXCEPT !.slots = [loop.slots EXCEPT ![Len(conns) + 1] = t]]
             \/ \E room \in BOOLEAN : loop' = [loop EXCEPT !.shared = loop.shared /\ room]
      BY <1>1, <1>13, AlarmsSubscribe
    <2>2. loop'.pc = loop.pc /\ loop'.todo = loop.todo
      BY <1>1, <2>1 DEF LoopState
    <2> QED BY <1>5, <2>1, <2>2
  <1>14. CASE A!Crash
    <2>1. loop' = A!Resting /\ crashed' = TRUE /\ UNCHANGED <<alarms, begun>>
      BY <1>14 DEF A!Crash
    <2>2. loop'.pc = "rest" /\ loop'.todo = {}
      BY <1>4, <2>1
    <2> QED BY <1>1, <2>1, <2>2 DEF AlarmsAnnounced
  <1>15. CASE \/ A!Inform \/ \E t \in Tabs : A!Arrives(t)
              \/ UNCHANGED A!vars
    <2>1. UNCHANGED <<alarms, loop, begun, crashed>>
      BY <1>15 DEF A!Inform, A!Arrives, A!vars, A!server, A!history
    <2> QED BY <1>5, <2>1
  <1> QED BY <1>6, <1>7, <1>8, <1>9, <1>10, <1>11, <1>12, <1>13, <1>14, <1>15
          DEF A!Next, A!Scheduler, A!Connections, A!Users

\* What a step does to the slots and to those who are owed the alarm.
LEMMA AlarmsHandedNext == ASSUME AlarmsInv, [A!Next]_(A!vars) PROVE AlarmsHanded'
  <1> DEFINE slots == loop.slots
  <1>1. /\ AlarmsTypes /\ HandedRest /\ HandedShared /\ HandedOwed /\ HandedOnce
        /\ conns \in Seq(Tabs) /\ DOMAIN conns = 1..Len(conns) /\ Len(conns) \in Nat
        /\ \A m, n \in DOMAIN conns : conns[m] = conns[n] => m = n
        /\ loop \in LoopState /\ got \in [Tabs -> Nat] /\ owed \subseteq Tabs
        /\ loop.at \in Nat \ {0} /\ slots \in Seq(Tabs \cup {Closed})
        /\ DOMAIN slots = 1..Len(slots) /\ Len(slots) \in Nat
        /\ loop.shared \in BOOLEAN
    BY DEF AlarmsInv, AlarmsTypes, LoopState, AlarmsHanded
  <1>2. Closed \notin Tabs
    BY ServerAssumption DEF A!AlarmsAssumption
  <1>3. A!Resting = [pc |-> "rest", todo |-> {}, slots |-> <<>>, at |-> 1, shared |-> FALSE]
    BY DEF A!Resting
  \* A step outside of the loop.
  <1>4. ASSUME loop'.pc # "loop", ~loop'.shared, \A t \in Tabs : got'[t] = 0
        PROVE  AlarmsHanded'
    BY <1>4 DEF AlarmsHanded, HandedRest, HandedShared, HandedOwed, HandedOnce
  \* A step that leaves everything the loop looks at.
  <1>5. ASSUME conns' = conns, got' = got, owed' = owed, shaken' = shaken, loop'.pc = loop.pc,
               loop'.slots = slots, loop'.at = loop.at, loop'.shared = loop.shared
        PROVE  AlarmsHanded'
    <2>1. HandedRest'
      BY <1>1, <1>5 DEF HandedRest
    <2>2. HandedShared'
      BY <1>1, <1>5 DEF HandedShared
    <2>3. HandedOwed'
      BY <1>1, <1>5, Zenon DEF HandedOwed
    <2>4. HandedOnce'
      BY <1>1, <1>5, Zenon DEF HandedOnce
    <2> QED BY <2>1, <2>2, <2>3, <2>4 DEF AlarmsHanded
  <1>6. ASSUME NEW a \in Ids, A!FallsDue(a) \/ A!Delete(a) \/ A!Acknowledge(a)
        PROVE  AlarmsHanded'
    BY <1>5, <1>6 DEF A!FallsDue, A!Delete, A!Acknowledge, A!history
  <1>7. CASE A!Tick
    <2>1. /\ got' = got /\ loop.pc = "rest"
          /\ \E ready : loop' = [A!Resting EXCEPT !.pc = "mark", !.todo = ready]
      BY <1>7 DEF A!Tick, A!history
    <2>2. loop'.pc = "mark" /\ ~loop'.shared
      BY <1>3, <2>1
    <2> QED BY <1>1, <1>4, <2>1, <2>2 DEF HandedRest
  <1>8. CASE A!Mark
    <2>1. got' = got /\ loop.pc = "mark" /\ loop' = [loop EXCEPT !.pc = "notify"]
      BY <1>8 DEF A!Mark, A!history
    <2>2. loop'.pc = "notify" /\ loop'.shared = loop.shared
      BY <1>1, <2>1 DEF LoopState
    <2> QED BY <1>1, <1>4, <2>1, <2>2 DEF HandedRest
  <1>9. CASE A!TakeSlice
    <2>1. /\ conns' = conns /\ got' = got /\ loop.pc = "notify"
          /\ loop' = [loop EXCEPT !.pc = "loop", !.slots = conns, !.at = 1, !.shared = TRUE]
          /\ owed' = {conns[n] : n \in DOMAIN conns}
      BY <1>9 DEF A!TakeSlice, A!Range
    <2>2. loop'.pc = "loop" /\ loop'.slots = conns /\ loop'.at = 1 /\ loop'.shared
      BY <1>1, <2>1 DEF LoopState
    <2>3. \A t \in owed' : \E n \in DOMAIN conns : conns[n] = t
      BY <2>1
    <2>4. \A n \in DOMAIN conns : conns[n] \in Tabs /\ n >= 1 /\ got[conns[n]] = 0
      BY <1>1, <2>1 DEF HandedRest
    <2>5. HandedRest' /\ HandedShared' /\ HandedOwed'
      BY <1>1, <2>1, <2>2, <2>3 DEF HandedRest, HandedShared, HandedOwed
    <2>6. HandedOnce'
      BY <1>1, <2>1, <2>2, <2>4 DEF HandedOnce
    <2> QED BY <2>5, <2>6 DEF AlarmsHanded
  <1>10. CASE A!HandOver
    <2> DEFINE now1 == slots[loop.at]
    <2>1. loop.todo # {}
      BY <1>10 DEF A!HandOver, AlarmsInv, AlarmsAnnounced
    <2>2. /\ loop.pc = "loop" /\ loop.at \in DOMAIN slots
          /\ loop' = [loop EXCEPT !.at = loop.at + 1]
          /\ got' \in [Tabs -> Nat] /\ owed' \subseteq owed
          /\ \A t \in Tabs \ {now1} : got'[t] = got[t]
          /\ now1 \in Tabs => /\ got'[now1] = got[now1] \/ got'[now1] = got[now1] + 1
                              /\ now1 \in owed' => got'[now1] = got[now1] + 1
          /\ UNCHANGED <<alarms, conns, begun, shaken, crashed>>
      BY <1>1, <1>10, <2>1, AlarmsHandOver
    <2>3. /\ loop'.pc = "loop" /\ loop'.slots = slots /\ loop'.at = loop.at + 1
          /\ loop'.shared = loop.shared
      BY <1>1, <2>2 DEF LoopState
    <2>4. ASSUME NEW t \in owed'
          PROVE  \E n \in DOMAIN slots : /\ slots[n] = t
                                         /\ n < loop.at + 1 => got'[t] >= 1
                                         /\ loop.shared => n \in DOMAIN conns /\ conns[n] = t
      <3>1. PICK n \in DOMAIN slots : /\ slots[n] = t
                                      /\ n < loop.at => got[t] >= 1
                                      /\ loop.shared => n \in DOMAIN conns /\ conns[n] = t
        BY <1>1, <2>2 DEF HandedOwed
      <3>2. t \in Tabs /\ n \in Nat /\ got[t] \in Nat /\ got'[t] \in Nat
        BY <1>1, <2>2
      <3>3. CASE t = now1
        <4>1. now1 \in Tabs /\ now1 \in owed' /\ got'[now1] = got[now1] + 1
          BY <2>2, <3>2, <3>3
        <4>2. got'[t] >= 1
          BY <3>2, <3>3, <4>1
        <4> QED BY <3>1, <4>2
      <3>4. CASE t # now1
        <4>1. n # loop.at /\ got'[t] = got[t]
          BY <2>2, <3>1, <3>2, <3>4
        <4> QED BY <1>1, <3>1, <3>2, <4>1
      <3> QED BY <3>3, <3>4
    <2>5. ASSUME ~shaken', NEW n \in DOMAIN slots
          PROVE  /\ slots[n] \in Tabs /\ got'[slots[n]] <= 1
                 /\ n >= loop.at + 1 => got'[slots[n]] = 0
      <3>1. /\ \A m, k \in DOMAIN slots : slots[m] = slots[k] => m = k
            /\ slots[n] \in Tabs /\ got[slots[n]] <= 1
            /\ n >= loop.at => got[slots[n]] = 0
        BY <1>1, <2>2, <2>5 DEF HandedOnce
      <3>2. n \in Nat /\ got[slots[n]] \in Nat /\ got'[slots[n]] \in Nat
        BY <1>1, <2>2, <3>1
      <3>3. CASE n = loop.at
        BY <1>1, <2>2, <3>1, <3>2, <3>3
      <3>4. CASE n # loop.at
        <4>1. got'[slots[n]] = got[slots[n]]
          BY <2>2, <3>1, <3>4
        <4> QED BY <1>1, <3>1, <3>2, <3>4, <4>1
      <3> QED BY <3>3, <3>4
    <2>6. HandedRest' /\ HandedShared'
      BY <1>1, <2>2, <2>3 DEF HandedRest, HandedShared
    <2>7. HandedOwed'
      <3>1. conns' = conns
        BY <2>2
      <3>2. SUFFICES ASSUME NEW t \in owed'
                     PROVE  \E n \in DOMAIN slots :
                               /\ slots[n] = t
                               /\ n < loop.at + 1 => got'[t] >= 1
                               /\ loop.shared => n \in DOMAIN conns /\ conns[n] = t
        <4> HIDE DEF slots
        <4> QED BY <2>3, <3>1, Zenon DEF HandedOwed
      <3> QED BY <2>4, <3>2
    <2>8. HandedOnce'
      <3>1. ~shaken' => /\ \A m, n \in DOMAIN slots : slots[m] = slots[n] => m = n
                        /\ loop.shared => Len(conns) >= Len(slots)
        BY <1>1, <2>2 DEF HandedOnce
      <3>2. ASSUME ~shaken', NEW n \in DOMAIN slots
            PROVE  /\ slots[n] \in Tabs /\ got'[slots[n]] <= 1
                   /\ n >= loop'.at => got'[slots[n]] = 0
        BY <2>3, <2>5, <3>2
      <3>3. conns' = conns /\ loop'.shared = loop.shared
        BY <2>2, <2>3
      <3> SUFFICES ASSUME ~shaken'
                   PROVE  /\ \A m, n \in DOMAIN slots : slots[m] = slots[n] => m = n
                          /\ loop'.shared => Len(conns') >= Len(slots)
                          /\ \A n \in DOMAIN slots : /\ slots[n] \in Tabs
                                                     /\ got'[slots[n]] <= 1
                                                     /\ n >= loop'.at => got'[slots[n]] = 0
        BY <2>3, Zenon DEF HandedOnce
      <3> HIDE DEF slots
      <3> QED BY <3>1, <3>2, <3>3
    <2> QED BY <2>6, <2>7, <2>8 DEF AlarmsHanded
  <1>11. CASE A!NextAlarm
    <2>1. /\ got' = [t \in Tabs |-> 0]
          /\ \/ loop' = A!Resting
             \/ \E rest : loop' = [A!Resting EXCEPT !.pc = "mark", !.todo = rest]
      BY <1>11 DEF A!NextAlarm
    <2>2. loop'.pc # "loop" /\ ~loop'.shared
      <3> DEFINE l == A!Resting
      <3>1. /\ l.pc = "rest" /\ ~l.shared
            /\ \A rest : [l EXCEPT !.pc = "mark", !.todo = rest].pc = "mark"
            /\ \A rest : [l EXCEPT !.pc = "mark", !.todo = rest].shared = l.shared
        BY <1>3
      <3> HIDE DEF l
      <3>2. loop' = l \/ \E rest : loop' = [l EXCEPT !.pc = "mark", !.todo = rest]
        BY <2>1 DEF l
      <3> QED BY <3>1, <3>2
    <2> QED BY <1>4, <2>1, <2>2
  <1>12. ASSUME NEW t \in Tabs, A!Unsubscribe(t) PROVE AlarmsHanded'
    <2>1. PICK i \in DOMAIN conns :
              /\ conns[i] = t /\ conns' = Without(conns, i)
              /\ loop' = [loop EXCEPT !.slots = A!Shifted(loop.slots, i),
                                      !.shared = loop.shared /\ Len(conns) > 1]
              /\ owed' = IF i < loop.at THEN {} ELSE owed \ {t}
              /\ shaken' = (loop.pc = "loop")
              /\ UNCHANGED <<alarms, begun, got, crashed>>
      BY <1>1, <1>12, AlarmsUnsubscribe
    <2> DEFINE moved == A!Shifted(loop.slots, i)
    <2>2. /\ conns' \in Seq(Tabs) /\ Len(conns') = Len(conns) - 1
          /\ \A n \in DOMAIN conns' : conns'[n] = IF n < i THEN conns[n] ELSE conns[n + 1]
      <3>1. conns \in Seq(Tabs) /\ i \in DOMAIN conns
        BY <1>1
      <3> QED BY <2>1, <3>1, Removing
    <2>3. /\ moved \in Seq(Tabs \cup {Closed}) /\ Len(moved) = Len(slots)
          /\ \A n \in DOMAIN slots :
                moved[n] = IF loop.shared /\ i <= n /\ n < Len(conns) THEN conns[n + 1]
                           ELSE IF slots[n] = conns[i] THEN Closed ELSE slots[n]
      BY <1>1, AlarmsShifted
    <2> HIDE DEF moved, slots
    <2>4. /\ loop'.pc = loop.pc /\ loop'.slots = moved /\ loop'.at = loop.at
          /\ loop'.shared = (loop.shared /\ Len(conns) > 1)
      BY <1>1, <2>1 DEF LoopState, moved
    <2>5. /\ DOMAIN moved = DOMAIN slots /\ DOMAIN conns' = 1..(Len(conns) - 1)
          /\ i \in 1..Len(conns)
      <3>1. DOMAIN moved = 1..Len(moved) /\ DOMAIN conns' = 1..Len(conns')
        BY <2>2, <2>3
      <3> QED BY <1>1, <2>2, <2>3, <3>1
    <2>6. ASSUME loop.shared, NEW n \in DOMAIN moved \cap DOMAIN conns' PROVE moved[n] = conns'[n]
      <3>1. n \in DOMAIN slots /\ n \in DOMAIN conns /\ n < Len(conns) /\ n \in Nat
        BY <1>1, <2>5, <2>6
      <3>2. slots[n] = conns[n]
        BY <1>1, <2>6, <3>1 DEF HandedShared, slots
      <3>3. CASE n < i
        <4>1. slots[n] # conns[i]
          BY <1>1, <2>1, <3>1, <3>2, <3>3
        <4>2. ~(i <= n)
          BY <2>5, <3>1, <3>3
        <4> QED BY <2>2, <2>3, <2>6, <3>1, <3>2, <3>3, <4>1, <4>2
      <3>4. CASE ~(n < i)
        <4>1. i <= n
          BY <2>5, <3>1, <3>4
        <4> QED BY <2>2, <2>3, <2>6, <3>1, <3>4, <4>1
      <3> QED BY <3>3, <3>4
    <2>7. ASSUME loop.pc = "loop", NEW u \in owed'
          PROVE  \E n \in DOMAIN moved :
                    /\ moved[n] = u
                    /\ n < loop.at => got'[u] >= 1
                    /\ loop.shared => n \in DOMAIN conns' /\ conns'[n] = u
      <3>1. ~(i < loop.at) /\ u \in owed /\ u # t /\ u \in Tabs
        BY <1>1, <2>1
      <3>2. PICK n \in DOMAIN slots : /\ slots[n] = u
                                      /\ n < loop.at => got[u] >= 1
                                      /\ loop.shared => n \in DOMAIN conns /\ conns[n] = u
        BY <1>1, <2>7, <3>1 DEF HandedOwed, slots
      <3>3. n \in Nat /\ n >= 1
        BY <1>1
      <3>4. CASE ~loop.shared
        <4>1. moved[n] = slots[n]
          BY <2>1, <2>3, <3>1, <3>2, <3>4
        <4> QED BY <2>1, <2>5, <3>2, <3>4, <4>1
      <3>5. CASE loop.shared
        <4>1. n \in DOMAIN conns /\ conns[n] = u /\ n # i
          BY <2>1, <3>1, <3>2, <3>5
        <4>2. CASE n < i
          <5>1. n \in DOMAIN conns'
            BY <1>1, <2>5, <3>3, <4>2
          <5>2. conns'[n] = u /\ moved[n] = u
            BY <2>2, <2>5, <2>6, <3>2, <3>5, <4>1, <4>2, <5>1
          <5> QED BY <2>1, <2>5, <3>2, <5>1, <5>2
        <4>3. CASE ~(n < i)
          <5>1. n - 1 \in DOMAIN conns' /\ ~(n - 1 < i) /\ n - 1 \in DOMAIN slots /\ n - 1 + 1 = n
            BY <1>1, <2>5, <3>3, <4>1, <4>3
          <5>2. conns'[n - 1] = u
            BY <2>2, <4>1, <5>1
          <5>3. moved[n - 1] = u
            BY <2>5, <2>6, <3>5, <5>1, <5>2
          <5>4. ~(n - 1 < loop.at)
            BY <1>1, <2>5, <3>1, <3>3, <5>1
          <5> QED BY <2>5, <5>1, <5>2, <5>3, <5>4
        <4> QED BY <4>2, <4>3
      <3> QED BY <3>4, <3>5
    <2>8. loop.pc # "loop" => (\A u \in Tabs : got'[u] = 0) /\ ~loop'.shared
      BY <1>1, <2>1, <2>4 DEF HandedRest
    <2>9. HandedRest' /\ HandedShared'
      BY <2>4, <2>6, <2>8 DEF HandedRest, HandedShared
    <2>10. HandedOwed'
      <3>1. loop.pc = "loop" =>
               \A u \in owed' : \E n \in DOMAIN moved :
                  /\ moved[n] = u
                  /\ n < loop.at => got'[u] >= 1
                  /\ loop'.shared => n \in DOMAIN conns' /\ conns'[n] = u
        BY <2>4, <2>7
      <3> QED BY <2>4, <3>1, Zenon DEF HandedOwed
    <2>11. HandedOnce'
      BY <2>1, <2>4 DEF HandedOnce
    <2> QED BY <2>9, <2>10, <2>11 DEF AlarmsHanded
  <1>13. ASSUME NEW t \in Tabs, A!Subscribe(t) PROVE AlarmsHanded'
    <2>1. /\ \A n \in DOMAIN conns : conns[n] # t
          /\ conns' \in Seq(Tabs) /\ Len(conns') = Len(conns) + 1
          /\ \A n \in DOMAIN conns' : conns'[n] = IF n = Len(conns) + 1 THEN t ELSE conns[n]
          /\ \/ /\ loop.shared /\ Len(conns) < Len(slots)
                /\ loop' = [loop EXCEPT !.slots = [slots EXCEPT ![Len(conns) + 1] = t]]
             \/ /\ ~(loop.shared /\ Len(conns) < Len(slots))
                /\ \E room \in BOOLEAN : loop' = [loop EXCEPT !.shared = loop.shared /\ room]
          /\ UNCHANGED <<alarms, inbox, begun, got, owed, shaken, crashed>>
      BY <1>1, <1>13, AlarmsSubscribe
    <2> HIDE DEF slots
    <2>2. /\ DOMAIN conns' = 1..(Len(conns) + 1)
          /\ \A n \in DOMAIN conns : n \in DOMAIN conns' /\ conns'[n] = conns[n]
      BY <1>1, <2>1
    <2>3. CASE /\ ~(loop.shared /\ Len(conns) < Len(slots))
               /\ \E room \in BOOLEAN : loop' = [loop EXCEPT !.shared = loop.shared /\ room]
      <3>1. /\ loop'.pc = loop.pc /\ loop'.slots = slots /\ loop'.at = loop.at
            /\ loop'.shared => loop.shared
        BY <1>1, <2>3 DEF LoopState, slots
      <3>2. ASSUME loop'.shared, NEW n \in DOMAIN slots \cap DOMAIN conns'
            PROVE  slots[n] = conns'[n]
        <4>1. n \in DOMAIN conns
          BY <1>1, <2>2, <2>3, <3>1, <3>2
        <4> QED BY <1>1, <2>2, <3>1, <3>2, <4>1 DEF HandedShared, slots
      <3>3. ASSUME loop.pc = "loop", NEW u \in owed
            PROVE  \E n \in DOMAIN slots :
                      /\ slots[n] = u
                      /\ n < loop.at => got'[u] >= 1
                      /\ loop'.shared => n \in DOMAIN conns' /\ conns'[n] = u
        <4>1. PICK n \in DOMAIN slots : /\ slots[n] = u
                                        /\ n < loop.at => got[u] >= 1
                                        /\ loop.shared => n \in DOMAIN conns /\ conns[n] = u
          BY <1>1, <3>3 DEF HandedOwed, slots
        <4> QED BY <2>1, <2>2, <3>1, <4>1
      <3>4. loop'.shared => Len(conns') >= Len(slots)
        BY <1>1, <2>1, <2>3, <3>1
      <3>5. HandedRest' /\ HandedShared'
        BY <1>1, <2>1, <3>1, <3>2 DEF HandedRest, HandedShared
      <3>6. HandedOwed'
        BY <2>1, <3>1, <3>3, Zenon DEF HandedOwed
      <3>7. HandedOnce'
        <4>1. (loop.pc = "loop" /\ ~shaken) =>
                 /\ \A m, n \in DOMAIN slots : slots[m] = slots[n] => m = n
                 /\ \A n \in DOMAIN slots : /\ slots[n] \in Tabs /\ got[slots[n]] <= 1
                                            /\ n >= loop.at => got[slots[n]] = 0
          BY <1>1 DEF HandedOnce, slots
        <4> QED BY <2>1, <3>1, <3>4, <4>1, Zenon DEF HandedOnce
      <3> QED BY <3>5, <3>6, <3>7 DEF AlarmsHanded
    <2>4. CASE /\ loop.shared /\ Len(conns) < Len(slots)
               /\ loop' = [loop EXCEPT !.slots = [slots EXCEPT ![Len(conns) + 1] = t]]
      <3> DEFINE more == [slots EXCEPT ![Len(conns) + 1] = t]
      <3>1. /\ DOMAIN more = DOMAIN slots /\ more[Len(conns) + 1] = t
            /\ \A n \in DOMAIN slots : n # Len(conns) + 1 => more[n] = slots[n]
        BY <1>1, <2>4
      <3> HIDE DEF more
      <3>2. /\ loop'.pc = loop.pc /\ loop'.slots = more /\ loop'.at = loop.at
            /\ loop'.shared = loop.shared
        BY <1>1, <2>4 DEF LoopState, more
      <3>3. loop.pc = "loop" /\ shaken
        BY <1>1, <2>4 DEF HandedRest, HandedOnce, slots
      <3>4. ASSUME NEW n \in DOMAIN more \cap DOMAIN conns' PROVE more[n] = conns'[n]
        <4>1. CASE n = Len(conns) + 1
          BY <2>1, <3>1, <4>1
        <4>2. CASE n # Len(conns) + 1
          <5>1. n \in DOMAIN conns /\ n \in DOMAIN slots
            BY <1>1, <2>2, <3>1, <4>2
          <5> QED BY <1>1, <2>2, <2>4, <3>1, <4>2, <5>1 DEF HandedShared, slots
        <4> QED BY <4>1, <4>2
      <3>5. ASSUME NEW u \in owed
            PROVE  \E n \in DOMAIN more : /\ more[n] = u
                                          /\ n < loop.at => got'[u] >= 1
                                          /\ n \in DOMAIN conns' /\ conns'[n] = u
        <4>1. PICK n \in DOMAIN slots : /\ slots[n] = u
                                        /\ n < loop.at => got[u] >= 1
                                        /\ n \in DOMAIN conns /\ conns[n] = u
          BY <1>1, <2>4, <3>3 DEF HandedOwed, slots
        <4>2. n # Len(conns) + 1
          BY <1>1, <4>1
        <4> QED BY <2>1, <2>2, <3>1, <4>1, <4>2
      <3>6. HandedRest' /\ HandedShared'
        BY <3>2, <3>3, <3>4 DEF HandedRest, HandedShared
      <3>7. HandedOwed'
        BY <2>1, <3>2, <3>5, Zenon DEF HandedOwed
      <3>8. HandedOnce'
        BY <2>1, <3>3 DEF HandedOnce
      <3> QED BY <3>6, <3>7, <3>8 DEF AlarmsHanded
    <2> QED BY <2>1, <2>3, <2>4
  <1>14. CASE A!Crash
    <2>1. loop' = A!Resting /\ got' = [t \in Tabs |-> 0]
      BY <1>14 DEF A!Crash
    <2>2. loop'.pc # "loop" /\ ~loop'.shared
      BY <1>3, <2>1
    <2> QED BY <1>4, <2>1, <2>2
  <1>15. CASE \/ A!Inform \/ \E t \in Tabs : A!Arrives(t)
              \/ UNCHANGED A!vars
    <2>1. UNCHANGED <<loop, conns, got, owed, shaken>>
      BY <1>15 DEF A!Inform, A!Arrives, A!vars, A!server, A!history
    <2> QED BY <1>5, <2>1
  <1> QED BY <1>6, <1>7, <1>8, <1>9, <1>10, <1>11, <1>12, <1>13, <1>14, <1>15
          DEF A!Next, A!Scheduler, A!Connections, A!Users

AlarmsPart == service = "alarms" => AlarmsInv

LEMMA AlarmsPartAlways == ServerSpec => []AlarmsPart
  <1>1. ServerInit => AlarmsPart
    BY AlarmsInit DEF ServerInit, AlarmsPart
  <1>2. AlarmsPart /\ [ServerNext]_serverVars => AlarmsPart'
    BY Steps, AlarmsTypesNext, AlarmsAnnouncedNext, AlarmsHandedNext DEF AlarmsPart, AlarmsInv
  <1> QED BY <1>1, <1>2, PTL DEF ServerSpec

\* An alarm is announced at most once, restarts included, and a fired alarm was
\* announced or is about to be unless the server was restarted (runAlarmScheduler,
\* MarkAlarmFired, Notify).
THEOREM AlarmsAlwaysFireOnce == ServerSpec => []AlarmsFiresOnce
  <1>1. AlarmsPart => AlarmsFiresOnce
    BY DEF AlarmsPart, AlarmsInv, AlarmsAnnounced, AlarmsFiresOnce, A!FiresOnce
  <1> QED BY <1>1, AlarmsPartAlways, PTL

\* When the loop of Notify has ended, every tab that is still owed the reminder has it,
\* whatever Subscribe and Unsubscribe did to the array it walks.
THEOREM EveryTabIsAlwaysTold == ServerSpec => []AlarmsEveryTabIsTold
  <1>1. AlarmsPart => AlarmsEveryTabIsTold
    <2> SUFFICES ASSUME AlarmsInv, loop.pc = "loop", loop.at > Len(loop.slots), NEW t \in owed
                 PROVE  got[t] >= 1 /\ (~shaken => got[t] = 1)
      BY DEF AlarmsPart, AlarmsEveryTabIsTold, A!EveryTabIsTold
    <2>1. PICK n \in DOMAIN loop.slots : /\ loop.slots[n] = t
                                         /\ n < loop.at => got[t] >= 1
      BY DEF AlarmsInv, AlarmsHanded, HandedOwed
    <2>2. n \in 1..Len(loop.slots) /\ loop.at \in Nat /\ got[t] \in Nat /\ Len(loop.slots) \in Nat
      BY DEF AlarmsInv, AlarmsTypes, LoopState
    <2>3. got[t] >= 1
      BY <2>1, <2>2
    <2>4. ~shaken => got[t] <= 1
      BY <2>1 DEF AlarmsInv, AlarmsHanded, HandedOnce
    <2> QED BY <2>2, <2>3, <2>4
  <1> QED BY <1>1, AlarmsPartAlways, PTL

(***************************************************************************)
(* Alarms: only tabs that are connected have a slot, or reminders waiting.     *)
(***************************************************************************)
Connected(t) == \E m \in DOMAIN conns : conns[m] = t

AlarmsPlaced ==
    /\ \A n \in DOMAIN loop.slots : loop.slots[n] = Closed \/ Connected(loop.slots[n])
    /\ \A t \in Tabs : inbox[t] # <<>> => Connected(t)

\* Steps that leave the connections and what waits in them alone.
LEMMA SamePlaces ==
    ASSUME AlarmsTypes, AlarmsPlaced, conns' = conns, inbox' = inbox,
           loop'.slots = loop.slots \/ loop'.slots = <<>> \/ loop'.slots = conns
    PROVE  AlarmsPlaced'
  <1>1. CASE loop'.slots = loop.slots
    BY <1>1 DEF AlarmsPlaced, Connected
  <1>2. CASE loop'.slots = <<>>
    BY <1>2 DEF AlarmsPlaced, Connected
  <1>3. CASE loop'.slots = conns
    BY <1>3 DEF AlarmsPlaced, Connected
  <1> QED BY <1>1, <1>2, <1>3

LEMMA PlacesLeft ==
    ASSUME AlarmsTypes, AlarmsPlaced, NEW t \in Tabs, A!Unsubscribe(t)
    PROVE  AlarmsPlaced'
  <1>1. PICK i \in DOMAIN conns :
           /\ conns[i] = t /\ conns' = Without(conns, i)
           /\ loop' = [loop EXCEPT !.slots = A!Shifted(loop.slots, i),
                                   !.shared = loop.shared /\ Len(conns) > 1]
           /\ inbox' = [inbox EXCEPT ![t] = <<>>]
    BY AlarmsUnsubscribe
  <1>2. /\ conns \in Seq(Tabs) /\ \A m, n \in DOMAIN conns : conns[m] = conns[n] => m = n
        /\ loop \in LoopState /\ inbox \in [Tabs -> Seq(Ids \cup {0})]
    BY DEF AlarmsTypes
  <1>3. /\ Len(conns) \in Nat /\ DOMAIN conns = 1..Len(conns) /\ i \in 1..Len(conns)
        /\ conns' \in Seq(Tabs) /\ Len(conns') = Len(conns) - 1
        /\ DOMAIN conns' = 1..(Len(conns) - 1)
        /\ \A n \in 1..(Len(conns) - 1) : conns'[n] = IF n < i THEN conns[n] ELSE conns[n + 1]
    <2>1. conns' \in Seq(Tabs) /\ Len(conns') = Len(conns) - 1
      BY <1>1, <1>2, Removing
    <2>2. \A n \in DOMAIN conns' : conns'[n] = IF n < i THEN conns[n] ELSE conns[n + 1]
      BY <1>1, <1>2, Removing
    <2> QED BY <1>1, <1>2, <2>1, <2>2
  <1>4. ASSUME NEW m \in DOMAIN conns, m # i PROVE \E n \in DOMAIN conns' : conns'[n] = conns[m]
    <2>1. CASE m < i
      <3>1. m \in 1..(Len(conns) - 1)
        BY <1>3, <2>1
      <3> QED BY <1>3, <2>1, <3>1
    <2>2. CASE m > i
      <3>1. m - 1 \in 1..(Len(conns) - 1) /\ ~(m - 1 < i) /\ m - 1 + 1 = m
        BY <1>3, <2>2
      <3>2. conns'[m - 1] = conns[m]
        BY <1>3, <3>1
      <3> QED BY <1>3, <3>1, <3>2
    <2> QED BY <1>3, <1>4, <2>1, <2>2
  <1>5. \A u : u # t /\ Connected(u) => \E n \in DOMAIN conns' : conns'[n] = u
    BY <1>1, <1>4 DEF Connected
  <1>6. ASSUME NEW n \in DOMAIN loop.slots
        PROVE  A!Shifted(loop.slots, i)[n] = Closed
               \/ \E m \in DOMAIN conns' : conns'[m] = A!Shifted(loop.slots, i)[n]
    <2> DEFINE u == A!Shifted(loop.slots, i)[n]
    <2>1. u = IF loop.shared /\ i <= n /\ n < Len(conns) THEN conns[n + 1]
              ELSE IF loop.slots[n] = conns[i] THEN Closed ELSE loop.slots[n]
      BY AlarmsShifted
    <2>2. n \in Nat \ {0}
      <3>1. loop.slots \in Seq(Tabs \cup {Closed})
        BY <1>2 DEF LoopState
      <3> QED BY <3>1
    <2> HIDE DEF u
    <2>3. CASE loop.shared /\ i <= n /\ n < Len(conns)
      <3>1. n + 1 \in DOMAIN conns /\ n + 1 # i /\ u = conns[n + 1]
        BY <1>3, <2>1, <2>2, <2>3
      <3> QED BY <1>4, <3>1 DEF u
    <2>4. CASE ~(loop.shared /\ i <= n /\ n < Len(conns))
      <3>1. u = Closed \/ (u = loop.slots[n] /\ u # t)
        BY <1>1, <2>1, <2>4
      <3>2. loop.slots[n] = Closed \/ Connected(loop.slots[n])
        BY DEF AlarmsPlaced
      <3> QED BY <1>5, <3>1, <3>2 DEF u
    <2> QED BY <2>3, <2>4
  <1>7. loop'.slots = A!Shifted(loop.slots, i) /\ DOMAIN loop'.slots = DOMAIN loop.slots
    <2>1. loop'.slots = A!Shifted(loop.slots, i)
      BY <1>1, <1>2 DEF LoopState
    <2>2. DOMAIN A!Shifted(loop.slots, i) = DOMAIN loop.slots
      BY DEF A!Shifted
    <2> QED BY <2>1, <2>2
  <1>8. \A u \in Tabs : inbox'[u] # <<>> => u # t /\ inbox[u] # <<>>
    BY <1>1, <1>2
  <1>9. \A u \in Tabs : inbox'[u] # <<>> => \E n \in DOMAIN conns' : conns'[n] = u
    BY <1>5, <1>8 DEF AlarmsPlaced
  <1> QED BY <1>6, <1>7, <1>9 DEF AlarmsPlaced, Connected

LEMMA PlacesTaken ==
    ASSUME AlarmsTypes, AlarmsPlaced, NEW t \in Tabs, A!Subscribe(t)
    PROVE  AlarmsPlaced'
  <1>1. /\ conns' \in Seq(Tabs) /\ Len(conns') = Len(conns) + 1
        /\ \A n \in DOMAIN conns' : conns'[n] = IF n = Len(conns) + 1 THEN t ELSE conns[n]
        /\ inbox' = inbox
        /\ \/ loop' = [loop EXCEPT !.slots = [loop.slots EXCEPT ![Len(conns) + 1] = t]]
           \/ \E room \in BOOLEAN : loop' = [loop EXCEPT !.shared = loop.shared /\ room]
    BY AlarmsSubscribe
  <1>2. conns \in Seq(Tabs) /\ loop \in LoopState
    BY DEF AlarmsTypes
  <1>3. \A u : u = t \/ Connected(u) => \E n \in DOMAIN conns' : conns'[n] = u
    <2>1. /\ DOMAIN conns = 1..Len(conns) /\ DOMAIN conns' = 1..(Len(conns) + 1)
          /\ Len(conns) \in Nat
      BY <1>1, <1>2
    <2>2. \A m \in DOMAIN conns : m \in DOMAIN conns' /\ conns'[m] = conns[m]
      BY <1>1, <2>1
    <2>3. Len(conns) + 1 \in DOMAIN conns' /\ conns'[Len(conns) + 1] = t
      BY <1>1, <2>1
    <2> QED BY <2>2, <2>3 DEF Connected
  <1>4. /\ DOMAIN loop'.slots = DOMAIN loop.slots
        /\ \A n \in DOMAIN loop.slots : loop'.slots[n] = t \/ loop'.slots[n] = loop.slots[n]
    <2>1. CASE loop' = [loop EXCEPT !.slots = [loop.slots EXCEPT ![Len(conns) + 1] = t]]
      <3>1. loop'.slots = [loop.slots EXCEPT ![Len(conns) + 1] = t]
        BY <1>2, <2>1 DEF LoopState
      <3> QED BY <3>1
    <2>2. CASE \E room \in BOOLEAN : loop' = [loop EXCEPT !.shared = loop.shared /\ room]
      <3>1. loop'.slots = loop.slots
        BY <1>2, <2>2 DEF LoopState
      <3> QED BY <3>1
    <2> QED BY <1>1, <2>1, <2>2
  <1>5. \A n \in DOMAIN loop'.slots :
           loop'.slots[n] = Closed \/ \E m \in DOMAIN conns' : conns'[m] = loop'.slots[n]
    BY <1>3, <1>4 DEF AlarmsPlaced
  <1>6. \A u \in Tabs : inbox'[u] # <<>> => \E n \in DOMAIN conns' : conns'[n] = u
    BY <1>1, <1>3 DEF AlarmsPlaced
  <1> QED BY <1>5, <1>6 DEF AlarmsPlaced, Connected

LEMMA PlacesNext ==
    ASSUME AlarmsInv, AlarmsPlaced, [A!Next]_(A!vars)
    PROVE  AlarmsPlaced'
  <1>1. /\ AlarmsTypes /\ loop \in LoopState /\ inbox \in [Tabs -> Seq(Ids \cup {0})]
        /\ <<>> = A!Resting.slots
    BY DEF AlarmsInv, AlarmsTypes, A!Resting
  <1>2. ASSUME \/ \E a \in Ids : A!FallsDue(a) \/ A!Delete(a) \/ A!Acknowledge(a)
               \/ UNCHANGED A!vars
        PROVE  AlarmsPlaced'
    <2>1. UNCHANGED <<conns, loop, inbox>>
      BY <1>2 DEF A!FallsDue, A!Delete, A!Acknowledge, A!vars, A!server
    <2> QED BY <1>1, <2>1, SamePlaces
  <1>3. CASE A!Tick \/ A!Mark \/ A!TakeSlice \/ A!NextAlarm
    <2>1. CASE A!Tick
      <3>1. PICK X : loop' = [A!Resting EXCEPT !.pc = "mark", !.todo = X]
        BY <2>1 DEF A!Tick
      <3>2. loop'.slots = <<>>
        BY <3>1 DEF A!Resting
      <3>3. UNCHANGED <<conns, inbox>>
        BY <2>1 DEF A!Tick
      <3> QED BY <1>1, <3>2, <3>3, SamePlaces
    <2>2. CASE A!Mark
      <3>1. loop' = [loop EXCEPT !.pc = "notify"] /\ UNCHANGED <<conns, inbox>>
        BY <2>2 DEF A!Mark
      <3>2. loop'.slots = loop.slots
        BY <1>1, <3>1 DEF LoopState
      <3> QED BY <1>1, <3>1, <3>2, SamePlaces
    <2>3. CASE A!TakeSlice
      <3>1. /\ loop' = [loop EXCEPT !.pc = "loop", !.slots = conns, !.at = 1, !.shared = TRUE]
            /\ UNCHANGED <<conns, inbox>>
        BY <2>3 DEF A!TakeSlice
      <3>2. loop'.slots = conns
        BY <1>1, <3>1 DEF LoopState
      <3> QED BY <1>1, <3>1, <3>2, SamePlaces
    <2>4. CASE A!NextAlarm
      <3>1. \/ loop' = A!Resting
            \/ loop' = [A!Resting EXCEPT !.pc = "mark", !.todo = loop.todo \ {A!Current}]
        BY <2>4 DEF A!NextAlarm
      <3>2. loop'.slots = <<>>
        <4> DEFINE X == loop.todo \ {A!Current}
        <4>1. loop' = A!Resting \/ loop' = [A!Resting EXCEPT !.pc = "mark", !.todo = X]
          BY <3>1
        <4> HIDE DEF X
        <4>2. CASE loop' = A!Resting
          BY <4>2 DEF A!Resting
        <4>3. CASE loop' = [A!Resting EXCEPT !.pc = "mark", !.todo = X]
          BY <4>3 DEF A!Resting
        <4> QED BY <4>1, <4>2, <4>3
      <3>3. UNCHANGED <<conns, inbox>>
        BY <2>4 DEF A!NextAlarm
      <3> QED BY <1>1, <3>2, <3>3, SamePlaces
    <2> QED BY <1>3, <2>1, <2>2, <2>3, <2>4
  <1>4. CASE A!HandOver
    <2> DEFINE t == loop.slots[loop.at]
               h == A!Hand(t, A!Current)
    <2>1. /\ loop' = [loop EXCEPT !.at = loop.at + 1] /\ conns' = conns
          /\ loop.at <= Len(loop.slots)
          /\ \/ t = Closed /\ inbox' = inbox
             \/ t # Closed /\ inbox' = [inbox EXCEPT ![t] = h]
      BY <1>4 DEF A!HandOver
    <2>2. loop.at \in DOMAIN loop.slots /\ loop'.slots = loop.slots
      BY <1>1, <2>1 DEF LoopState
    <2>3. t = Closed \/ Connected(t)
      BY <2>2 DEF AlarmsPlaced
    <2> HIDE DEF t, h
    <2>4. \A u \in Tabs : inbox'[u] # inbox[u] => Connected(u)
      BY <1>1, <2>1, <2>3
    <2> QED BY <2>1, <2>2, <2>4 DEF AlarmsPlaced, Connected
  <1>5. CASE A!Crash
    <2>1. loop'.slots = <<>> /\ inbox' = [t \in Tabs |-> <<>>]
      BY <1>1, <1>5 DEF A!Crash
    <2> QED BY <2>1 DEF AlarmsPlaced
  <1>6. CASE A!Inform
    <2>1. /\ inbox' = [t \in Tabs |-> IF t \in A!Range(conns) THEN A!Hand(t, A!Info)
                                      ELSE inbox[t]]
          /\ UNCHANGED <<conns, loop>>
      BY <1>6 DEF A!Inform, A!server
    <2>2. \A u \in Tabs : inbox'[u] # inbox[u] => Connected(u)
      BY <2>1 DEF A!Range, Connected
    <2> QED BY <2>1, <2>2 DEF AlarmsPlaced, Connected
  <1>7. ASSUME NEW t \in Tabs, A!Arrives(t) PROVE AlarmsPlaced'
    <2>1. /\ inbox[t] # <<>> /\ inbox' = [inbox EXCEPT ![t] = Tail(inbox[t])]
          /\ UNCHANGED <<conns, loop>>
      BY <1>7 DEF A!Arrives, A!server
    <2>2. \A u \in Tabs : inbox'[u] # inbox[u] => Connected(u)
      BY <1>1, <2>1 DEF AlarmsPlaced
    <2> QED BY <2>1, <2>2 DEF AlarmsPlaced, Connected
  <1> QED BY <1>1, <1>2, <1>3, <1>4, <1>5, <1>6, <1>7, PlacesLeft, PlacesTaken
          DEF A!Next, A!Scheduler, A!Connections, A!Users

AlarmsTypePart == service = "alarms" => AlarmsInv /\ AlarmsPlaced

\* The variables of Alarms have their types.
LEMMA AlarmsTypesHold == ServerSpec => [](service = "alarms" => A!TypeOK)
  <1>1. ServerInit => AlarmsTypePart
    <2>1. A!Init => AlarmsPlaced
      BY DEF A!Init, A!Resting, AlarmsPlaced
    <2> QED BY <2>1, AlarmsInit DEF ServerInit, AlarmsTypePart
  <1>2. AlarmsTypePart /\ [ServerNext]_serverVars => AlarmsTypePart'
    <2>1. AlarmsInv /\ [A!Next]_(A!vars) => AlarmsInv'
      BY AlarmsTypesNext, AlarmsAnnouncedNext, AlarmsHandedNext DEF AlarmsInv
    <2> QED BY <2>1, Steps, PlacesNext DEF AlarmsTypePart
  <1>3. AlarmsTypePart => (service = "alarms" => A!TypeOK)
    <2> SUFFICES ASSUME AlarmsInv, AlarmsPlaced PROVE A!TypeOK
      BY DEF AlarmsTypePart
    <2>1. AlarmsTypes
      BY DEF AlarmsInv
    <2>2. A!IsInjective(conns) /\ A!Range(conns) \subseteq Tabs
      BY <2>1 DEF AlarmsTypes, A!IsInjective, A!Range
    <2>3. loop.pc \in {"rest", "mark", "notify", "loop"}
      BY <2>1 DEF AlarmsTypes, LoopState
    <2>4. ASSUME NEW t \in Tabs
          PROVE  /\ Len(inbox[t]) <= Buffer
                 /\ inbox[t] # <<>> => t \in A!Range(conns)
                 /\ A!Range(inbox[t]) \subseteq Ids \cup {A!Info}
      <3>1. inbox[t] \in Seq(Ids \cup {0}) /\ Len(inbox[t]) <= Buffer
        BY <2>1 DEF AlarmsTypes
      <3>2. inbox[t] # <<>> => t \in A!Range(conns)
        BY DEF AlarmsPlaced, Connected, A!Range
      <3>3. A!Range(inbox[t]) \subseteq Ids \cup {A!Info}
        BY <3>1 DEF A!Range, A!Info
      <3> QED BY <3>1, <3>2, <3>3
    <2> QED BY <2>2, <2>3, <2>4 DEF A!TypeOK
  <1> QED BY <1>1, <1>2, <1>3, PTL DEF ServerSpec

(***************************************************************************)
(* BattleRhythm.                                                             *)
(***************************************************************************)
Moment == {{}} \cup {{t} : t \in Int}

Settings == [enabled : BOOLEAN, cycle : Lengths, started : Moment, paused : Moment, last : Int]

Entry == [rounds : Int, state : {"active", "inactive", "archived"}]

PageClock == [started : Moment, paused : Moment]

\* The five kinds of request, after their first step.
IsControl(t) == \E a \in R!Controls, c \in Settings, m \in Int :
                   /\ t = [kind |-> "control", action |-> a, copy |-> c, at |-> m]
                   /\ a \notin R!Anew => c.started # {}
                   /\ a = "resume" => c.paused # {}
IsSave(t) == \E c, f \in Settings : t = [kind |-> "save", copy |-> c, form |-> f]
IsEdit(t) == \E e \in Entries, c \in Entry : t = [kind |-> "edit", entry |-> e, copy |-> c]
IsZero(t) == \E s \in [Entries -> Entry], X \in SUBSET Entries :
                t = [kind |-> "zero", read |-> s, todo |-> X]
IsMark(t) == \E c \in Settings, i, m \in Int :
                t = [kind |-> "mark", copy |-> c, index |-> i, meant |-> m]
IsTask(t) == t = R!Idle \/ IsControl(t) \/ IsSave(t) \/ IsEdit(t) \/ IsZero(t) \/ IsMark(t)

IsRollover(s) == \E c \in Settings, i \in Int, X \in SUBSET Entries, r \in [Entries -> Entry] :
                    s = [kind |-> "rollover", copy |-> c, index |-> i, todo |-> X, read |-> r]

RhythmTypes == /\ now \in Int /\ settings \in Settings /\ entries \in [Entries -> Entry]
               /\ sched = R!Idle \/ IsRollover(sched)
               /\ tasks = [o \in Operators |-> tasks[o]]
               /\ \A o \in Operators : IsTask(tasks[o])
               /\ pages \in [Operators -> PageClock]
               /\ clock \in [mode : {"stopped", "running", "paused"}, ran : Int]
               /\ seen \in Int /\ tally \in [Entries -> Int]
               /\ off \subseteq Entries /\ strayed \in BOOLEAN

\* The clock in the store is the one the controls made.
RhythmClock == ~strayed /\ off # Entries => R!ClockIsAsMeant

\* The scheduler and the store agree on the cycle that was counted last.
RhythmSeen == ~strayed /\ off # Entries =>
                 IF sched = R!Idle THEN settings.last = seen
                 ELSE sched.copy = settings /\ sched.index = seen

\* What is still to be counted of a rollover is what is missing.
RhythmCounts ==
    ~strayed => \A e \in Entries \ off :
       IF sched # R!Idle /\ e \in sched.todo
       THEN /\ entries[e] = sched.read[e]
            /\ entries[e].rounds + sched.index - sched.copy.last = tally[e]
       ELSE entries[e].rounds = tally[e]

RhythmInv == RhythmTypes /\ RhythmClock /\ RhythmSeen /\ RhythmCounts

LEMMA LengthsArePositive == Lengths \subseteq Nat \ {0}
  BY ServerAssumption DEF R!BattleRhythmAssumption

\* A moment that is there is a number.
LEMMA Moments ==
    ASSUME NEW s \in Moment
    PROVE  s # {} => R!The(s) \in Int /\ s = {R!The(s)}
  BY DEF Moment, R!The

LEMMA Divided ==
    ASSUME NEW a \in Int, NEW c \in Lengths
    PROVE  a \div c \in Int /\ a % c \in Int
  BY LengthsArePositive

\* The kinds tell requests apart.
LEMMA TaskKinds ==
    ASSUME NEW t, IsTask(t)
    PROVE  /\ t.kind = "control" => IsControl(t)
           /\ t.kind = "save" => IsSave(t)
           /\ t.kind = "edit" => IsEdit(t)
           /\ t.kind = "zero" => IsZero(t)
           /\ t.kind = "mark" => IsMark(t)
  <1>1. t = R!Idle => t.kind = "idle"
    BY DEF R!Idle
  <1>2. IsControl(t) => t.kind = "control"
    BY DEF IsControl
  <1>3. IsSave(t) => t.kind = "save"
    BY DEF IsSave
  <1>4. IsEdit(t) => t.kind = "edit"
    BY DEF IsEdit
  <1>5. IsZero(t) => t.kind = "zero"
    BY DEF IsZero
  <1>6. IsMark(t) => t.kind = "mark"
    BY DEF IsMark
  <1> QED BY <1>1, <1>2, <1>3, <1>4, <1>5, <1>6 DEF IsTask

LEMMA Rollovers ==
    ASSUME NEW s, s = R!Idle \/ IsRollover(s)
    PROVE  /\ s.kind = "rollover" => s # R!Idle
           /\ s # R!Idle => /\ s = [kind |-> "rollover", copy |-> s.copy, index |-> s.index,
                                    todo |-> s.todo, read |-> s.read]
                            /\ s.copy \in Settings /\ s.index \in Int /\ s.todo \subseteq Entries
                            /\ s.read \in [Entries -> Entry]
  <1>1. s = R!Idle => s.kind = "idle"
    BY DEF R!Idle
  <1>2. IsRollover(s) => /\ s = [kind |-> "rollover", copy |-> s.copy, index |-> s.index,
                                 todo |-> s.todo, read |-> s.read]
                         /\ s.copy \in Settings /\ s.index \in Int /\ s.todo \subseteq Entries
                         /\ s.read \in [Entries -> Entry]
    BY DEF IsRollover
  <1> QED BY <1>1, <1>2

LEMMA RhythmInit == ASSUME R!Init PROVE RhythmInv
  <1>1. /\ now = 0 /\ sched = R!Idle /\ off = {} /\ strayed = FALSE /\ seen = 0
        /\ settings \in [enabled : {TRUE}, cycle : Lengths, started : {{}, {0}},
                         paused : {{}}, last : {0}]
        /\ entries = [e \in Entries |-> [rounds |-> 0, state |-> "active"]]
        /\ tasks = [o \in Operators |-> R!Idle]
        /\ pages = [o \in Operators |-> [started |-> settings.started, paused |-> settings.paused]]
        /\ tally = [e \in Entries |-> 0]
        /\ clock = IF settings.started = {} THEN R!Stopped
                   ELSE [R!Stopped EXCEPT !.mode = "running"]
    BY DEF R!Init, R!ClockOf
  <1>2. {} \in Moment /\ {0} \in Moment
    BY DEF Moment
  <1>3. settings \in Settings /\ settings.paused = {} /\ settings.last = 0
        /\ (settings.started = {} \/ settings.started = {0})
        /\ settings.started \in Moment /\ settings.paused \in Moment
    <2> DEFINE enabled == {TRUE}
               starts == {{}, {0}}
               pauses == {{}}
               lasts == {0}
    <2>1. /\ enabled \subseteq BOOLEAN /\ starts \subseteq Moment /\ pauses \subseteq Moment
          /\ lasts \subseteq Int
      BY <1>2
    <2>2. settings \in [enabled : enabled, cycle : Lengths, started : starts, paused : pauses,
                        last : lasts]
      BY <1>1
    <2> HIDE DEF enabled, starts, pauses, lasts
    <2>3. settings \in Settings /\ settings.started \in starts /\ settings.paused \in pauses
          /\ settings.last \in lasts
      BY <2>1, <2>2 DEF Settings
    <2> QED BY <2>1, <2>3 DEF starts, pauses, lasts
  <1>4. entries \in [Entries -> Entry]
    BY <1>1 DEF Entry
  <1>5. pages \in [Operators -> PageClock]
    BY <1>1, <1>3 DEF PageClock
  <1>6. clock = [mode |-> IF settings.started = {} THEN "stopped" ELSE "running", ran |-> 0]
    <2>1. CASE settings.started = {}
      BY <1>1, <2>1 DEF R!Stopped
    <2>2. CASE settings.started # {}
      <3>1. [[mode |-> "stopped", ran |-> 0] EXCEPT !.mode = "running"] =
               [mode |-> "running", ran |-> 0]
        OBVIOUS
      <3> QED BY <1>1, <2>2, <3>1, Zenon DEF R!Stopped
    <2> QED BY <2>1, <2>2
  <1>7. RhythmTypes
    <2>1. clock \in [mode : {"stopped", "running", "paused"}, ran : Int]
      BY <1>6
    <2>2. \A o \in Operators : IsTask(tasks[o])
      BY <1>1 DEF IsTask
    <2>3. tasks = [o \in Operators |-> tasks[o]]
      BY <1>1
    <2>4. now \in Int /\ seen \in Int /\ off \subseteq Entries /\ strayed \in BOOLEAN
      <3>1. now = 0 /\ seen = 0 /\ off = {}
        BY <1>1
      <3>2. strayed \in BOOLEAN
        BY <1>1, Zenon
      <3> QED BY <3>1, <3>2
    <2>5. tally \in [Entries -> Int]
      BY <1>1
    <2>6. sched = R!Idle
      BY <1>1
    <2> QED BY <1>3, <1>4, <1>5, <2>1, <2>2, <2>3, <2>4, <2>5, <2>6 DEF RhythmTypes
  <1>8. R!ClockIsAsMeant
    <2>1. R!The({0}) = 0
      BY DEF R!The
    <2>2. now = 0
      BY <1>1
    <2>3. CASE settings.started = {}
      <3>1. clock.mode = "stopped"
        BY <1>6, <2>3
      <3> QED BY <1>3, <2>3, <3>1 DEF R!ClockIsAsMeant
    <2>4. CASE settings.started = {0}
      <3>1. clock.mode = "running" /\ clock.ran = 0
        BY <1>6, <2>4
      <3> QED BY <1>3, <2>1, <2>2, <2>4, <3>1 DEF R!ClockIsAsMeant
    <2> QED BY <1>3, <2>3, <2>4
  <1>9. RhythmSeen /\ RhythmCounts
    BY <1>1, <1>3 DEF RhythmSeen, RhythmCounts
  <1> QED BY <1>7, <1>8, <1>9 DEF RhythmInv, RhythmClock

LEMMA SettingsFields ==
    ASSUME NEW c \in Settings
    PROVE  /\ c.enabled \in BOOLEAN /\ c.cycle \in Lengths /\ c.started \in Moment
           /\ c.paused \in Moment /\ c.last \in Int
  <1> DEFINE moments == Moment
  <1>1. c \in [enabled : BOOLEAN, cycle : Lengths, started : moments, paused : moments,
               last : Int]
    BY DEF Settings
  <1> HIDE DEF moments
  <1> QED BY <1>1 DEF moments

\* Settings with one field or more replaced.
LEMMA SettingsReplaced ==
    ASSUME NEW c \in Settings, NEW s \in Moment, NEW p \in Moment, NEW l \in Int
    PROVE  /\ [c EXCEPT !.last = l] \in Settings
           /\ [c EXCEPT !.paused = p] \in Settings
           /\ [c EXCEPT !.started = s, !.paused = p] \in Settings
           /\ [c EXCEPT !.started = s, !.paused = p, !.last = l] \in Settings
  <1> DEFINE moments == Moment
             all == [enabled : BOOLEAN, cycle : Lengths, started : moments, paused : moments,
                     last : Int]
  <1>1. /\ c \in all
        /\ s \in moments /\ p \in moments
    BY DEF Settings
  <1> HIDE DEF moments
  <1>2. /\ [c EXCEPT !.last = l] \in all
        /\ [c EXCEPT !.paused = p] \in all
        /\ [c EXCEPT !.started = s, !.paused = p] \in all
        /\ [c EXCEPT !.started = s, !.paused = p, !.last = l] \in all
    BY <1>1
  <1> QED BY <1>2 DEF Settings, moments

\* A request takes its first or its last step.
LEMMA TaskSet ==
    ASSUME RhythmTypes, NEW o \in Operators, NEW t, IsTask(t),
           tasks' = [tasks EXCEPT ![o] = t]
    PROVE  /\ tasks' = [x \in Operators |-> tasks'[x]]
           /\ \A x \in Operators : IsTask(tasks'[x])
  <1>1. /\ tasks = [x \in Operators |-> tasks[x]]
        /\ \A x \in Operators : IsTask(tasks[x])
    BY DEF RhythmTypes
  <1>2. tasks' = [x \in Operators |-> tasks'[x]]
    BY <1>1
  <1>3. ASSUME NEW x \in Operators PROVE IsTask(tasks'[x])
    <2>1. CASE x = o
      <3>1. tasks'[x] = t
        BY <1>1, <2>1
      <3> QED BY <3>1
    <2>2. CASE x # o
      <3>1. tasks'[x] = tasks[x]
        BY <1>1, <2>2
      <3> QED BY <1>1, <3>1
    <2> QED BY <2>1, <2>2
  <1> QED BY <1>2, <1>3

LEMMA Ending ==
    ASSUME RhythmTypes, NEW o \in Operators, R!Ends(o)
    PROVE  /\ tasks' = [x \in Operators |-> tasks'[x]]
           /\ \A x \in Operators : IsTask(tasks'[x])
  <1>1. IsTask(R!Idle) /\ tasks' = [tasks EXCEPT ![o] = R!Idle]
    BY DEF IsTask, R!Ends
  <1> QED BY <1>1, TaskSet

\* Only the requests change.
LEMMA RequestsOnly ==
    ASSUME RhythmInv,
           tasks' = [x \in Operators |-> tasks'[x]],
           \A x \in Operators : IsTask(tasks'[x]),
           UNCHANGED <<now, settings, entries, sched, clock, seen, tally, off, strayed>>,
           pages' \in [Operators -> PageClock]
    PROVE  RhythmInv'
  <1>1. RhythmTypes'
    BY DEF RhythmInv, RhythmTypes
  <1>2. RhythmClock'
    <2>1. R!ClockIsAsMeant' = R!ClockIsAsMeant
      BY DEF R!ClockIsAsMeant
    <2> QED BY <2>1 DEF RhythmInv, RhythmClock
  <1>3. RhythmSeen' /\ RhythmCounts'
    BY DEF RhythmInv, RhythmSeen, RhythmCounts
  <1> QED BY <1>1, <1>2, <1>3 DEF RhythmInv

LEMMA RhythmSends ==
    ASSUME RhythmInv, NEW o \in Operators, NEW t, IsTask(t), R!Sends(o, t)
    PROVE  RhythmInv'
  <1>1. /\ tasks' = [tasks EXCEPT ![o] = t]
        /\ UNCHANGED <<now, settings, entries, sched, pages, clock, seen, tally, off, strayed>>
    BY DEF R!Sends, R!history
  <1>2. RhythmTypes
    BY DEF RhythmInv
  <1>3. pages' \in [Operators -> PageClock]
    BY <1>1, <1>2 DEF RhythmTypes
  <1>4. /\ tasks' = [x \in Operators |-> tasks'[x]]
        /\ \A x \in Operators : IsTask(tasks'[x])
    BY <1>1, <1>2, TaskSet
  <1> QED BY <1>1, <1>3, <1>4, RequestsOnly

LEMMA RhythmControl ==
    ASSUME RhythmInv, NEW o \in Operators, NEW a \in R!Controls, R!Control(o, a)
    PROVE  RhythmInv'
  <1> DEFINE t == [kind |-> "control", action |-> a, copy |-> settings, at |-> now]
  <1>1. R!Sends(o, t) /\ (a \notin R!Anew => settings.started # {})
        /\ (a = "resume" => settings.paused # {})
    BY DEF R!Control, R!Anew
  <1>2. settings \in Settings /\ now \in Int
    BY DEF RhythmInv, RhythmTypes
  <1>3. IsControl(t)
    BY <1>1, <1>2 DEF IsControl
  <1>4. IsTask(t)
    BY <1>3, Zenon DEF IsTask
  <1> HIDE DEF t
  <1> QED BY <1>1, <1>4, RhythmSends

LEMMA RhythmSave ==
    ASSUME RhythmInv, NEW o \in Operators, R!Save(o)
    PROVE  RhythmInv'
  <1>1. settings \in Settings /\ pages \in [Operators -> PageClock]
    BY DEF RhythmInv, RhythmTypes
  <1>2. PICK n \in BOOLEAN, c \in Lengths :
           R!Sends(o, [kind |-> "save", copy |-> settings,
                       form |-> [enabled |-> n, cycle |-> c, last |-> 0,
                                 started |-> pages[o].started, paused |-> pages[o].paused]])
    BY DEF R!Save
  <1> DEFINE f == [enabled |-> n, cycle |-> c, last |-> 0,
                   started |-> pages[o].started, paused |-> pages[o].paused]
             t == [kind |-> "save", copy |-> settings, form |-> f]
  <1>3. f \in Settings
    <2>1. pages[o].started \in Moment /\ pages[o].paused \in Moment
      <3> DEFINE moments == Moment
      <3>1. pages[o] \in [started : moments, paused : moments]
        BY <1>1 DEF PageClock
      <3> HIDE DEF moments
      <3> QED BY <3>1 DEF moments
    <2> QED BY <2>1 DEF Settings
  <1>4. R!Sends(o, t)
    BY <1>2
  <1> HIDE DEF f
  <1>5. IsSave(t)
    BY <1>1, <1>3 DEF IsSave
  <1>6. IsTask(t)
    BY <1>5, Zenon DEF IsTask
  <1> HIDE DEF t
  <1> QED BY <1>4, <1>6, RhythmSends

LEMMA RhythmEdit ==
    ASSUME RhythmInv, NEW o \in Operators, NEW e \in Entries, R!Edit(o, e)
    PROVE  RhythmInv'
  <1> DEFINE t == [kind |-> "edit", entry |-> e, copy |-> entries[e]]
  <1>1. R!Sends(o, t) /\ entries \in [Entries -> Entry]
    BY DEF RhythmInv, RhythmTypes, R!Edit
  <1>2. IsEdit(t)
    BY <1>1 DEF IsEdit
  <1>3. IsTask(t)
    BY <1>2, Zenon DEF IsTask
  <1> HIDE DEF t
  <1> QED BY <1>1, <1>3, RhythmSends

LEMMA RhythmResetCycles ==
    ASSUME RhythmInv, NEW o \in Operators, R!ResetCycles(o)
    PROVE  RhythmInv'
  <1> DEFINE zeroed == {e \in Entries : entries[e].state # "archived" /\ entries[e].rounds # 0}
             t == [kind |-> "zero", read |-> entries, todo |-> zeroed]
  <1>1. R!Sends(o, t) /\ entries \in [Entries -> Entry]
    BY DEF RhythmInv, RhythmTypes, R!ResetCycles
  <1>2. zeroed \in SUBSET Entries
    OBVIOUS
  <1> HIDE DEF zeroed
  <1>3. IsZero(t)
    BY <1>1, <1>2 DEF IsZero
  <1>4. IsTask(t)
    BY <1>3, Zenon DEF IsTask
  <1> HIDE DEF t
  <1> QED BY <1>1, <1>4, RhythmSends

LEMMA RhythmFetch ==
    ASSUME RhythmInv, NEW o \in Operators, R!Fetch(o)
    PROVE  RhythmInv'
  <1>1. /\ pages' = [pages EXCEPT ![o] = [started |-> settings.started, paused |-> settings.paused]]
        /\ UNCHANGED <<now, settings, entries, sched, tasks, clock, seen, tally, off, strayed>>
    BY DEF R!Fetch, R!history, R!ClockOf
  <1>2. /\ settings \in Settings /\ pages \in [Operators -> PageClock]
        /\ tasks = [x \in Operators |-> tasks[x]]
        /\ \A x \in Operators : IsTask(tasks[x])
    BY DEF RhythmInv, RhythmTypes
  <1>3. settings.started \in Moment /\ settings.paused \in Moment
    BY <1>2, SettingsFields
  <1>4. pages' \in [Operators -> PageClock]
    BY <1>1, <1>2, <1>3 DEF PageClock
  <1>5. /\ tasks' = [x \in Operators |-> tasks'[x]]
        /\ \A x \in Operators : IsTask(tasks'[x])
    BY <1>1, <1>2
  <1> QED BY <1>1, <1>4, <1>5, RequestsOnly

LEMMA RhythmReadsCycle ==
    ASSUME RhythmInv, NEW o \in Operators, R!ReadsCycle(o)
    PROVE  RhythmInv'
  <1> USE DEF RhythmInv
  <1>1. UNCHANGED <<now, settings, entries, sched, pages, clock, seen, tally, off, strayed>>
    BY DEF R!ReadsCycle, R!history
  <1>2. RhythmTypes /\ pages' \in [Operators -> PageClock]
    BY <1>1 DEF RhythmTypes
  <1>3. CASE R!Ends(o)
    BY <1>1, <1>2, <1>3, Ending, RequestsOnly
  <1>4. CASE ~R!Ends(o)
    <2> DEFINE i == R!Largest(0, R!CycleAt(settings, now))
               m == R!Largest(0, R!CycleMeant)
               t == [kind |-> "mark", copy |-> settings, index |-> i, meant |-> m]
    <2>1. settings.started # {} /\ tasks' = [tasks EXCEPT ![o] = t]
      BY <1>4 DEF R!ReadsCycle
    <2>2. settings \in Settings /\ now \in Int
      BY <1>2 DEF RhythmTypes
    <2>3. clock.ran \in Int
      BY <1>2 DEF RhythmTypes
    <2>4. R!The(settings.started) \in Int /\ settings.cycle \in Lengths
      BY <2>1, <2>2, SettingsFields, Moments
    <2>5. R!CycleAt(settings, now) \in Int /\ R!CycleMeant \in Int
      BY <2>2, <2>3, <2>4, Divided DEF R!CycleAt, R!CycleMeant
    <2>6. i \in Int /\ m \in Int
      BY <2>5 DEF R!Largest
    <2> HIDE DEF i, m
    <2>7. IsMark(t)
      BY <2>2, <2>6 DEF IsMark
    <2>8. IsTask(t)
      BY <2>7, Zenon DEF IsTask
    <2> HIDE DEF t
    <2>9. /\ tasks' = [x \in Operators |-> tasks'[x]]
          /\ \A x \in Operators : IsTask(tasks'[x])
      BY <1>2, <2>1, <2>8, TaskSet
    <2> QED BY <1>1, <1>2, <2>9, RequestsOnly
  <1> QED BY <1>3, <1>4

\* The clock as a number: its mode tells how it was left.
LEMMA ClockFields ==
    ASSUME RhythmTypes
    PROVE  /\ clock.mode \in {"stopped", "running", "paused"} /\ clock.ran \in Int
           /\ \A i \in Int : [clock EXCEPT !.ran = i] \in
                 [mode : {"stopped", "running", "paused"}, ran : Int]
           /\ \A i : [clock EXCEPT !.ran = i].mode = clock.mode /\ [clock EXCEPT !.ran = i].ran = i
  BY DEF RhythmTypes

\* What the clock being as it is meant says of a clock that runs.
LEMMA Running ==
    ASSUME RhythmTypes, R!ClockIsAsMeant
    PROVE  /\ clock.mode = "running" <=> settings.started # {} /\ settings.paused = {}
           /\ clock.mode = "running" => /\ now - R!The(settings.started) = clock.ran
                                        /\ R!CycleAt(settings, now) = R!CycleMeant
  <1>1. clock.mode \in {"stopped", "running", "paused"}
    BY ClockFields
  <1>2. /\ settings.started = {} <=> clock.mode = "stopped"
        /\ settings.paused # {} <=> clock.mode = "paused"
        /\ clock.mode # "stopped" =>
              (IF settings.paused = {} THEN now ELSE R!The(settings.paused))
              - R!The(settings.started) = clock.ran
    BY DEF R!ClockIsAsMeant
  <1>3. clock.mode = "running" <=> settings.started # {} /\ settings.paused = {}
    BY <1>1, <1>2
  <1>4. clock.mode = "running" => now - R!The(settings.started) = clock.ran
    BY <1>2, <1>3
  <1> QED BY <1>3, <1>4 DEF R!CycleAt, R!CycleMeant

LEMMA RhythmMinute == ASSUME RhythmInv, R!Minute PROVE RhythmInv'
  <1>1. /\ now' = now + 1
        /\ clock' = IF clock.mode = "running" THEN [clock EXCEPT !.ran = @ + 1] ELSE clock
        /\ UNCHANGED <<settings, entries, sched, tasks, pages, seen, tally, off, strayed>>
    BY DEF R!Minute
  <1>2. RhythmTypes /\ now \in Int /\ clock.ran \in Int
    BY DEF RhythmInv, RhythmTypes
  <1>3. clock' \in [mode : {"stopped", "running", "paused"}, ran : Int]
    BY <1>1, <1>2 DEF RhythmTypes
  <1>4. RhythmTypes'
    <2>1. now' \in Int
      BY <1>1, <1>2
    <2>2. sched' = R!Idle \/ IsRollover(sched')
      BY <1>1, <1>2 DEF RhythmTypes
    <2>3. tasks' = [x \in Operators |-> tasks'[x]]
          /\ \A x \in Operators : IsTask(tasks'[x])
      BY <1>1, <1>2 DEF RhythmTypes
    <2> QED BY <1>1, <1>2, <1>3, <2>1, <2>2, <2>3 DEF RhythmTypes
  <1>5. RhythmClock'
    <2> SUFFICES ASSUME R!ClockIsAsMeant PROVE R!ClockIsAsMeant'
      BY <1>1 DEF RhythmInv, RhythmClock
    <2>1. CASE clock.mode = "running"
      <3>1. clock'.mode = "running" /\ clock'.ran = clock.ran + 1
        BY <1>1, <1>2, <2>1, ClockFields
      <3>2. /\ settings.started # {} /\ settings.paused = {}
            /\ now - R!The(settings.started) = clock.ran
        BY <1>2, <2>1, Running
      <3>3. R!The(settings.started) \in Int
        BY <1>2, <3>2, SettingsFields, Moments DEF RhythmTypes
      <3>4. now' - R!The(settings.started) = clock'.ran
        BY <1>1, <1>2, <3>1, <3>2, <3>3
      <3> QED BY <1>1, <3>1, <3>2, <3>4 DEF R!ClockIsAsMeant
    <2>2. CASE clock.mode # "running"
      <3>1. clock' = clock
        BY <1>1, <2>2
      <3>2. clock.mode # "stopped" => settings.paused # {}
        BY <1>2, <2>2, ClockFields DEF R!ClockIsAsMeant
      <3> QED BY <1>1, <3>1, <3>2 DEF R!ClockIsAsMeant
    <2> QED BY <2>1, <2>2
  <1>6. RhythmSeen' /\ RhythmCounts'
    BY <1>1 DEF RhythmInv, RhythmSeen, RhythmCounts
  <1> QED BY <1>4, <1>5, <1>6 DEF RhythmInv

LEMMA RhythmTick == ASSUME RhythmInv, R!Tick PROVE RhythmInv'
  <1> USE DEF RhythmInv
  <1> DEFINE new == [kind |-> "rollover", copy |-> settings, index |-> R!CycleAt(settings, now),
                     todo |-> {e \in Entries : R!Active(e)}, read |-> entries]
             begins == R!Ticking(settings) /\ R!CycleAt(settings, now) > settings.last
             passes == clock.mode = "running" /\ R!CycleMeant > seen
             more == [e \in Entries |->
                         tally[e] + IF R!Active(e) THEN R!CycleMeant - seen ELSE 0]
  <1>1. /\ sched = R!Idle /\ settings.enabled
        /\ IF begins THEN sched' = new ELSE sched' = sched
        /\ IF passes THEN seen' = R!CycleMeant /\ tally' = more ELSE seen' = seen /\ tally' = tally
        /\ UNCHANGED <<now, settings, entries, tasks, pages, clock, off, strayed>>
    BY DEF R!Tick
  <1>2. /\ RhythmTypes /\ settings \in Settings /\ now \in Int /\ entries \in [Entries -> Entry]
        /\ seen \in Int /\ tally \in [Entries -> Int] /\ settings.cycle \in Lengths
    BY SettingsFields DEF RhythmTypes
  <1>3. R!CycleMeant \in Int
    BY <1>2, ClockFields, Divided DEF R!CycleMeant
  <1>4. R!Ticking(settings) => R!CycleAt(settings, now) \in Int
    <2> SUFFICES ASSUME settings.started # {} PROVE R!CycleAt(settings, now) \in Int
      BY DEF R!Ticking
    <2>1. R!The(settings.started) \in Int
      BY <1>2, SettingsFields, Moments
    <2>2. now - R!The(settings.started) \in Int /\ settings.cycle \in Lengths
      BY <1>2, <2>1
    <2>3. (now - R!The(settings.started)) \div settings.cycle \in Int
      BY <2>2, Divided
    <2> QED BY <2>3 DEF R!CycleAt
  <1>5. /\ new.kind = "rollover" /\ new.copy = settings /\ new.index = R!CycleAt(settings, now)
        /\ new.todo = {e \in Entries : R!Active(e)} /\ new.read = entries
    OBVIOUS
  <1>6. begins => IsRollover(new)
    <2>1. {e \in Entries : R!Active(e)} \in SUBSET Entries
      OBVIOUS
    <2> QED BY <1>2, <1>4, <2>1 DEF IsRollover
  <1>7. begins => new # R!Idle
    BY <1>5 DEF R!Idle
  <1>8. /\ more \in [Entries -> Int]
        /\ \A e \in Entries : more[e] = tally[e] + IF R!Active(e) THEN R!CycleMeant - seen ELSE 0
    BY <1>2, <1>3
  <1> HIDE DEF new, more
  <1>9. RhythmTypes'
    <2>1. now' \in Int /\ settings' \in Settings /\ entries' \in [Entries -> Entry]
      BY <1>1, <1>2
    <2>2. sched' = R!Idle \/ IsRollover(sched')
      BY <1>1, <1>6
    <2>3. tasks' = [x \in Operators |-> tasks'[x]]
          /\ \A x \in Operators : IsTask(tasks'[x])
      BY <1>1, <1>2 DEF RhythmTypes
    <2>4. seen' \in Int /\ tally' \in [Entries -> Int]
      BY <1>1, <1>2, <1>3, <1>8
    <2> QED BY <1>1, <1>2, <2>1, <2>2, <2>3, <2>4 DEF RhythmTypes
  <1>10. RhythmClock'
    <2>1. R!ClockIsAsMeant' = R!ClockIsAsMeant
      BY <1>1 DEF R!ClockIsAsMeant
    <2> QED BY <1>1, <2>1 DEF RhythmClock
  <1>11. ~strayed /\ off # Entries =>
            /\ settings.last = seen /\ (begins <=> passes)
            /\ begins => R!CycleAt(settings, now) = R!CycleMeant
    <2> SUFFICES ASSUME ~strayed, off # Entries
                 PROVE  /\ settings.last = seen /\ (begins <=> passes)
                        /\ begins => R!CycleAt(settings, now) = R!CycleMeant
      OBVIOUS
    <2>1. settings.last = seen /\ R!ClockIsAsMeant
      BY <1>1 DEF RhythmSeen, RhythmClock
    <2>2. R!Ticking(settings) <=> clock.mode = "running"
      BY <1>1, <1>2, <2>1, Running DEF R!Ticking
    <2>3. clock.mode = "running" => R!CycleAt(settings, now) = R!CycleMeant
      BY <1>2, <2>1, Running
    <2> QED BY <2>1, <2>2, <2>3
  <1>12. RhythmSeen'
    <2> SUFFICES ASSUME ~strayed, off # Entries
                 PROVE  IF sched' = R!Idle THEN settings'.last = seen'
                        ELSE sched'.copy = settings' /\ sched'.index = seen'
      BY <1>1 DEF RhythmSeen
    <2>1. CASE begins
      BY <1>1, <1>5, <1>7, <1>11, <2>1
    <2>2. CASE ~begins
      BY <1>1, <1>11, <2>2
    <2> QED BY <2>1, <2>2
  <1>13. RhythmCounts'
    <2> SUFFICES ASSUME ~strayed, NEW e \in Entries \ off
                 PROVE  IF sched' # R!Idle /\ e \in sched'.todo
                        THEN /\ entries'[e] = sched'.read[e]
                             /\ entries'[e].rounds + sched'.index - sched'.copy.last = tally'[e]
                        ELSE entries'[e].rounds = tally'[e]
      BY <1>1 DEF RhythmCounts
    <2>1. entries[e].rounds = tally[e]
      BY <1>1 DEF RhythmCounts
    <2>2. off # Entries
      OBVIOUS
    <2>3. CASE begins
      <3>1. /\ sched' = new /\ new # R!Idle /\ entries' = entries
            /\ tally'[e] = tally[e] + IF R!Active(e) THEN R!CycleMeant - seen ELSE 0
        BY <1>1, <1>7, <1>8, <1>11, <2>2, <2>3
      <3>2. e \in new.todo <=> R!Active(e)
        BY <1>5
      <3>3. CASE R!Active(e)
        <4>1. entries[e].rounds + new.index - new.copy.last = tally'[e]
          <5>1. new.index = R!CycleMeant /\ new.copy.last = seen
            BY <1>5, <1>11, <2>2, <2>3
          <5>2. tally'[e] = tally[e] + (R!CycleMeant - seen)
            BY <3>1, <3>3
          <5>3. tally[e] \in Int
            BY <1>2
          <5> QED BY <1>2, <1>3, <2>1, <5>1, <5>2, <5>3
        <4> QED BY <1>5, <3>1, <3>2, <3>3, <4>1
      <3>4. CASE ~R!Active(e)
        <4>1. tally'[e] = tally[e]
          <5>1. tally[e] \in Int
            BY <1>2
          <5> QED BY <3>1, <3>4, <5>1
        <4> QED BY <2>1, <3>1, <3>2, <3>4, <4>1
      <3> QED BY <3>3, <3>4
    <2>4. CASE ~begins
      BY <1>1, <1>11, <2>1, <2>2, <2>4
    <2> QED BY <2>3, <2>4
  <1> QED BY <1>9, <1>10, <1>12, <1>13

LEMMA RhythmCount == ASSUME RhythmInv, NEW e \in Entries, R!Count(e) PROVE RhythmInv'
  <1> USE DEF RhythmInv
  <1> DEFINE counted == [sched.read[e] EXCEPT !.rounds = @ + sched.index - sched.copy.last]
  <1>1. /\ sched.kind = "rollover" /\ e \in sched.todo
        /\ entries' = [entries EXCEPT ![e] = counted]
        /\ sched' = [sched EXCEPT !.todo = @ \ {e}]
        /\ UNCHANGED <<now, settings, tasks, pages, clock, seen, tally, off, strayed>>
    BY DEF R!Count, R!history
  <1>2. RhythmTypes /\ entries \in [Entries -> Entry]
    BY DEF RhythmTypes
  <1>3. /\ sched # R!Idle
        /\ sched = [kind |-> "rollover", copy |-> sched.copy, index |-> sched.index,
                    todo |-> sched.todo, read |-> sched.read]
        /\ sched.copy \in Settings /\ sched.index \in Int /\ sched.todo \subseteq Entries
        /\ sched.read \in [Entries -> Entry]
    BY <1>1, <1>2, Rollovers DEF RhythmTypes
  <1>4. sched' = [kind |-> "rollover", copy |-> sched.copy, index |-> sched.index,
                  todo |-> sched.todo \ {e}, read |-> sched.read]
    BY <1>1, <1>3
  <1>5. /\ sched'.copy = sched.copy /\ sched'.index = sched.index /\ sched'.read = sched.read
        /\ sched'.todo = sched.todo \ {e} /\ sched'.kind = "rollover"
    BY <1>4
  <1>6. IsRollover(sched')
    <2>1. sched.todo \ {e} \in SUBSET Entries
      BY <1>3
    <2> QED BY <1>3, <1>4, <2>1 DEF IsRollover
  <1>7. sched' # R!Idle
    BY <1>5 DEF R!Idle
  <1>8. /\ sched.copy.last \in Int /\ sched.read[e] \in Entry
        /\ counted \in Entry
        /\ counted.rounds = sched.read[e].rounds + sched.index - sched.copy.last
    <2>1. sched.copy.last \in Int
      BY <1>3, SettingsFields
    <2>2. sched.read[e] \in Entry
      BY <1>3
    <2> QED BY <1>3, <2>1, <2>2 DEF Entry
  <1> HIDE DEF counted
  <1>9. /\ entries' \in [Entries -> Entry] /\ entries'[e] = counted
        /\ \A x \in Entries \ {e} : entries'[x] = entries[x]
    BY <1>1, <1>2, <1>8
  <1>10. RhythmTypes'
    <2>1. tasks' = [x \in Operators |-> tasks'[x]]
          /\ \A x \in Operators : IsTask(tasks'[x])
      BY <1>1, <1>2 DEF RhythmTypes
    <2> QED BY <1>1, <1>2, <1>6, <1>9, <2>1 DEF RhythmTypes
  <1>11. RhythmClock'
    <2>1. R!ClockIsAsMeant' = R!ClockIsAsMeant
      BY <1>1 DEF R!ClockIsAsMeant
    <2> QED BY <1>1, <2>1 DEF RhythmClock
  <1>12. RhythmSeen'
    BY <1>1, <1>3, <1>5, <1>7 DEF RhythmSeen
  <1>13. RhythmCounts'
    <2> SUFFICES ASSUME ~strayed, NEW x \in Entries \ off
                 PROVE  IF sched' # R!Idle /\ x \in sched'.todo
                        THEN /\ entries'[x] = sched'.read[x]
                             /\ entries'[x].rounds + sched'.index - sched'.copy.last = tally'[x]
                        ELSE entries'[x].rounds = tally'[x]
      BY <1>1 DEF RhythmCounts
    <2>1. IF sched # R!Idle /\ x \in sched.todo
          THEN /\ entries[x] = sched.read[x]
               /\ entries[x].rounds + sched.index - sched.copy.last = tally[x]
          ELSE entries[x].rounds = tally[x]
      BY DEF RhythmCounts
    <2>2. CASE x = e
      <3>1. /\ entries[e] = sched.read[e]
            /\ entries[e].rounds + sched.index - sched.copy.last = tally[e]
        BY <1>1, <1>3, <2>1, <2>2
      <3>2. entries'[e].rounds = tally[e]
        BY <1>8, <1>9, <3>1
      <3> QED BY <1>1, <1>5, <2>2, <3>2
    <2>3. CASE x # e
      BY <1>1, <1>3, <1>5, <1>7, <1>9, <2>1, <2>3
    <2> QED BY <2>2, <2>3
  <1> QED BY <1>10, <1>11, <1>12, <1>13

LEMMA RhythmSaveIndex == ASSUME RhythmInv, R!SaveIndex PROVE RhythmInv'
  <1> USE DEF RhythmInv
  <1>1. /\ sched.kind = "rollover" /\ sched.todo = {}
        /\ settings' = [sched.copy EXCEPT !.last = sched.index]
        /\ sched' = R!Idle
        /\ UNCHANGED <<now, entries, tasks, pages, clock, seen, tally, off, strayed>>
    BY DEF R!SaveIndex, R!history
  <1>2. /\ RhythmTypes /\ sched # R!Idle /\ sched.copy \in Settings /\ sched.index \in Int
    BY <1>1, Rollovers DEF RhythmTypes
  <1>3. /\ settings' \in Settings /\ settings'.last = sched.index
        /\ settings'.started = sched.copy.started /\ settings'.paused = sched.copy.paused
    <2>1. settings' \in Settings
      <3>1. {} \in Moment
        BY DEF Moment
      <3> QED BY <1>1, <1>2, <3>1, SettingsReplaced
    <2> QED BY <1>1, <1>2, <2>1 DEF Settings
  <1>4. RhythmTypes'
    <2>1. tasks' = [x \in Operators |-> tasks'[x]]
          /\ \A x \in Operators : IsTask(tasks'[x])
      BY <1>1, <1>2 DEF RhythmTypes
    <2>2. sched' = R!Idle \/ IsRollover(sched')
      BY <1>1
    <2> QED BY <1>1, <1>2, <1>3, <2>1, <2>2 DEF RhythmTypes
  <1>5. RhythmClock'
    <2> SUFFICES ASSUME ~strayed, off # Entries PROVE R!ClockIsAsMeant'
      BY <1>1 DEF RhythmClock
    <2>1. R!ClockIsAsMeant /\ sched.copy = settings
      BY <1>2 DEF RhythmClock, RhythmSeen
    <2>2. settings'.started = settings.started /\ settings'.paused = settings.paused
      BY <1>3, <2>1
    <2> QED BY <1>1, <2>1, <2>2 DEF R!ClockIsAsMeant
  <1>6. RhythmSeen'
    BY <1>1, <1>2, <1>3 DEF RhythmSeen
  <1>7. RhythmCounts'
    BY <1>1, <1>2 DEF RhythmCounts
  <1> QED BY <1>4, <1>5, <1>6, <1>7

LEMMA RhythmRestart == ASSUME RhythmInv, R!Restart PROVE RhythmInv'
  <1> USE DEF RhythmInv
  <1>1. /\ off' = IF sched = R!Idle THEN off ELSE Entries
        /\ sched' = R!Idle
        /\ tasks' = [o \in Operators |-> R!Idle]
        /\ UNCHANGED <<now, settings, entries, pages, clock, seen, tally, strayed>>
    BY DEF R!Restart
  <1>2. RhythmTypes
    OBVIOUS
  <1>3. RhythmTypes'
    <2>1. tasks' = [x \in Operators |-> tasks'[x]]
          /\ \A x \in Operators : IsTask(tasks'[x])
      BY <1>1 DEF IsTask
    <2>2. off' \subseteq Entries
      BY <1>1, <1>2 DEF RhythmTypes
    <2> QED BY <1>1, <1>2, <2>1, <2>2 DEF RhythmTypes
  <1>4. RhythmClock'
    <2>1. R!ClockIsAsMeant' = R!ClockIsAsMeant
      BY <1>1 DEF R!ClockIsAsMeant
    <2> QED BY <1>1, <2>1 DEF RhythmClock
  <1>5. RhythmSeen' /\ RhythmCounts'
    BY <1>1 DEF RhythmSeen, RhythmCounts
  <1> QED BY <1>3, <1>4, <1>5

\* Nothing is claimed any more.
LEMMA Disturbed ==
    ASSUME off' = Entries
    PROVE  RhythmClock' /\ RhythmSeen' /\ RhythmCounts'
  BY DEF RhythmClock, RhythmSeen, RhythmCounts

\* Writes to entry e that leave settings, scheduler and clock alone.
LEMMA EntryWritten ==
    ASSUME RhythmInv, NEW e \in Entries, NEW w \in Entry, NEW disturbs \in BOOLEAN,
           R!Puts(e, w, disturbs),
           tally' \in [Entries -> Int], \A x \in Entries \ {e} : tally'[x] = tally[x],
           \/ disturbs
           \/ strayed
           \/ e \in off
           \/ sched = R!Idle /\ w.rounds = tally'[e],
           tasks' = [x \in Operators |-> tasks'[x]],
           \A x \in Operators : IsTask(tasks'[x]),
           UNCHANGED <<now, settings, sched, pages, clock, seen, strayed>>
    PROVE  RhythmInv'
  <1> USE DEF RhythmInv
  <1>1. /\ entries' = [entries EXCEPT ![e] = w]
        /\ off' = IF disturbs THEN off \cup {e} ELSE off
    BY DEF R!Puts
  <1>2. RhythmTypes /\ entries \in [Entries -> Entry] /\ off \subseteq Entries
    BY DEF RhythmTypes
  <1>3. /\ entries' \in [Entries -> Entry] /\ entries'[e] = w
        /\ \A x \in Entries \ {e} : entries'[x] = entries[x]
    BY <1>1, <1>2
  <1>4. off \subseteq off' /\ off' \subseteq Entries /\ (disturbs => e \in off')
    BY <1>1, <1>2
  <1>5. RhythmTypes'
    BY <1>2, <1>3, <1>4 DEF RhythmTypes
  <1>6. off' # Entries => off # Entries
    BY <1>4
  <1>7. RhythmClock'
    <2>1. R!ClockIsAsMeant' = R!ClockIsAsMeant
      BY DEF R!ClockIsAsMeant
    <2> QED BY <1>6, <2>1 DEF RhythmClock
  <1>8. RhythmSeen'
    BY <1>6 DEF RhythmSeen
  <1>9. RhythmCounts'
    <2> SUFFICES ASSUME ~strayed, NEW x \in Entries \ off'
                 PROVE  IF sched # R!Idle /\ x \in sched.todo
                        THEN /\ entries'[x] = sched.read[x]
                             /\ entries'[x].rounds + sched.index - sched.copy.last = tally'[x]
                        ELSE entries'[x].rounds = tally'[x]
      BY DEF RhythmCounts
    <2>1. x \in Entries \ off
      BY <1>4
    <2>2. CASE x = e
      BY <1>3, <1>4, <2>1, <2>2
    <2>3. CASE x # e
      BY <1>3, <2>1, <2>3 DEF RhythmCounts
    <2> QED BY <2>2, <2>3
  <1> QED BY <1>5, <1>7, <1>8, <1>9

LEMMA RhythmEditSaves == ASSUME RhythmInv, NEW o \in Operators, R!EditSaves(o) PROVE RhythmInv'
  <1> DEFINE e == tasks[o].entry
             copy == tasks[o].copy
             disturbs == copy # entries[e] \/ sched # R!Idle
  <1>1. /\ tasks[o].kind = "edit" /\ R!Ends(o)
        /\ UNCHANGED <<now, settings, sched, pages, clock, seen, strayed>>
    BY DEF R!EditSaves
  <1>2. PICK state \in {"active", "inactive", "archived"}, rounds \in {copy.rounds, 0} :
           /\ R!Puts(e, [rounds |-> rounds, state |-> state], disturbs)
           /\ tally' = IF rounds = copy.rounds THEN tally ELSE [tally EXCEPT ![e] = rounds]
    BY DEF R!EditSaves
  <1>3. /\ RhythmTypes /\ IsTask(tasks[o]) /\ entries \in [Entries -> Entry]
        /\ tally \in [Entries -> Int]
    BY DEF RhythmInv, RhythmTypes
  <1>4. e \in Entries /\ copy \in Entry
    <2>1. IsEdit(tasks[o])
      BY <1>1, <1>3, TaskKinds
    <2> QED BY <2>1 DEF IsEdit
  <1>5. disturbs \in BOOLEAN
    BY Zenon
  <1> HIDE DEF e, copy
  <1>6. copy.rounds \in Int
    BY <1>4 DEF Entry
  <1> DEFINE w == [rounds |-> rounds, state |-> state]
  <1>7. w \in Entry /\ w.rounds = rounds
    BY <1>2, <1>6 DEF Entry
  <1>8. /\ tally' \in [Entries -> Int] /\ \A x \in Entries \ {e} : tally'[x] = tally[x]
        /\ tally'[e] = IF rounds = copy.rounds THEN tally[e] ELSE rounds
    BY <1>2, <1>3, <1>4, <1>6
  <1>9. \/ disturbs
        \/ strayed
        \/ e \in off
        \/ sched = R!Idle /\ w.rounds = tally'[e]
    <2> SUFFICES ASSUME copy = entries[e], sched = R!Idle, ~strayed, e \notin off
                 PROVE  rounds = tally'[e]
      BY <1>7
    <2>1. entries[e].rounds = tally[e]
      BY <1>4 DEF RhythmInv, RhythmCounts
    <2> QED BY <1>8, <2>1
  <1>10. /\ tasks' = [x \in Operators |-> tasks'[x]]
         /\ \A x \in Operators : IsTask(tasks'[x])
    BY <1>1, <1>3, Ending
  <1>11. R!Puts(e, w, disturbs)
    BY <1>2
  <1> HIDE DEF w, disturbs
  <1> QED BY <1>1, <1>4, <1>5, <1>7, <1>8, <1>9, <1>10, <1>11, EntryWritten

LEMMA RhythmZero ==
    ASSUME RhythmInv, NEW o \in Operators, NEW e \in Entries, R!Zero(o, e) PROVE RhythmInv'
  <1> DEFINE t == tasks[o]
             disturbs == sched # R!Idle
             w == [t.read[e] EXCEPT !.rounds = 0]
             u == [tasks[o] EXCEPT !.todo = @ \ {e}]
  <1>1. /\ t.kind = "zero" /\ R!Puts(e, w, disturbs) /\ tally' = [tally EXCEPT ![e] = 0]
        /\ tasks' = [tasks EXCEPT ![o] = u]
        /\ UNCHANGED <<now, settings, sched, pages, clock, seen, strayed>>
    BY DEF R!Zero
  <1>2. RhythmTypes /\ IsTask(t) /\ tally \in [Entries -> Int]
    BY DEF RhythmInv, RhythmTypes
  <1>3. IsZero(t)
    BY <1>1, <1>2, TaskKinds
  <1>4. PICK s \in [Entries -> Entry], X \in SUBSET Entries :
           t = [kind |-> "zero", read |-> s, todo |-> X]
    BY <1>3 DEF IsZero
  <1>5. w \in Entry /\ w.rounds = 0
    <2>1. w = [s[e] EXCEPT !.rounds = 0] /\ s[e] \in Entry
      BY <1>4
    <2> QED BY <2>1 DEF Entry
  <1>6. u = [kind |-> "zero", read |-> s, todo |-> X \ {e}]
    BY <1>4
  <1>7. IsZero(u)
    <2>1. X \ {e} \in SUBSET Entries
      BY <1>4
    <2> QED BY <1>4, <1>6, <2>1 DEF IsZero
  <1>8. IsTask(u)
    BY <1>7, Zenon DEF IsTask
  <1> HIDE DEF w, u, t
  <1>9. /\ tasks' = [x \in Operators |-> tasks'[x]]
        /\ \A x \in Operators : IsTask(tasks'[x])
    BY <1>1, <1>2, <1>8, TaskSet
  <1>10. /\ tally' \in [Entries -> Int] /\ \A x \in Entries \ {e} : tally'[x] = tally[x]
         /\ tally'[e] = 0
    BY <1>1, <1>2
  <1>11. disturbs \in BOOLEAN
    BY Zenon
  <1>12. \/ disturbs
         \/ strayed
         \/ e \in off
         \/ sched = R!Idle /\ w.rounds = tally'[e]
    BY <1>5, <1>10
  <1> HIDE DEF disturbs
  <1>13. R!Puts(e, w, disturbs)
    BY <1>1
  <1>14. UNCHANGED <<now, settings, sched, pages, clock, seen, strayed>>
    BY <1>1
  <1>15. w \in Entry
    BY <1>5
  <1>16. tally' \in [Entries -> Int] /\ \A x \in Entries \ {e} : tally'[x] = tally[x]
    BY <1>10
  <1> QED BY <1>9, <1>11, <1>12, <1>13, <1>14, <1>15, <1>16, EntryWritten

\* Settings are saved that have the clock of the store, and a last cycle that the
\* scheduler is taken to have looked at.
LEMMA SettingsSaved ==
    ASSUME RhythmInv, settings' \in Settings, seen' \in Int,
           UNCHANGED <<now, entries, sched, clock, tally>>,
           tasks' = [x \in Operators |-> tasks'[x]],
           \A x \in Operators : IsTask(tasks'[x]),
           pages' \in [Operators -> PageClock],
           strayed' \in BOOLEAN, strayed => strayed',
           \/ off' = Entries
           \/ /\ off' = off /\ sched = R!Idle
              /\ ~strayed' => /\ settings'.started = settings.started
                              /\ settings'.paused = settings.paused
                              /\ settings.last = seen => settings'.last = seen'
    PROVE  RhythmInv'
  <1> USE DEF RhythmInv
  <1>1. RhythmTypes
    OBVIOUS
  <1>2. RhythmTypes'
    <2>1. off' \subseteq Entries
      BY <1>1 DEF RhythmTypes
    <2>2. sched' = R!Idle \/ IsRollover(sched')
      BY <1>1 DEF RhythmTypes
    <2> QED BY <1>1, <2>1, <2>2 DEF RhythmTypes
  <1>3. CASE off' = Entries
    BY <1>2, <1>3, Disturbed
  <1>4. CASE /\ off' = off /\ sched = R!Idle
             /\ ~strayed' => /\ settings'.started = settings.started
                             /\ settings'.paused = settings.paused
                             /\ settings.last = seen => settings'.last = seen'
    <2>1. RhythmClock'
      <3> SUFFICES ASSUME ~strayed', off # Entries PROVE R!ClockIsAsMeant'
        BY <1>4 DEF RhythmClock
      <3>1. R!ClockIsAsMeant
        BY DEF RhythmClock
      <3>2. settings'.started = settings.started /\ settings'.paused = settings.paused
        BY <1>4
      <3> QED BY <3>1, <3>2 DEF R!ClockIsAsMeant
    <2>2. RhythmSeen'
      BY <1>4 DEF RhythmSeen
    <2>3. RhythmCounts'
      BY <1>4 DEF RhythmCounts
    <2> QED BY <1>2, <2>1, <2>2, <2>3
  <1> QED BY <1>3, <1>4

LEMMA RhythmMarkSaves == ASSUME RhythmInv, NEW o \in Operators, R!MarkSaves(o) PROVE RhythmInv'
  <1> DEFINE t == tasks[o]
  <1>1. /\ t.kind = "mark" /\ R!Ends(o)
        /\ settings' = [t.copy EXCEPT !.last = t.index]
        /\ seen' = t.meant
        /\ off' = IF ~(t.copy # settings \/ sched # R!Idle) /\ t.index = t.meant
                  THEN off ELSE Entries
        /\ UNCHANGED <<now, entries, sched, pages, clock, tally, strayed>>
    BY DEF R!MarkSaves, R!Clashes
  <1>2. /\ RhythmTypes /\ IsTask(t) /\ settings \in Settings /\ strayed \in BOOLEAN
        /\ pages \in [Operators -> PageClock]
    BY DEF RhythmInv, RhythmTypes
  <1>3. t.copy \in Settings /\ t.index \in Int /\ t.meant \in Int
    <2>1. IsMark(t)
      BY <1>1, <1>2, TaskKinds
    <2> QED BY <2>1 DEF IsMark
  <1> HIDE DEF t
  <1>4. settings' \in Settings
    <2>1. {} \in Moment
      BY DEF Moment
    <2> QED BY <1>1, <1>3, <2>1, SettingsReplaced
  <1>5. /\ settings'.started = t.copy.started /\ settings'.paused = t.copy.paused
        /\ settings'.last = t.index
    BY <1>1, <1>3 DEF Settings
  <1>6. /\ tasks' = [x \in Operators |-> tasks'[x]]
        /\ \A x \in Operators : IsTask(tasks'[x])
    BY <1>1, <1>2, Ending
  <1>7. \/ off' = Entries
        \/ /\ off' = off /\ sched = R!Idle
           /\ settings'.started = settings.started /\ settings'.paused = settings.paused
           /\ settings'.last = seen'
    BY <1>1, <1>5
  <1>8. pages' \in [Operators -> PageClock] /\ seen' \in Int
    BY <1>1, <1>2, <1>3
  <1>9. strayed' \in BOOLEAN /\ (strayed => strayed')
    BY <1>1, <1>2, Zenon
  <1> QED BY <1>1, <1>4, <1>6, <1>7, <1>8, <1>9, SettingsSaved

LEMMA RhythmSaveSaves == ASSUME RhythmInv, NEW o \in Operators, R!SaveSaves(o) PROVE RhythmInv'
  <1> DEFINE found == tasks[o].copy
             form == tasks[o].form
             new == [form EXCEPT !.last = found.last]
             was == [settings EXCEPT !.last = found.last, !.started = found.started,
                                     !.paused = found.paused]
  <1>1. /\ tasks[o].kind = "save" /\ R!Ends(o) /\ settings' = new
        /\ pages' = [pages EXCEPT ![o] = [started |-> new.started, paused |-> new.paused]]
        /\ off' = IF was # settings \/ sched # R!Idle THEN Entries ELSE off
        /\ strayed' = (strayed \/ R!ClockOf(new) # R!ClockOf(found))
        /\ UNCHANGED <<now, entries, sched, clock, seen, tally>>
    BY DEF R!SaveSaves, R!Clashes, R!Kept, R!ClockOf
  <1>2. /\ RhythmTypes /\ IsTask(tasks[o]) /\ settings \in Settings /\ seen \in Int
        /\ pages \in [Operators -> PageClock]
    BY DEF RhythmInv, RhythmTypes
  <1>3. found \in Settings /\ form \in Settings
    <2>1. IsSave(tasks[o])
      BY <1>1, <1>2, TaskKinds
    <2> QED BY <2>1 DEF IsSave
  <1> HIDE DEF found, form
  <1>4. /\ found.last \in Int /\ found.started \in Moment /\ found.paused \in Moment
        /\ form.started \in Moment /\ form.paused \in Moment
    BY <1>3, SettingsFields
  <1>5. new \in Settings
    BY <1>3, <1>4, SettingsReplaced
  <1>6. new.last = found.last /\ new.started = form.started /\ new.paused = form.paused
    BY <1>3 DEF Settings
  <1>7. was.last = found.last /\ was.started = found.started /\ was.paused = found.paused
    BY <1>2 DEF Settings
  <1> HIDE DEF new, was
  <1>8. pages' \in [Operators -> PageClock]
    <2> DEFINE p == [started |-> new.started, paused |-> new.paused]
    <2>1. p \in PageClock
      BY <1>4, <1>6 DEF PageClock
    <2> HIDE DEF p
    <2>2. pages' = [pages EXCEPT ![o] = p]
      BY <1>1 DEF p
    <2> QED BY <1>2, <2>1, <2>2
  <1>9. strayed' \in BOOLEAN /\ (strayed => strayed')
    BY <1>1, Zenon
  <1>10. ~strayed' => new.started = found.started /\ new.paused = found.paused
    <2>1. R!ClockOf(new) = R!ClockOf(found) =>
             new.started = found.started /\ new.paused = found.paused
      BY DEF R!ClockOf
    <2> QED BY <1>1, <2>1, Zenon
  <1>11. \/ off' = Entries
         \/ /\ off' = off /\ sched = R!Idle
            /\ ~strayed' => /\ settings'.started = settings.started
                            /\ settings'.paused = settings.paused
                            /\ settings.last = seen => settings'.last = seen'
    <2>1. CASE was # settings \/ sched # R!Idle
      BY <1>1, <2>1
    <2>2. CASE was = settings /\ sched = R!Idle
      <3>1. settings.last = found.last /\ settings.started = found.started
            /\ settings.paused = found.paused
        BY <1>7, <2>2
      <3> QED BY <1>1, <1>6, <1>10, <2>2, <3>1
    <2> QED BY <2>1, <2>2
  <1>12. /\ tasks' = [x \in Operators |-> tasks'[x]]
         /\ \A x \in Operators : IsTask(tasks'[x])
    BY <1>1, <1>2, Ending
  <1>13. settings' \in Settings /\ seen' \in Int
    BY <1>1, <1>2, <1>5
  <1> QED BY <1>1, <1>8, <1>9, <1>11, <1>12, <1>13, SettingsSaved

\* The shifts of the clock are whole minutes.
LEMMA ShiftsAreWhole ==
    ASSUME NEW c \in Settings, c.started # {}, NEW m \in Int, NEW a, NEW by \in R!Shifts(c, m, a)
    PROVE  by \in Int
  <1>1. c.cycle \in Lengths /\ c.started \in Moment /\ c.paused \in Moment
    BY SettingsFields
  <1>2. c.cycle \in Int
    <2>1. c.cycle \in Lengths
      BY <1>1
    <2>2. \A n \in Lengths : n \in Int
      BY LengthsArePositive
    <2> QED BY <2>1, <2>2
  <1>3. R!Positions(c, m) \subseteq Int
    <2> DEFINE end == IF c.paused = {} THEN m ELSE R!The(c.paused)
               elapsed == end - R!The(c.started)
    <2>1. end \in Int /\ R!The(c.started) \in Int
      BY <1>1, Moments
    <2>2. elapsed \in Int /\ elapsed % c.cycle \in Int
      BY <1>1, <2>1, Divided
    <2>3. R!Positions(c, m) = IF elapsed < 0 THEN {0, elapsed} ELSE {elapsed % c.cycle}
      BY DEF R!Positions
    <2> HIDE DEF elapsed
    <2> QED BY <2>2, <2>3
  <1>4. PICK p \in R!Positions(c, m) :
           by \in IF a = "backward"
                  THEN IF p <= 0 THEN {c.cycle} ELSE {p - s : s \in 0..(p - 1)}
                  ELSE {p - s : s \in R!Largest(0, p + 1)..c.cycle}
    BY DEF R!Shifts
  <1>5. p \in Int
    BY <1>3, <1>4
  <1>6. CASE by \in {p - s : s \in R!Largest(0, p + 1)..c.cycle}
    <2>1. R!Largest(0, p + 1) \in Int
      BY <1>5 DEF R!Largest
    <2> QED BY <1>2, <1>5, <1>6, <2>1
  <1>7. CASE by \in {p - s : s \in 0..(p - 1)}
    BY <1>5, <1>7
  <1>8. CASE by = c.cycle
    BY <1>2, <1>8
  <1> QED BY <1>4, <1>6, <1>7, <1>8

LEMMA ShiftedMoment ==
    ASSUME NEW s \in Moment, NEW by \in Int
    PROVE  /\ {t + by : t \in s} \in Moment
           /\ s = {} => {t + by : t \in s} = {}
           /\ by = 0 => {t + by : t \in s} = s
  <1>1. CASE s = {}
    <2>1. {t + by : t \in s} = {}
      BY <1>1
    <2> QED BY <1>1, <2>1 DEF Moment
  <1>2. CASE s # {}
    <2>1. PICK u \in Int : s = {u}
      BY <1>2 DEF Moment
    <2>2. {t + by : t \in s} = {u + by}
      BY <2>1
    <2>3. u + by \in Int /\ (by = 0 => u + by = u)
      BY <2>1
    <2> QED BY <1>2, <2>1, <2>2, <2>3 DEF Moment
  <1> QED BY <1>1, <1>2

\* What a control does to the settings, field by field.
IsOutcome(a, c, m, r) ==
    /\ r.cfg \in Settings /\ r.by \in Int
    /\ a = "start" => /\ r.cfg.started # {} /\ r.cfg.paused = {} /\ r.cfg.last = 0
    /\ a = "reset" => /\ r.cfg.started = {} /\ r.cfg.paused = {} /\ r.cfg.last = 0
    /\ a \notin R!Anew => r.cfg.last = c.last
    /\ a = "pause" => /\ r.cfg.started = c.started /\ r.by = 0
                      /\ r.cfg.paused = IF c.paused = {} THEN {m} ELSE c.paused
    /\ a = "resume" => /\ r.cfg.started = {R!The(c.started) + m - R!The(c.paused)}
                       /\ r.cfg.paused = {}
    /\ a = "forward" => r.cfg = c /\ r.by = 0
    /\ a \in {"backward", "fast_forward"} => /\ r.cfg.started = {R!The(c.started) + r.by}
                                             /\ r.cfg.paused = {t + r.by : t \in c.paused}

LEMMA SettingsAfter ==
    ASSUME NEW c \in Settings, NEW s, NEW p, NEW l
    PROVE  /\ [c EXCEPT !.started = s, !.paused = p, !.last = l].started = s
           /\ [c EXCEPT !.started = s, !.paused = p, !.last = l].paused = p
           /\ [c EXCEPT !.started = s, !.paused = p, !.last = l].last = l
           /\ [c EXCEPT !.started = s, !.paused = p].started = s
           /\ [c EXCEPT !.started = s, !.paused = p].paused = p
           /\ [c EXCEPT !.started = s, !.paused = p].last = c.last
           /\ [c EXCEPT !.paused = p].started = c.started
           /\ [c EXCEPT !.paused = p].paused = p
           /\ [c EXCEPT !.paused = p].last = c.last
  BY DEF Settings

LEMMA Outcome ==
    ASSUME NEW a \in R!Controls, NEW c \in Settings, NEW m \in Int,
           a \notin R!Anew => c.started # {}, a = "resume" => c.paused # {},
           NEW r \in R!Outcomes(a, c, m)
    PROVE  IsOutcome(a, c, m, r)
  <1>1. c.started \in Moment /\ c.paused \in Moment /\ c.last \in Int
    BY SettingsFields
  <1>2. {} \in Moment /\ 0 \in Int /\ \A t \in Int : {t} \in Moment /\ {t} # {}
    BY DEF Moment
  <1>3. a \in {"start", "pause", "resume", "reset", "backward", "forward", "fast_forward"}
    BY DEF R!Controls
  <1>4. CASE a = "start"
    <2>1. PICK h0 \in m..(m + MaxAhead) :
             r = [cfg |-> [c EXCEPT !.started = {h0}, !.paused = {}, !.last = 0], by |-> 0]
      BY <1>4 DEF R!Outcomes
    <2> DEFINE x == [c EXCEPT !.started = {h0}, !.paused = {}, !.last = 0]
    <2>2. {h0} \in Moment /\ {h0} # {}
      <3>1. h0 \in Int
        BY ServerAssumption DEF R!BattleRhythmAssumption
      <3> QED BY <1>2, <3>1
    <2>3. x \in Settings
      BY <1>2, <2>2, SettingsReplaced
    <2>4. x.started = {h0} /\ x.paused = {} /\ x.last = 0
      BY SettingsAfter
    <2>5. r = [cfg |-> x, by |-> 0]
      BY <2>1
    <2> HIDE DEF x
    <2>6. r.cfg = x /\ r.by = 0
      BY <2>5
    <2> QED BY <1>4, <2>2, <2>3, <2>4, <2>6 DEF IsOutcome, R!Anew
  <1>5. CASE a = "reset"
    <2> DEFINE x == [c EXCEPT !.started = {}, !.paused = {}, !.last = 0]
    <2>1. r = [cfg |-> x, by |-> 0]
      BY <1>5 DEF R!Outcomes
    <2>2. x \in Settings
      BY <1>2, SettingsReplaced
    <2>3. x.started = {} /\ x.paused = {} /\ x.last = 0
      BY SettingsAfter
    <2> HIDE DEF x
    <2>4. r.cfg = x /\ r.by = 0
      BY <2>1
    <2> QED BY <1>5, <2>2, <2>3, <2>4 DEF IsOutcome, R!Anew
  <1>6. CASE a = "pause"
    <2>1. r = [cfg |-> IF c.paused = {} THEN [c EXCEPT !.paused = {m}] ELSE c, by |-> 0]
      BY <1>6 DEF R!Outcomes
    <2>2. CASE c.paused = {}
      <3>1. r.cfg = [c EXCEPT !.paused = {m}] /\ r.by = 0
        BY <2>1, <2>2
      <3>2. r.cfg \in Settings
        BY <1>1, <1>2, <3>1, SettingsReplaced
      <3>3. r.cfg.started = c.started /\ r.cfg.paused = {m} /\ r.cfg.last = c.last
        BY <3>1, SettingsAfter
      <3> QED BY <1>6, <2>2, <3>1, <3>2, <3>3 DEF IsOutcome, R!Anew
    <2>3. CASE c.paused # {}
      <3>1. r.cfg = c /\ r.by = 0
        BY <2>1, <2>3
      <3> QED BY <1>6, <2>3, <3>1 DEF IsOutcome, R!Anew
    <2> QED BY <2>2, <2>3
  <1>7. CASE a = "resume"
    <2> DEFINE s == {R!The(c.started) + m - R!The(c.paused)}
    <2>1. r = [cfg |-> [c EXCEPT !.started = s, !.paused = {}], by |-> 0]
      <3>1. r = [cfg |-> [c EXCEPT !.started = {R!The(@) + m - R!The(c.paused)}, !.paused = {}],
                 by |-> 0]
        BY <1>7 DEF R!Outcomes
      <3>2. [c EXCEPT !.started = {R!The(@) + m - R!The(c.paused)}, !.paused = {}] =
               [c EXCEPT !.started = s, !.paused = {}]
        BY DEF Settings
      <3> QED BY <3>1, <3>2
    <2>2. s \in Moment
      <3>1. R!The(c.started) \in Int /\ R!The(c.paused) \in Int
        BY <1>1, <1>7, Moments DEF R!Anew
      <3> QED BY <1>2, <3>1
    <2> HIDE DEF s
    <2> DEFINE x == [c EXCEPT !.started = s, !.paused = {}]
    <2>3. x \in Settings
      BY <1>1, <1>2, <2>2, SettingsReplaced
    <2>4. x.started = s /\ x.paused = {} /\ x.last = c.last
      BY SettingsAfter
    <2>5. r = [cfg |-> x, by |-> 0]
      BY <2>1
    <2> HIDE DEF x
    <2>6. r.cfg = x /\ r.by = 0
      BY <2>5
    <2> QED BY <1>7, <2>3, <2>4, <2>6 DEF IsOutcome, R!Anew, s
  <1>8. CASE a = "forward"
    <2>1. r = [cfg |-> c, by |-> 0]
      BY <1>8 DEF R!Outcomes
    <2> QED BY <1>8, <2>1 DEF IsOutcome, R!Anew
  <1>9. CASE a \in {"backward", "fast_forward"}
    <2>1. PICK by \in R!Shifts(c, m, a) : r = [cfg |-> R!Moved(c, by), by |-> by]
      BY <1>9 DEF R!Outcomes
    <2> DEFINE s == {R!The(c.started) + by}
               p == {t + by : t \in c.paused}
    <2>2. c.started # {}
      BY <1>9 DEF R!Anew
    <2>3. by \in Int
      BY <2>2, ShiftsAreWhole
    <2>4. r = [cfg |-> [c EXCEPT !.started = s, !.paused = p], by |-> by]
      <3>1. R!Moved(c, by) = [c EXCEPT !.started = s, !.paused = p]
        BY DEF R!Moved, Settings
      <3> QED BY <2>1, <3>1
    <2>5. s \in Moment
      <3>1. R!The(c.started) \in Int
        BY <1>1, <2>2, Moments
      <3> QED BY <1>2, <2>3, <3>1
    <2>6. p \in Moment
      BY <1>1, <2>3, ShiftedMoment
    <2>7. r.by = by
      BY <2>4
    <2> HIDE DEF s, p
    <2> DEFINE x == [c EXCEPT !.started = s, !.paused = p]
    <2>8. x \in Settings
      BY <1>1, <2>5, <2>6, SettingsReplaced
    <2>9. x.started = s /\ x.paused = p /\ x.last = c.last
      BY SettingsAfter
    <2>10. r = [cfg |-> x, by |-> by]
      BY <2>4
    <2> HIDE DEF x
    <2>11. r.cfg = x
      BY <2>10
    <2> QED BY <1>9, <2>3, <2>7, <2>8, <2>9, <2>11 DEF IsOutcome, R!Anew, s, p
  <1> QED BY <1>3, <1>4, <1>5, <1>6, <1>7, <1>8, <1>9

\* The clock the operators made and the clock of the store move together.
LEMMA MovedTogether ==
    ASSUME RhythmTypes, R!ClockIsAsMeant, NEW a \in R!Controls \ R!Anew, NEW m \in Int, NEW r,
           IsOutcome(a, settings, m, r), settings.started # {},
           a = "resume" => settings.paused # {},
           r.by # 0 => settings.paused = {},
           settings' = r.cfg, now' = now,
           clock' = R!Meant([kind |-> "control", action |-> a, copy |-> settings, at |-> m], r)
    PROVE  R!ClockIsAsMeant'
  <1> DEFINE began == R!The(settings.started)
             halted == R!The(settings.paused)
  <1>1. settings.started \in Moment /\ settings.paused \in Moment /\ now \in Int /\ r.by \in Int
    BY SettingsFields DEF RhythmTypes, IsOutcome
  <1>2. began \in Int /\ (settings.paused # {} => halted \in Int /\ settings.paused = {halted})
    BY <1>1, Moments
  <1>3. clock.mode \in {"stopped", "running", "paused"} /\ clock.ran \in Int
    BY ClockFields
  <1>4. /\ settings.paused = {} => clock.mode = "running" /\ now - began = clock.ran
        /\ settings.paused # {} => clock.mode = "paused" /\ halted - began = clock.ran
    BY <1>3 DEF R!ClockIsAsMeant
  <1>5. \A t : R!The({t}) = t
    BY DEF R!The
  <1> DEFINE task == [kind |-> "control", action |-> a, copy |-> settings, at |-> m]
  <1>6. task.action = a /\ task.at = m
    OBVIOUS
  <1> HIDE DEF task
  <1>7. clock' = CASE a = "start" -> [mode |-> "running", ran |-> now - R!The(r.cfg.started)]
                   [] a = "reset" -> R!Stopped
                   [] a = "pause" /\ clock.mode = "running" ->
                         [mode |-> "paused", ran |-> clock.ran - (now - m)]
                   [] a = "resume" -> [mode |-> "running", ran |-> clock.ran + (now - m)]
                   [] OTHER -> [clock EXCEPT !.ran = @ - r.by]
    <2>1. clock' = R!Meant(task, r)
      BY DEF task
    <2> QED BY <1>6, <2>1 DEF R!Meant
  <1>8. a \in {"pause", "resume", "backward", "forward", "fast_forward"}
    BY DEF R!Controls, R!Anew
  <1>15. r.by = 0 => {t + r.by : t \in settings.paused} = settings.paused
    <2> SUFFICES ASSUME r.by = 0 PROVE {t + r.by : t \in settings.paused} = settings.paused
      OBVIOUS
    <2>1. \A t \in settings.paused : t \in Int
      BY <1>1 DEF Moment
    <2>2. \A t \in settings.paused : t + r.by = t
      BY <2>1
    <2> QED BY <2>2
  <1>16. settings.paused = {} => {t + r.by : t \in settings.paused} = {}
    BY <1>1, ShiftedMoment
  \* The clock stands as before, or a whole shift further.
  <1>9. ASSUME clock' = [clock EXCEPT !.ran = @ - r.by],
               settings'.started = {began + r.by},
               settings'.paused = {t + r.by : t \in settings.paused}
        PROVE  R!ClockIsAsMeant'
    <2>1. clock'.mode = clock.mode /\ clock'.ran = clock.ran - r.by
      BY <1>9, ClockFields
    <2>2. R!The(settings'.started) = began + r.by /\ settings'.started # {}
      BY <1>5, <1>9
    <2>3. CASE settings.paused = {}
      <3>1. settings'.paused = {}
        BY <1>9, <1>16, <2>3
      <3>2. clock'.mode = "running" /\ now' - R!The(settings'.started) = clock'.ran
        BY <1>1, <1>2, <1>3, <1>4, <2>1, <2>2, <2>3
      <3> QED BY <2>2, <3>1, <3>2 DEF R!ClockIsAsMeant
    <2>4. CASE settings.paused # {}
      <3>1. r.by = 0 /\ settings'.paused = settings.paused
        BY <1>9, <1>15, <2>4
      <3>2. /\ clock'.mode = "paused"
            /\ R!The(settings'.paused) - R!The(settings'.started) = clock'.ran
        BY <1>1, <1>2, <1>3, <1>4, <2>1, <2>2, <2>4, <3>1
      <3> QED BY <2>2, <2>4, <3>1, <3>2 DEF R!ClockIsAsMeant
    <2> QED BY <2>3, <2>4
  <1>10. ASSUME clock' = [clock EXCEPT !.ran = @ - r.by], r.by = 0,
                settings'.started = settings.started, settings'.paused = settings.paused
         PROVE  R!ClockIsAsMeant'
    <2>1. settings.started = {began}
      BY <1>1, Moments
    <2>2. settings'.started = {began + r.by}
      BY <1>2, <1>10, <2>1
    <2>3. settings'.paused = {t + r.by : t \in settings.paused}
      BY <1>10, <1>15
    <2> QED BY <1>9, <1>10, <2>2, <2>3
  <1>11. CASE a = "pause"
    <2>1. settings'.started = settings.started /\ r.by = 0
          /\ settings'.paused = IF settings.paused = {} THEN {m} ELSE settings.paused
      BY <1>11 DEF IsOutcome
    <2>2. CASE settings.paused = {}
      <3>1. clock' = [mode |-> "paused", ran |-> clock.ran - (now - m)]
        BY <1>4, <1>7, <1>11, <2>2
      <3>2. clock'.mode = "paused" /\ clock'.ran = clock.ran - (now - m)
        BY <3>1
      <3>3. settings'.paused # {} /\ R!The(settings'.paused) = m
        BY <1>5, <2>1, <2>2
      <3>4. m - began = clock'.ran
        BY <1>1, <1>2, <1>3, <1>4, <2>2, <3>2
      <3> QED BY <2>1, <3>2, <3>3, <3>4 DEF R!ClockIsAsMeant
    <2>3. CASE settings.paused # {}
      <3>1. clock' = [clock EXCEPT !.ran = @ - r.by]
        BY <1>4, <1>7, <1>11, <2>3
      <3> QED BY <1>10, <2>1, <2>3, <3>1
    <2> QED BY <2>2, <2>3
  <1>12. CASE a = "resume"
    <2>1. settings'.started = {began + m - halted} /\ settings'.paused = {}
      BY <1>12 DEF IsOutcome
    <2>2. clock' = [mode |-> "running", ran |-> clock.ran + (now - m)]
      BY <1>7, <1>12
    <2>3. clock'.mode = "running" /\ clock'.ran = clock.ran + (now - m)
      BY <2>2
    <2>4. settings'.started # {} /\ R!The(settings'.started) = began + m - halted
      BY <1>5, <2>1
    <2>5. now - (began + m - halted) = clock.ran + (now - m)
      <3>1. halted \in Int /\ halted - began = clock.ran
        BY <1>2, <1>4, <1>12
      <3> HIDE DEF halted, began
      <3> QED BY <1>1, <1>2, <1>3, <3>1
    <2> QED BY <2>1, <2>3, <2>4, <2>5 DEF R!ClockIsAsMeant
  <1>13. CASE a = "forward"
    <2>1. r.cfg = settings /\ r.by = 0
      BY <1>13 DEF IsOutcome
    <2>2. clock' = [clock EXCEPT !.ran = @ - r.by]
      BY <1>7, <1>13
    <2> QED BY <1>10, <2>1, <2>2
  <1>14. CASE a \in {"backward", "fast_forward"}
    <2>1. /\ settings'.started = {began + r.by}
          /\ settings'.paused = {t + r.by : t \in settings.paused}
      BY <1>14 DEF IsOutcome
    <2>2. clock' = [clock EXCEPT !.ran = @ - r.by]
      BY <1>7, <1>14
    <2> QED BY <1>9, <2>1, <2>2
  <1> QED BY <1>8, <1>11, <1>12, <1>13, <1>14

\* Started or reset, the clock is the one the control made.
LEMMA MadeAnew ==
    ASSUME RhythmTypes, NEW a \in R!Anew, NEW c, NEW m \in Int, NEW r,
           IsOutcome(a, c, m, r),
           settings' = r.cfg, now' = now,
           clock' = R!Meant([kind |-> "control", action |-> a, copy |-> c, at |-> m], r)
    PROVE  R!ClockIsAsMeant'
  <1>1. CASE a = "start"
    <2>1. clock' = [mode |-> "running", ran |-> now - R!The(r.cfg.started)]
      BY <1>1 DEF R!Meant
    <2>2. settings'.started # {} /\ settings'.paused = {}
      BY <1>1 DEF IsOutcome
    <2>3. clock'.mode = "running" /\ clock'.ran = now' - R!The(settings'.started)
      BY <2>1
    <2> QED BY <2>2, <2>3 DEF R!ClockIsAsMeant
  <1>2. CASE a = "reset"
    <2>1. clock' = R!Stopped
      BY <1>2 DEF R!Meant
    <2>2. settings'.started = {} /\ settings'.paused = {}
      BY <1>2 DEF IsOutcome
    <2>3. clock'.mode = "stopped"
      BY <2>1 DEF R!Stopped
    <2> QED BY <2>2, <2>3 DEF R!ClockIsAsMeant
  <1> QED BY <1>1, <1>2 DEF R!Anew

LEMMA MeantIsClock ==
    ASSUME RhythmTypes, NEW a, NEW c, NEW m \in Int, NEW r, r.by \in Int, r.cfg \in Settings,
           a = "start" => r.cfg.started # {}
    PROVE  R!Meant([kind |-> "control", action |-> a, copy |-> c, at |-> m], r)
              \in [mode : {"stopped", "running", "paused"}, ran : Int]
  <1>1. now \in Int /\ clock.ran \in Int
    BY ClockFields DEF RhythmTypes
  <1>2. a = "start" => R!The(r.cfg.started) \in Int
    BY SettingsFields, Moments
  <1>3. \A i \in Int : [clock EXCEPT !.ran = i] \in
           [mode : {"stopped", "running", "paused"}, ran : Int]
    BY ClockFields
  <1> DEFINE task == [kind |-> "control", action |-> a, copy |-> c, at |-> m]
  <1>4. task.action = a /\ task.at = m
    OBVIOUS
  <1> HIDE DEF task
  <1>5. R!Meant(task, r) =
           CASE a = "start" -> [mode |-> "running", ran |-> now - R!The(r.cfg.started)]
             [] a = "reset" -> R!Stopped
             [] a = "pause" /\ clock.mode = "running" ->
                   [mode |-> "paused", ran |-> clock.ran - (now - m)]
             [] a = "resume" -> [mode |-> "running", ran |-> clock.ran + (now - m)]
             [] OTHER -> [clock EXCEPT !.ran = @ - r.by]
    BY <1>4 DEF R!Meant
  <1>6. CASE a = "start"
    BY <1>1, <1>2, <1>5, <1>6 DEF task
  <1>7. CASE a = "reset"
    BY <1>5, <1>7 DEF task, R!Stopped
  <1>8. CASE a = "pause" /\ clock.mode = "running"
    BY <1>1, <1>5, <1>8 DEF task
  <1>9. CASE a = "resume"
    BY <1>1, <1>5, <1>9 DEF task
  <1>10. CASE a \notin {"start", "reset", "resume"} /\ ~(a = "pause" /\ clock.mode = "running")
    <2>1. R!Meant(task, r) = [clock EXCEPT !.ran = @ - r.by]
      BY <1>5, <1>10
    <2>2. [clock EXCEPT !.ran = @ - r.by] = [clock EXCEPT !.ran = clock.ran - r.by]
      OBVIOUS
    <2>3. clock.ran - r.by \in Int
      BY <1>1
    <2> QED BY <1>3, <2>1, <2>2, <2>3 DEF task
  <1> QED BY <1>6, <1>7, <1>8, <1>9, <1>10

LEMMA RhythmControlSaves ==
    ASSUME RhythmInv, NEW o \in Operators, R!ControlSaves(o) PROVE RhythmInv'
  <1> USE DEF RhythmInv
  <1>1. /\ RhythmTypes /\ IsTask(tasks[o]) /\ settings \in Settings /\ off \subseteq Entries
        /\ pages \in [Operators -> PageClock] /\ entries \in [Entries -> Entry] /\ now \in Int
    BY DEF RhythmTypes
  <1>2. /\ tasks[o].kind = "control" /\ R!Ends(o)
        /\ UNCHANGED <<now, entries, sched>>
        /\ IF tasks[o].action \in R!Anew
           THEN seen' = 0 /\ tally' = [e \in Entries |-> entries[e].rounds] /\ strayed' = FALSE
           ELSE UNCHANGED <<seen, tally, strayed>>
    BY DEF R!ControlSaves
  <1>3. IsControl(tasks[o])
    BY <1>1, <1>2, TaskKinds
  <1>4. PICK a \in R!Controls, c \in Settings, m \in Int :
           /\ tasks[o] = [kind |-> "control", action |-> a, copy |-> c, at |-> m]
           /\ a \notin R!Anew => c.started # {}
           /\ a = "resume" => c.paused # {}
    BY <1>3 DEF IsControl
  <1>5. tasks[o].action = a /\ tasks[o].copy = c /\ tasks[o].at = m
    BY <1>4
  <1>6. PICK r \in R!Outcomes(tasks[o].action, tasks[o].copy, tasks[o].at) :
           /\ settings' = r.cfg
           /\ clock' = R!Meant(tasks[o], r)
           /\ off' = IF tasks[o].action \in R!Anew
                     THEN IF sched = R!Idle THEN {} ELSE Entries
                     ELSE IF /\ ~R!Clashes(tasks[o].copy)
                             /\ r.by # 0 => settings.paused = {}
                     THEN off ELSE Entries
           /\ \/ pages' = [pages EXCEPT ![o] =
                              [started |-> r.cfg.started,
                               paused |-> IF r.cfg.paused = {} THEN {} ELSE {now}]]
              \/ UNCHANGED pages
    BY DEF R!ControlSaves
  <1>7. IsOutcome(a, c, m, r)
    <2>1. r \in R!Outcomes(a, c, m)
      BY <1>5, <1>6
    <2> QED BY <1>4, <2>1, Outcome
  <1>8. r.cfg \in Settings /\ r.by \in Int /\ (a = "start" => r.cfg.started # {})
    BY <1>7 DEF IsOutcome
  <1>9. clock' = R!Meant([kind |-> "control", action |-> a, copy |-> c, at |-> m], r)
    BY <1>4, <1>6
  <1>10. clock' \in [mode : {"stopped", "running", "paused"}, ran : Int]
    BY <1>1, <1>8, <1>9, MeantIsClock
  <1>11. pages' \in [Operators -> PageClock]
    <2> DEFINE p == IF r.cfg.paused = {} THEN {} ELSE {now}
               page == [started |-> r.cfg.started, paused |-> p]
    <2>1. p \in Moment /\ r.cfg.started \in Moment
      <3>1. r.cfg.started \in Moment
        BY <1>8, SettingsFields
      <3>2. p \in Moment
        BY <1>1 DEF Moment
      <3> QED BY <3>1, <3>2
    <2> HIDE DEF p
    <2>2. page \in PageClock
      BY <2>1 DEF PageClock
    <2>3. pages' = [pages EXCEPT ![o] = page] \/ pages' = pages
      BY <1>6 DEF p
    <2> HIDE DEF page
    <2> QED BY <1>1, <2>2, <2>3
  <1>12. /\ tasks' = [x \in Operators |-> tasks'[x]]
         /\ \A x \in Operators : IsTask(tasks'[x])
    BY <1>1, <1>2, Ending
  <1>13. RhythmTypes'
    <2>1. off' \subseteq Entries
      BY <1>1, <1>6
    <2>2. seen' \in Int /\ tally' \in [Entries -> Int]
      <3>1. \A e \in Entries : entries[e].rounds \in Int
        BY <1>1 DEF Entry
      <3> QED BY <1>1, <1>2, <3>1 DEF RhythmTypes
    <2>3. strayed' \in BOOLEAN
      <3>1. strayed \in BOOLEAN
        BY <1>1 DEF RhythmTypes
      <3> QED BY <1>2, <3>1, Zenon
    <2>4. sched' = R!Idle \/ IsRollover(sched')
      BY <1>1, <1>2 DEF RhythmTypes
    <2>5. settings' \in Settings /\ now' \in Int /\ entries' \in [Entries -> Entry]
      BY <1>1, <1>2, <1>6, <1>8
    <2> QED BY <1>10, <1>11, <1>12, <2>1, <2>2, <2>3, <2>4, <2>5 DEF RhythmTypes
  <1>14. CASE off' = Entries
    BY <1>13, <1>14, Disturbed
  <1>15. CASE a \in R!Anew /\ off' # Entries
    <2>1. sched = R!Idle /\ seen' = 0 /\ tally' = [e \in Entries |-> entries[e].rounds]
      BY <1>2, <1>5, <1>6, <1>15
    <2>2. R!ClockIsAsMeant'
      BY <1>1, <1>2, <1>6, <1>7, <1>9, <1>15, MadeAnew
    <2>3. settings'.last = 0
      BY <1>6, <1>7, <1>15 DEF IsOutcome, R!Anew
    <2>4. RhythmClock'
      BY <2>2 DEF RhythmClock
    <2>5. RhythmSeen' /\ RhythmCounts'
      BY <1>2, <2>1, <2>3 DEF RhythmSeen, RhythmCounts
    <2> QED BY <1>13, <2>4, <2>5
  <1>16. CASE a \notin R!Anew /\ off' # Entries
    <2>1. /\ c = settings /\ sched = R!Idle /\ (r.by # 0 => settings.paused = {}) /\ off' = off
          /\ UNCHANGED <<seen, tally, strayed>>
      BY <1>2, <1>5, <1>6, <1>16 DEF R!Clashes
    <2>2. settings'.last = settings.last
      BY <1>6, <1>7, <1>16, <2>1 DEF IsOutcome
    <2>3. RhythmClock'
      <3> SUFFICES ASSUME ~strayed, off # Entries PROVE R!ClockIsAsMeant'
        BY <2>1 DEF RhythmClock
      <3>1. R!ClockIsAsMeant
        BY DEF RhythmClock
      <3>2. IsOutcome(a, settings, m, r) /\ settings.started # {}
            /\ (a = "resume" => settings.paused # {})
        BY <1>4, <1>7, <1>16, <2>1
      <3>3. clock' = R!Meant([kind |-> "control", action |-> a, copy |-> settings, at |-> m], r)
        BY <1>9, <2>1
      <3>4. a \in R!Controls \ R!Anew /\ settings' = r.cfg /\ now' = now
        BY <1>2, <1>6, <1>16
      <3> QED BY <1>1, <2>1, <3>1, <3>2, <3>3, <3>4, MovedTogether
    <2>4. RhythmSeen' /\ RhythmCounts'
      BY <1>2, <2>1, <2>2 DEF RhythmSeen, RhythmCounts
    <2> QED BY <1>13, <2>3, <2>4
  <1> QED BY <1>14, <1>15, <1>16

LEMMA RhythmNext == RhythmInv /\ [R!Next]_(R!vars) => RhythmInv'
  <1> SUFFICES ASSUME RhythmInv, [R!Next]_(R!vars) PROVE RhythmInv'
    OBVIOUS
  <1>1. CASE UNCHANGED R!vars
    <2>1. UNCHANGED <<now, settings, entries, sched, tasks, pages, clock, seen, tally, off,
                      strayed>>
      BY <1>1 DEF R!vars, R!history
    <2>2. /\ pages' \in [Operators -> PageClock]
          /\ tasks' = [x \in Operators |-> tasks'[x]]
          /\ \A x \in Operators : IsTask(tasks'[x])
      BY <2>1 DEF RhythmInv, RhythmTypes
    <2> QED BY <2>1, <2>2, RequestsOnly
  <1>2. CASE R!Minute \/ R!Tick \/ R!SaveIndex \/ R!Restart
    BY <1>2, RhythmMinute, RhythmTick, RhythmSaveIndex, RhythmRestart
  <1>3. CASE \E e \in Entries : R!Count(e)
    BY <1>3, RhythmCount
  <1>4. ASSUME NEW o \in Operators,
               \/ \E action \in R!Controls : R!Control(o, action)
               \/ R!ControlSaves(o) \/ R!Fetch(o) \/ R!Save(o) \/ R!SaveSaves(o) \/ R!EditSaves(o)
               \/ R!ResetCycles(o) \/ R!ReadsCycle(o) \/ R!MarkSaves(o)
               \/ \E e \in Entries : R!Edit(o, e) \/ R!Zero(o, e)
        PROVE  RhythmInv'
    BY <1>4, RhythmControl, RhythmControlSaves, RhythmFetch, RhythmSave, RhythmSaveSaves,
       RhythmEditSaves, RhythmResetCycles, RhythmReadsCycle, RhythmMarkSaves, RhythmEdit, RhythmZero
  <1> QED BY <1>1, <1>2, <1>3, <1>4 DEF R!Next

RhythmPart == service = "rhythm" => RhythmInv

\* However late the scheduler looks, whatever is paused, shifted, restarted or set to
\* zero, entries count the cycles of the clock the operators made, and the clock of
\* the store is that clock, where no two writers met (runDueBattleRhythmCycles,
\* handleBattleRhythmControl).
THEOREM CyclesAlwaysCounted == ServerSpec => []RhythmCountsEveryCycle
  <1>1. ServerInit => RhythmPart
    BY RhythmInit DEF ServerInit, RhythmPart
  <1>2. RhythmPart /\ [ServerNext]_serverVars => RhythmPart'
    BY Steps, RhythmNext DEF RhythmPart
  <1>3. RhythmInv => R!CountsEveryCycle /\ R!ControlsKeepTheClock
    BY DEF RhythmInv, RhythmClock, RhythmCounts, R!CountsEveryCycle, R!ControlsKeepTheClock
  <1>4. RhythmPart => RhythmCountsEveryCycle
    BY <1>3 DEF RhythmPart, RhythmCountsEveryCycle
  <1> QED BY <1>1, <1>2, <1>4, PTL DEF ServerSpec

(***************************************************************************)
(* BattleRhythm: no count falls below zero, whichever copies are written back.  *)
(***************************************************************************)
\* Settings that count from a cycle, and are paused only when started.
Counted(c) == c.last \in Nat /\ (c.paused # {} => c.started # {})

TaskFits(t) == /\ t.kind \in {"control", "save", "mark"} => Counted(t.copy)
               /\ t.kind = "save" => (t.form.paused # {} => t.form.started # {})
               /\ t.kind = "edit" => t.copy.rounds \in Nat
               /\ t.kind = "mark" => t.index \in Nat

TimesFit == now \in 0..MaxTime /\ sent \in 0..MaxRequests
EntriesFit == \A e \in Entries : entries[e].rounds \in Nat
PagesFit == \A o \in Operators : pages[o].paused # {} => pages[o].started # {}
TasksFit == \A o \in Operators : TaskFits(tasks[o])
RolloverFits == sched.kind = "rollover" =>
                   /\ Counted(sched.copy) /\ sched.index > sched.copy.last
                   /\ \A e \in Entries : sched.read[e].rounds \in Nat

RhythmFits == TimesFit /\ Counted(settings) /\ EntriesFit /\ PagesFit /\ TasksFit /\ RolloverFits

LEMMA SameFits ==
    /\ TimesFit /\ UNCHANGED <<now, sent>> => TimesFit'
    /\ Counted(settings) /\ UNCHANGED settings => Counted(settings')
    /\ EntriesFit /\ UNCHANGED entries => EntriesFit'
    /\ PagesFit /\ UNCHANGED pages => PagesFit'
    /\ TasksFit /\ UNCHANGED tasks => TasksFit'
    /\ RolloverFits /\ UNCHANGED sched => RolloverFits'
  BY DEF TimesFit, EntriesFit, PagesFit, TasksFit, RolloverFits

LEMMA TaskPut ==
    ASSUME RhythmTypes, TasksFit, NEW o \in Operators, NEW t, TaskFits(t),
           tasks' = [tasks EXCEPT ![o] = t]
    PROVE  TasksFit'
  <1>1. tasks = [x \in Operators |-> tasks[x]] /\ \A x \in Operators : TaskFits(tasks[x])
    BY DEF RhythmTypes, TasksFit
  <1>2. ASSUME NEW x \in Operators PROVE TaskFits(tasks'[x])
    <2>1. CASE x = o
      <3>1. tasks'[x] = t
        BY <1>1, <2>1
      <3> QED BY <3>1
    <2>2. CASE x # o
      <3>1. tasks'[x] = tasks[x]
        BY <1>1, <2>2
      <3> QED BY <1>1, <3>1
    <2> QED BY <2>1, <2>2
  <1> QED BY <1>2 DEF TasksFit

LEMMA TaskEnded ==
    ASSUME RhythmTypes, TasksFit, NEW o \in Operators, R!Ends(o)
    PROVE  TasksFit'
  <1>1. TaskFits(R!Idle) /\ tasks' = [tasks EXCEPT ![o] = R!Idle]
    BY DEF TaskFits, R!Idle, R!Ends
  <1> QED BY <1>1, TaskPut

\* A request begins with copies that fit.
LEMMA FitSends ==
    ASSUME RhythmTypes, RhythmFits, NEW o \in Operators,
           \/ \E action \in R!Controls : R!Control(o, action)
           \/ R!Save(o) \/ R!ResetCycles(o) \/ \E e \in Entries : R!Edit(o, e)
    PROVE  RhythmFits'
  <1>1. \E t : TaskFits(t) /\ R!Sends(o, t)
    <2>1. ASSUME NEW a, R!Control(o, a) PROVE \E t : TaskFits(t) /\ R!Sends(o, t)
      <3> DEFINE t == [kind |-> "control", action |-> a, copy |-> settings, at |-> now]
      <3>1. TaskFits(t)
        BY DEF TaskFits, RhythmFits
      <3>2. R!Sends(o, t)
        BY <2>1 DEF R!Control
      <3> QED BY <3>1, <3>2
    <2>2. ASSUME R!Save(o) PROVE \E t : TaskFits(t) /\ R!Sends(o, t)
      <3>1. PICK n \in BOOLEAN, c \in Lengths :
               R!Sends(o, [kind |-> "save", copy |-> settings,
                           form |-> [enabled |-> n, cycle |-> c, last |-> 0,
                                     started |-> pages[o].started, paused |-> pages[o].paused]])
        BY <2>2 DEF R!Save
      <3> DEFINE f == [enabled |-> n, cycle |-> c, last |-> 0,
                       started |-> pages[o].started, paused |-> pages[o].paused]
                 t == [kind |-> "save", copy |-> settings, form |-> f]
      <3>2. f.paused # {} => f.started # {}
        BY DEF RhythmFits, PagesFit
      <3>3. R!Sends(o, t)
        BY <3>1
      <3> HIDE DEF f
      <3>4. TaskFits(t)
        BY <3>2 DEF TaskFits, RhythmFits
      <3> QED BY <3>3, <3>4
    <2>3. ASSUME NEW e \in Entries, R!Edit(o, e) PROVE \E t : TaskFits(t) /\ R!Sends(o, t)
      <3> DEFINE t == [kind |-> "edit", entry |-> e, copy |-> entries[e]]
      <3>1. TaskFits(t)
        BY DEF TaskFits, RhythmFits, EntriesFit
      <3>2. R!Sends(o, t)
        BY <2>3 DEF R!Edit
      <3> QED BY <3>1, <3>2
    <2>4. ASSUME R!ResetCycles(o) PROVE \E t : TaskFits(t) /\ R!Sends(o, t)
      <3> DEFINE X == {e \in Entries : entries[e].state # "archived" /\ entries[e].rounds # 0}
                 t == [kind |-> "zero", read |-> entries, todo |-> X]
      <3>1. R!Sends(o, t)
        BY <2>4 DEF R!ResetCycles
      <3> HIDE DEF X
      <3>2. TaskFits(t)
        BY DEF TaskFits
      <3> QED BY <3>1, <3>2
    <2> QED BY <2>1, <2>2, <2>3, <2>4
  <1>2. PICK t : TaskFits(t) /\ R!Sends(o, t)
    BY <1>1
  <1>3. /\ tasks' = [tasks EXCEPT ![o] = t] /\ sent < MaxRequests /\ sent' = sent + 1
        /\ UNCHANGED <<now, settings, entries, sched, pages>>
    BY <1>2 DEF R!Sends
  <1>4. TimesFit'
    BY <1>3, ServerAssumption DEF RhythmFits, TimesFit, R!BattleRhythmAssumption
  <1>5. TasksFit'
    BY <1>2, <1>3, TaskPut DEF RhythmFits
  <1> QED BY <1>3, <1>4, <1>5, SameFits DEF RhythmFits

\* The scheduler.
LEMMA FitTick ==
    ASSUME RhythmTypes, RhythmFits, R!Tick
    PROVE  RhythmFits'
  <1>1. UNCHANGED <<now, sent, settings, entries, tasks, pages>>
    BY DEF R!Tick
  <1>2. \/ sched' = sched
        \/ /\ R!CycleAt(settings, now) > settings.last
           /\ \E X \in SUBSET Entries :
                 sched' = [kind |-> "rollover", copy |-> settings,
                           index |-> R!CycleAt(settings, now), todo |-> X, read |-> entries]
    BY DEF R!Tick
  <1>3. RolloverFits'
    <2>1. CASE sched' = sched
      BY <2>1, SameFits DEF RhythmFits
    <2>2. CASE sched' # sched
      <3>1. /\ R!CycleAt(settings, now) > settings.last
            /\ sched'.copy = settings /\ sched'.index = R!CycleAt(settings, now)
            /\ sched'.read = entries
        BY <1>2, <2>2
      <3> QED BY <3>1 DEF RolloverFits, RhythmFits, EntriesFit
    <2> QED BY <2>1, <2>2
  <1> QED BY <1>1, <1>3, SameFits DEF RhythmFits

LEMMA FitCount ==
    ASSUME RhythmTypes, RhythmFits, NEW e \in Entries, R!Count(e)
    PROVE  RhythmFits'
  <1> DEFINE counted == [sched.read[e] EXCEPT !.rounds = @ + sched.index - sched.copy.last]
  <1>1. /\ sched.kind = "rollover" /\ entries' = [entries EXCEPT ![e] = counted]
        /\ sched' = [sched EXCEPT !.todo = @ \ {e}]
        /\ UNCHANGED <<now, sent, settings, tasks, pages>>
    BY DEF R!Count
  <1>2. /\ sched = [kind |-> "rollover", copy |-> sched.copy, index |-> sched.index,
                    todo |-> sched.todo, read |-> sched.read]
        /\ sched.copy \in Settings /\ sched.index \in Int /\ sched.read \in [Entries -> Entry]
        /\ entries \in [Entries -> Entry]
    BY <1>1, Rollovers DEF RhythmTypes
  <1>3. counted.rounds = sched.read[e].rounds + sched.index - sched.copy.last
    <2>1. sched.read[e] \in Entry
      BY <1>2
    <2> QED BY <2>1 DEF Entry
  <1>4. counted.rounds \in Nat
    <2>1. /\ sched.read[e].rounds \in Nat /\ sched.copy.last \in Nat
          /\ sched.index > sched.copy.last
      BY <1>1 DEF RhythmFits, RolloverFits, Counted
    <2> QED BY <1>2, <1>3, <2>1
  <1> HIDE DEF counted
  <1>5. EntriesFit'
    <2>1. \A x \in Entries : entries'[x] = IF x = e THEN counted ELSE entries[x]
      BY <1>1, <1>2
    <2> QED BY <1>4, <2>1 DEF RhythmFits, EntriesFit
  <1>6. RolloverFits'
    <2>1. sched' = [kind |-> "rollover", copy |-> sched.copy, index |-> sched.index,
                    todo |-> sched.todo \ {e}, read |-> sched.read]
      BY <1>1, <1>2
    <2>2. sched'.copy = sched.copy /\ sched'.index = sched.index /\ sched'.read = sched.read
      BY <2>1
    <2> QED BY <1>1, <2>2 DEF RhythmFits, RolloverFits
  <1> QED BY <1>1, <1>5, <1>6, SameFits DEF RhythmFits

LEMMA Stamped ==
    ASSUME NEW c \in Settings, NEW l
    PROVE  /\ [c EXCEPT !.last = l].last = l /\ [c EXCEPT !.last = l].paused = c.paused
           /\ [c EXCEPT !.last = l].started = c.started
  BY DEF Settings

LEMMA FitSaveIndex ==
    ASSUME RhythmTypes, RhythmFits, R!SaveIndex
    PROVE  RhythmFits'
  <1>1. /\ sched.kind = "rollover" /\ settings' = [sched.copy EXCEPT !.last = sched.index]
        /\ sched' = R!Idle /\ UNCHANGED <<now, sent, entries, tasks, pages>>
    BY DEF R!SaveIndex
  <1>2. sched.copy \in Settings /\ sched.index \in Int
    BY <1>1, Rollovers DEF RhythmTypes
  <1>3. Counted(sched.copy) /\ sched.index \in Nat
    BY <1>1, <1>2 DEF RhythmFits, RolloverFits, Counted
  <1>4. Counted(settings')
    <2>1. /\ settings'.last = sched.index /\ settings'.paused = sched.copy.paused
          /\ settings'.started = sched.copy.started
      BY <1>1, <1>2, Stamped
    <2> QED BY <1>3, <2>1 DEF Counted
  <1>5. RolloverFits'
    BY <1>1 DEF RolloverFits, R!Idle
  <1> QED BY <1>1, <1>4, <1>5, SameFits DEF RhythmFits

LEMMA FitRestart ==
    ASSUME RhythmTypes, RhythmFits, R!Restart
    PROVE  RhythmFits'
  <1>1. /\ sent < MaxRequests /\ sent' = sent + 1 /\ sched' = R!Idle
        /\ tasks' = [o \in Operators |-> R!Idle]
        /\ UNCHANGED <<now, settings, entries, pages>>
    BY DEF R!Restart
  <1>2. TimesFit'
    BY <1>1, ServerAssumption DEF RhythmFits, TimesFit, R!BattleRhythmAssumption
  <1>3. TasksFit'
    <2>1. TaskFits(R!Idle)
      BY DEF TaskFits, R!Idle
    <2> QED BY <1>1, <2>1 DEF TasksFit
  <1>4. RolloverFits'
    BY <1>1 DEF RolloverFits, R!Idle
  <1> QED BY <1>1, <1>2, <1>3, <1>4, SameFits DEF RhythmFits

\* Requests end.
LEMMA FitControlSaves ==
    ASSUME RhythmTypes, RhythmFits, NEW o \in Operators, R!ControlSaves(o)
    PROVE  RhythmFits'
  <1>1. IsTask(tasks[o]) /\ tasks[o].kind = "control" /\ TaskFits(tasks[o])
        /\ pages \in [Operators -> PageClock]
    BY DEF RhythmTypes, RhythmFits, TasksFit, R!ControlSaves
  <1>2. PICK a \in R!Controls, c \in Settings, m \in Int :
           /\ tasks[o] = [kind |-> "control", action |-> a, copy |-> c, at |-> m]
           /\ a \notin R!Anew => c.started # {}
           /\ a = "resume" => c.paused # {}
    BY <1>1, TaskKinds DEF IsControl
  <1>3. tasks[o].action = a /\ tasks[o].copy = c /\ tasks[o].at = m
    BY <1>2
  <1>4. PICK r \in R!Outcomes(a, c, m) :
           /\ settings' = r.cfg
           /\ \/ pages' = [pages EXCEPT ![o] =
                              [started |-> r.cfg.started,
                               paused |-> IF r.cfg.paused = {} THEN {} ELSE {now}]]
              \/ UNCHANGED pages
    BY <1>3 DEF R!ControlSaves
  <1>5. R!Ends(o) /\ UNCHANGED <<now, sent, entries, sched>>
    BY DEF R!ControlSaves
  <1>6. IsOutcome(a, c, m, r)
    BY <1>2, <1>4, Outcome
  <1>7. Counted(c)
    BY <1>1, <1>3 DEF TaskFits
  <1>8. r.cfg.last \in Nat
    BY <1>6, <1>7 DEF IsOutcome, Counted, R!Anew
  <1>9. r.cfg.paused # {} => r.cfg.started # {}
    BY <1>2, <1>6, <1>7 DEF IsOutcome, Counted, R!Anew, R!Controls
  <1>10. Counted(settings')
    BY <1>4, <1>8, <1>9 DEF Counted
  <1>11. PagesFit'
    <2> DEFINE p == IF r.cfg.paused = {} THEN {} ELSE {now}
               page == [started |-> r.cfg.started, paused |-> p]
    <2>1. page.paused # {} => page.started # {}
      BY <1>9
    <2>2. pages' = [pages EXCEPT ![o] = page] \/ pages' = pages
      BY <1>4
    <2> HIDE DEF page
    <2>3. \A x \in Operators : pages'[x] = page \/ pages'[x] = pages[x]
      BY <1>1, <2>2
    <2> QED BY <2>1, <2>3 DEF RhythmFits, PagesFit
  <1>12. TasksFit'
    BY <1>5, TaskEnded DEF RhythmFits
  <1> QED BY <1>5, <1>10, <1>11, <1>12, SameFits DEF RhythmFits

LEMMA FitFetch ==
    ASSUME RhythmTypes, RhythmFits, NEW o \in Operators, R!Fetch(o)
    PROVE  RhythmFits'
  <1> DEFINE page == [started |-> settings.started, paused |-> settings.paused]
  <1>1. /\ pages' = [pages EXCEPT ![o] = page]
        /\ UNCHANGED <<now, sent, settings, entries, sched, tasks>>
    BY DEF R!Fetch, R!ClockOf
  <1>2. page.paused # {} => page.started # {}
    BY DEF RhythmFits, Counted
  <1> HIDE DEF page
  <1>3. \A x \in Operators : pages'[x] = page \/ pages'[x] = pages[x]
    BY <1>1 DEF RhythmTypes
  <1>4. PagesFit'
    BY <1>2, <1>3 DEF RhythmFits, PagesFit
  <1> QED BY <1>1, <1>4, SameFits DEF RhythmFits

LEMMA FitSaveSaves ==
    ASSUME RhythmTypes, RhythmFits, NEW o \in Operators, R!SaveSaves(o)
    PROVE  RhythmFits'
  <1> DEFINE found == tasks[o].copy
             form == tasks[o].form
             new == [form EXCEPT !.last = found.last]
             page == [started |-> new.started, paused |-> new.paused]
  <1>1. /\ tasks[o].kind = "save" /\ R!Ends(o) /\ settings' = new
        /\ pages' = [pages EXCEPT ![o] = page]
        /\ UNCHANGED <<now, sent, entries, sched>>
    BY DEF R!SaveSaves, R!Kept, R!ClockOf
  <1>2. /\ IsTask(tasks[o]) /\ TaskFits(tasks[o]) /\ pages \in [Operators -> PageClock]
    BY DEF RhythmTypes, RhythmFits, TasksFit
  <1>3. form \in Settings
    <2>1. IsSave(tasks[o])
      BY <1>1, <1>2, TaskKinds
    <2> QED BY <2>1 DEF IsSave
  <1>4. found.last \in Nat /\ (form.paused # {} => form.started # {})
    BY <1>1, <1>2 DEF TaskFits, Counted
  <1> HIDE DEF found, form
  <1>5. new.last = found.last /\ new.started = form.started /\ new.paused = form.paused
    BY <1>3, Stamped
  <1> HIDE DEF new
  <1>6. Counted(settings')
    BY <1>1, <1>4, <1>5 DEF Counted
  <1>7. page.paused # {} => page.started # {}
    BY <1>4, <1>5
  <1> HIDE DEF page
  <1>8. \A x \in Operators : pages'[x] = page \/ pages'[x] = pages[x]
    BY <1>1, <1>2
  <1>9. PagesFit'
    BY <1>7, <1>8 DEF RhythmFits, PagesFit
  <1>10. TasksFit'
    BY <1>1, TaskEnded DEF RhythmFits
  <1> QED BY <1>1, <1>6, <1>9, <1>10, SameFits DEF RhythmFits

\* An entry is written.
LEMMA FitPuts ==
    ASSUME RhythmTypes, RhythmFits, NEW e \in Entries, NEW w, w.rounds \in Nat,
           NEW disturbs, R!Puts(e, w, disturbs), TasksFit',
           UNCHANGED <<now, sent, settings, sched, pages>>
    PROVE  RhythmFits'
  <1>1. \A x \in Entries : entries'[x] = IF x = e THEN w ELSE entries[x]
    BY DEF R!Puts, RhythmTypes
  <1>2. EntriesFit'
    BY <1>1 DEF RhythmFits, EntriesFit
  <1> QED BY <1>2, SameFits DEF RhythmFits

LEMMA FitEditSaves ==
    ASSUME RhythmTypes, RhythmFits, NEW o \in Operators, R!EditSaves(o)
    PROVE  RhythmFits'
  <1>1. IsTask(tasks[o]) /\ tasks[o].kind = "edit" /\ TaskFits(tasks[o])
    BY DEF RhythmTypes, RhythmFits, TasksFit, R!EditSaves
  <1>2. tasks[o].copy.rounds \in Nat
    BY <1>1 DEF TaskFits
  <1>3. tasks[o].entry \in Entries
    BY <1>1, TaskKinds DEF IsEdit
  <1> DEFINE disturbs == tasks[o].copy # entries[tasks[o].entry] \/ sched # R!Idle
  <1>4. PICK state \in {"active", "inactive", "archived"},
             rounds \in {tasks[o].copy.rounds, 0} :
           R!Puts(tasks[o].entry, [rounds |-> rounds, state |-> state], disturbs)
    BY Zenon DEF R!EditSaves
  <1>5. R!Ends(o) /\ UNCHANGED <<now, sent, settings, sched, pages>>
    BY DEF R!EditSaves
  <1>6. TasksFit'
    BY <1>5, TaskEnded DEF RhythmFits
  <1> DEFINE w == [rounds |-> rounds, state |-> state]
  <1>7. w.rounds \in Nat
    BY <1>2, <1>4
  <1>8. R!Puts(tasks[o].entry, w, disturbs)
    BY <1>4
  <1> HIDE DEF w, disturbs
  <1> QED BY <1>3, <1>5, <1>6, <1>7, <1>8, FitPuts

LEMMA FitZero ==
    ASSUME RhythmTypes, RhythmFits, NEW o \in Operators, NEW e \in Entries, R!Zero(o, e)
    PROVE  RhythmFits'
  <1> DEFINE t == tasks[o]
             disturbs == sched # R!Idle
             w == [t.read[e] EXCEPT !.rounds = 0]
             u == [tasks[o] EXCEPT !.todo = @ \ {e}]
  <1>1. /\ t.kind = "zero" /\ R!Puts(e, w, disturbs)
        /\ tasks' = [tasks EXCEPT ![o] = u]
        /\ UNCHANGED <<now, sent, settings, sched, pages>>
    BY DEF R!Zero
  <1>2. IsTask(t)
    BY DEF RhythmTypes
  <1>3. PICK s \in [Entries -> Entry], X \in SUBSET Entries :
           t = [kind |-> "zero", read |-> s, todo |-> X]
    BY <1>1, <1>2, TaskKinds DEF IsZero
  <1>4. w.rounds = 0
    <2>1. w = [s[e] EXCEPT !.rounds = 0] /\ s[e] \in Entry
      BY <1>3
    <2> QED BY <2>1 DEF Entry
  <1>5. u = [kind |-> "zero", read |-> s, todo |-> X \ {e}]
    BY <1>3
  <1>6. TaskFits(u)
    BY <1>5 DEF TaskFits
  <1> HIDE DEF w, u, t, disturbs
  <1>7. TasksFit'
    BY <1>1, <1>6, TaskPut DEF RhythmFits
  <1>8. w.rounds \in Nat
    BY <1>4
  <1> QED BY <1>1, <1>7, <1>8, FitPuts

LEMMA FitReadsCycle ==
    ASSUME RhythmTypes, RhythmFits, NEW o \in Operators, R!ReadsCycle(o)
    PROVE  RhythmFits'
  <1>1. UNCHANGED <<now, sent, settings, entries, sched, pages>>
    BY DEF R!ReadsCycle
  <1>2. CASE R!Ends(o)
    <2>1. TasksFit'
      BY <1>2, TaskEnded DEF RhythmFits
    <2> QED BY <1>1, <2>1, SameFits DEF RhythmFits
  <1>3. CASE ~R!Ends(o)
    <2> DEFINE i == R!Largest(0, R!CycleAt(settings, now))
               m == R!Largest(0, R!CycleMeant)
               t == [kind |-> "mark", copy |-> settings, index |-> i, meant |-> m]
    <2>1. settings.started # {} /\ tasks' = [tasks EXCEPT ![o] = t]
      BY <1>3 DEF R!ReadsCycle
    <2>2. R!CycleAt(settings, now) \in Int
      <3>1. settings \in Settings /\ now \in Int
        BY DEF RhythmTypes
      <3>2. R!The(settings.started) \in Int /\ settings.cycle \in Lengths
        BY <2>1, <3>1, SettingsFields, Moments
      <3> QED BY <3>1, <3>2, Divided DEF R!CycleAt
    <2>3. i \in Nat
      BY <2>2 DEF R!Largest
    <2> HIDE DEF i, m
    <2>4. TaskFits(t)
      BY <2>3 DEF TaskFits, RhythmFits
    <2> HIDE DEF t
    <2>5. TasksFit'
      BY <2>1, <2>4, TaskPut DEF RhythmFits
    <2> QED BY <1>1, <2>5, SameFits DEF RhythmFits
  <1> QED BY <1>2, <1>3

LEMMA FitMarkSaves ==
    ASSUME RhythmTypes, RhythmFits, NEW o \in Operators, R!MarkSaves(o)
    PROVE  RhythmFits'
  <1>1. /\ tasks[o].kind = "mark" /\ R!Ends(o)
        /\ settings' = [tasks[o].copy EXCEPT !.last = tasks[o].index]
        /\ UNCHANGED <<now, sent, entries, sched, pages>>
    BY DEF R!MarkSaves
  <1>2. IsTask(tasks[o]) /\ TaskFits(tasks[o])
    BY DEF RhythmTypes, RhythmFits, TasksFit
  <1>3. tasks[o].copy \in Settings
    <2>1. IsMark(tasks[o])
      BY <1>1, <1>2, TaskKinds
    <2> QED BY <2>1 DEF IsMark
  <1>4. Counted(tasks[o].copy) /\ tasks[o].index \in Nat
    BY <1>1, <1>2 DEF TaskFits
  <1>5. Counted(settings')
    <2>1. /\ settings'.last = tasks[o].index /\ settings'.paused = tasks[o].copy.paused
          /\ settings'.started = tasks[o].copy.started
      BY <1>1, <1>3, Stamped
    <2> QED BY <1>4, <2>1 DEF Counted
  <1>6. TasksFit'
    BY <1>1, TaskEnded DEF RhythmFits
  <1> QED BY <1>1, <1>5, <1>6, SameFits DEF RhythmFits

LEMMA FitNext ==
    ASSUME RhythmInv, RhythmFits, [R!Next]_(R!vars)
    PROVE  RhythmFits'
  <1>1. RhythmTypes
    BY DEF RhythmInv
  <1>2. CASE UNCHANGED R!vars
    <2>1. UNCHANGED <<now, sent, settings, entries, sched, tasks, pages>>
      BY <1>2 DEF R!vars
    <2> QED BY <2>1, SameFits DEF RhythmFits
  <1>3. CASE R!Minute
    <2>1. /\ now < MaxTime /\ now' = now + 1
          /\ UNCHANGED <<sent, settings, entries, sched, tasks, pages>>
      BY <1>3 DEF R!Minute
    <2>2. TimesFit'
      BY <2>1, ServerAssumption DEF RhythmFits, TimesFit, R!BattleRhythmAssumption
    <2> QED BY <2>1, <2>2, SameFits DEF RhythmFits
  <1>4. CASE R!Tick \/ R!SaveIndex \/ R!Restart \/ \E e \in Entries : R!Count(e)
    BY <1>1, <1>4, FitTick, FitSaveIndex, FitRestart, FitCount
  <1>5. ASSUME NEW o \in Operators,
               \/ \E action \in R!Controls : R!Control(o, action)
               \/ R!ControlSaves(o) \/ R!Fetch(o) \/ R!Save(o) \/ R!SaveSaves(o) \/ R!EditSaves(o)
               \/ R!ResetCycles(o) \/ R!ReadsCycle(o) \/ R!MarkSaves(o)
               \/ \E e \in Entries : R!Edit(o, e) \/ R!Zero(o, e)
        PROVE  RhythmFits'
    BY <1>1, <1>5, FitSends, FitControlSaves, FitFetch, FitSaveSaves, FitEditSaves,
       FitReadsCycle, FitMarkSaves, FitZero
  <1> QED BY <1>2, <1>3, <1>4, <1>5 DEF R!Next

LEMMA FitInit == ASSUME R!Init PROVE RhythmFits
  <1>1. /\ now = 0 /\ sent = 0 /\ sched = R!Idle
        /\ tasks = [o \in Operators |-> R!Idle]
        /\ settings.last = 0 /\ settings.paused = {}
        /\ entries = [e \in Entries |-> [rounds |-> 0, state |-> "active"]]
    BY DEF R!Init
  <1>2. \A o \in Operators : pages[o].paused = {}
    BY <1>1 DEF R!Init, R!ClockOf
  <1>3. TimesFit
    BY <1>1, ServerAssumption DEF TimesFit, R!BattleRhythmAssumption
  <1>4. Counted(settings) /\ EntriesFit /\ PagesFit
    BY <1>1, <1>2 DEF Counted, EntriesFit, PagesFit
  <1>5. TasksFit /\ RolloverFits
    BY <1>1 DEF TasksFit, TaskFits, RolloverFits, R!Idle
  <1> QED BY <1>3, <1>4, <1>5 DEF RhythmFits

RhythmTypePart == service = "rhythm" => RhythmInv /\ RhythmFits

\* A moment is at most one.
LEMMA OneMoment ==
    ASSUME NEW s \in Moment
    PROVE  s \subseteq Int /\ R!Cardinality(s) <= 1
  <1>1. R!Cardinality(s) = Cardinality(s)
    BY Zenon DEF R!Cardinality, Cardinality
  <1>2. CASE s = {}
    BY <1>1, <1>2, FS_EmptySet
  <1>3. CASE s # {}
    <2>1. PICK t \in Int : s = {t}
      BY <1>3 DEF Moment
    <2>2. Cardinality({t}) = 1
      BY FS_Singleton
    <2> QED BY <1>1, <2>1, <2>2
  <1> QED BY <1>2, <1>3

\* The variables of BattleRhythm have their types.
LEMMA RhythmTypesHold == ServerSpec => [](service = "rhythm" => R!TypeOK)
  <1>1. ServerInit => RhythmTypePart
    BY RhythmInit, FitInit DEF ServerInit, RhythmTypePart
  <1>2. RhythmTypePart /\ [ServerNext]_serverVars => RhythmTypePart'
    BY Steps, RhythmNext, FitNext DEF RhythmTypePart
  <1>3. RhythmTypePart => (service = "rhythm" => R!TypeOK)
    <2> SUFFICES ASSUME RhythmInv, RhythmFits PROVE R!TypeOK
      BY DEF RhythmTypePart
    <2>1. /\ settings \in Settings /\ entries \in [Entries -> Entry] /\ RhythmTypes
          /\ off \subseteq Entries
      BY DEF RhythmInv, RhythmTypes
    <2>2. /\ settings.enabled \in BOOLEAN /\ settings.cycle \in Lengths
          /\ settings.started \in Moment /\ settings.paused \in Moment
      BY <2>1, SettingsFields
    <2>3. /\ settings.started \subseteq Int /\ R!Cardinality(settings.started) <= 1
          /\ settings.paused \subseteq Int /\ R!Cardinality(settings.paused) <= 1
      BY <2>2, OneMoment
    <2>4. ASSUME NEW e \in Entries
          PROVE  /\ entries[e].rounds \in Nat
                 /\ entries[e].state \in {"active", "inactive", "archived"}
      <3>1. entries[e] \in Entry
        BY <2>1
      <3>2. entries[e].state \in {"active", "inactive", "archived"}
        BY <3>1 DEF Entry
      <3> QED BY <3>2 DEF RhythmFits, EntriesFit
    <2>5. sched.kind \in {"idle", "rollover"}
      BY <2>1 DEF RhythmTypes, IsRollover, R!Idle
    <2>6. ASSUME NEW o \in Operators
          PROVE  tasks[o].kind \in {"idle", "control", "save", "edit", "zero", "mark"}
      <3>1. IsTask(tasks[o])
        BY <2>1 DEF RhythmTypes
      <3>2. CASE tasks[o] = R!Idle
        BY <3>2 DEF R!Idle
      <3>3. CASE IsControl(tasks[o])
        BY <3>3 DEF IsControl
      <3>4. CASE IsSave(tasks[o])
        BY <3>4 DEF IsSave
      <3>5. CASE IsEdit(tasks[o])
        BY <3>5 DEF IsEdit
      <3>6. CASE IsZero(tasks[o])
        BY <3>6 DEF IsZero
      <3>7. CASE IsMark(tasks[o])
        BY <3>7 DEF IsMark
      <3> QED BY <3>1, <3>2, <3>3, <3>4, <3>5, <3>6, <3>7 DEF IsTask
    <2>7. strayed \in BOOLEAN
      BY <2>1 DEF RhythmTypes
    <2>8. /\ now \in 0..MaxTime /\ sent \in 0..MaxRequests /\ settings.last \in Nat
          /\ settings.paused # {} => settings.started # {}
      BY DEF RhythmFits, TimesFit, Counted
    <2> QED BY <2>1, <2>2, <2>3, <2>4, <2>5, <2>6, <2>7, <2>8, Zenon DEF R!TypeOK
  <1> QED BY <1>1, <1>2, <1>3, PTL DEF ServerSpec

(***************************************************************************)
(* Boards.  First, induction over the numbers by their least members, and     *)
(* lists in the order of a relation.                                          *)
(***************************************************************************)
LEMMA NatMin ==
    ASSUME NEW D \in SUBSET Nat, D # {}
    PROVE  \E m \in D : \A k \in D : m <= k
  <1> DEFINE less == OpToRel(<, Nat)
  <1>1. IsWellFoundedOn(less, Nat)
    BY NatLessThanWellFounded
  <1>2. ASSUME NEW a \in Nat, NEW b \in Nat, a < b
        PROVE <<a, b>> \in less
    BY <1>2 DEF OpToRel
  <1> HIDE DEF less
  <1>3. PICK m \in D : \A y \in D : ~ (<<y, m>> \in less)
    BY <1>1, WFMin, Zenon
  <1>4. ASSUME NEW k \in D PROVE m <= k
    <2>1. ~(k < m)
      BY <1>2, <1>3, Zenon
    <2> QED BY <2>1
  <1> QED BY <1>4

LEMMA NatInd ==
    ASSUME NEW D \in SUBSET Nat, 0 \in D, \A n \in Nat : n \in D => n + 1 \in D
    PROVE  D = Nat
  <1>1. SUFFICES ASSUME Nat \ D # {} PROVE FALSE
    OBVIOUS
  <1>2. PICK m \in Nat \ D : \A k \in Nat \ D : m <= k
    BY <1>1, NatMin
  <1>3. m # 0 /\ m - 1 \in Nat /\ m - 1 < m
    BY <1>2
  <1>4. m - 1 \in D
    BY <1>2, <1>3
  <1>5. m - 1 + 1 = m
    BY <1>3
  <1> QED BY <1>2, <1>3, <1>4, <1>5

\* The largest of finitely many numbers.
LEMMA NatMax ==
    ASSUME NEW D \in SUBSET Nat, D # {}, NEW b \in Nat, \A k \in D : k <= b
    PROVE  \E m \in D : \A k \in D : k <= m
  <1> DEFINE U == {u \in Nat : \A k \in D : k <= u}
  <1>1. PICK m \in U : \A u \in U : m <= u
    BY NatMin
  <1>2. m \in Nat /\ \A k \in D : k \in Nat /\ k <= m
    OBVIOUS
  <1>3. m \in D
    <2>1. SUFFICES ASSUME m \notin D PROVE FALSE
      OBVIOUS
    <2>2. \A k \in D : k \in Nat /\ k < m
      BY <1>2, <2>1
    <2>3. m - 1 \in Nat /\ \A k \in D : k <= m - 1
      <3> HIDE DEF U
      <3>1. PICK d \in D : TRUE
        OBVIOUS
      <3>2. m - 1 \in Nat
        BY <1>2, <2>2, <3>1
      <3>3. \A k \in Nat : k < m => k <= m - 1
        BY <1>2
      <3> QED BY <2>2, <3>2, <3>3
    <2>4. m - 1 \in U
      BY <2>3
    <2>5. m <= m - 1
      BY <1>1, <2>4
    <2> QED BY <1>2, <2>5
  <1> QED BY <1>2, <1>3

Orders(D, r) == /\ \A a \in D : <<a, a>> \notin r
                /\ \A a, b \in D : a # b => <<a, b>> \in r \/ <<b, a>> \in r
                /\ \A a, b, c \in D : <<a, b>> \in r /\ <<b, c>> \in r => <<a, c>> \in r

\* l lists the members of D in the order r.
Lists(l, D, r, n) == /\ l \in [1..n -> D]
                     /\ \A a \in D : \E p \in 1..n : l[p] = a
                     /\ \A p, q \in 1..n : p < q => <<l[p], l[q]>> \in r

\* There is one such list.
LEMMA OneList ==
    ASSUME NEW D, NEW r, Orders(D, r), NEW n \in Nat, NEW l, NEW m,
           Lists(l, D, r, n), Lists(m, D, r, n)
    PROVE  l = m
  <1> DEFINE Differ == {k \in 1..n : l[k] # m[k]}
  <1>1. l \in [1..n -> D] /\ m \in [1..n -> D]
    BY DEF Lists
  <1>2. SUFFICES ASSUME Differ # {} PROVE FALSE
    BY <1>1
  <1>3. PICK k \in Differ : \A j \in Differ : k <= j
    <2>1. Differ \in SUBSET Nat
      OBVIOUS
    <2> HIDE DEF Differ
    <2> QED BY <1>2, <2>1, NatMin
  <1>4. k \in 1..n /\ l[k] # m[k] /\ \A p \in 1..n : p < k => l[p] = m[p]
    BY <1>3
  <1>5. l[k] \in D /\ m[k] \in D
    BY <1>1, <1>4
  <1>6. <<l[k], m[k]>> \in r
    <2>1. PICK p \in 1..n : l[p] = m[k]
      BY <1>5 DEF Lists
    <2>2. ~(p < k)
      BY <1>4, <1>5, <2>1 DEF Lists, Orders
    <2>3. k < p
      BY <1>4, <2>1, <2>2
    <2> QED BY <1>4, <2>1, <2>3 DEF Lists
  <1>7. <<m[k], l[k]>> \in r
    <2>1. PICK p \in 1..n : m[p] = l[k]
      BY <1>5 DEF Lists
    <2>2. ~(p < k)
      BY <1>4, <1>5, <2>1 DEF Lists, Orders
    <2>3. k < p
      BY <1>4, <2>1, <2>2
    <2> QED BY <1>4, <2>1, <2>3 DEF Lists
  <1> QED BY <1>5, <1>6, <1>7, Zenon DEF Orders

LEMMA BoardCardinality == \A D : B!Cardinality(D) = Cardinality(D)
  BY Zenon DEF B!Cardinality, Cardinality

\* Listing by how many are ahead.
LEMMA ListedLists ==
    ASSUME NEW D, IsFiniteSet(D), NEW r, Orders(D, r)
    PROVE  Cardinality(D) \in Nat /\ Lists(B!Listed(D, r), D, r, Cardinality(D))
  <1> DEFINE n == Cardinality(D)
             Ahead(i) == {j \in D : <<j, i>> \in r}
             rank == [i \in D |-> Cardinality(Ahead(i))]
             l == B!Listed(D, r)
  <1>1. n \in Nat
    BY FS_CardinalityType
  <1>2. ASSUME NEW i \in D
        PROVE  IsFiniteSet(Ahead(i)) /\ rank[i] \in 0..(n - 1)
    <2>1. Ahead(i) \subseteq D \ {i} /\ D \ {i} \subseteq D
      BY DEF Orders
    <2>2. IsFiniteSet(D \ {i}) /\ Cardinality(D \ {i}) = n - 1
      BY FS_RemoveElement
    <2>3. IsFiniteSet(Ahead(i)) /\ Cardinality(Ahead(i)) <= n - 1
      BY <2>1, <2>2, FS_Subset
    <2>4. Cardinality(Ahead(i)) \in Nat
      BY <2>3, FS_CardinalityType
    <2>5. rank[i] = Cardinality(Ahead(i))
      OBVIOUS
    <2> HIDE DEF Ahead, rank, n
    <2> QED BY <1>1, <2>3, <2>4, <2>5
  <1>3. ASSUME NEW a \in D, NEW b \in D, <<a, b>> \in r
        PROVE  rank[a] < rank[b]
    <2>1. Ahead(a) \cup {a} \subseteq Ahead(b) /\ a \notin Ahead(a)
      BY <1>3 DEF Orders
    <2>2. /\ IsFiniteSet(Ahead(a) \cup {a})
          /\ Cardinality(Ahead(a) \cup {a}) = Cardinality(Ahead(a)) + 1
      BY <1>2, <2>1, FS_AddElement
    <2>3. Cardinality(Ahead(a) \cup {a}) <= Cardinality(Ahead(b))
      BY <1>2, <2>1, FS_Subset
    <2>4. Cardinality(Ahead(a)) \in Nat /\ Cardinality(Ahead(b)) \in Nat
      BY <1>2, FS_CardinalityType
    <2>5. rank[a] = Cardinality(Ahead(a)) /\ rank[b] = Cardinality(Ahead(b))
      OBVIOUS
    <2> HIDE DEF Ahead, rank
    <2> QED BY <2>2, <2>3, <2>4, <2>5
  <1>4. \A i \in D : rank[i] \in 0..(n - 1) /\ rank[i] \in Nat
    <2>1. \A i \in D : rank[i] \in 0..(n - 1)
      BY <1>2
    <2> HIDE DEF rank, n
    <2> QED BY <1>1, <2>1
  <1>5. \A a, b \in D : rank[a] = rank[b] => a = b
    <2>1. ASSUME NEW a \in D, NEW b \in D, rank[a] = rank[b], a # b
          PROVE  FALSE
      <3>1. <<a, b>> \in r \/ <<b, a>> \in r
        BY <2>1 DEF Orders
      <3>2. rank[a] < rank[b] \/ rank[b] < rank[a]
        BY <1>3, <3>1
      <3>3. rank[a] \in Nat /\ rank[b] \in Nat
        BY <1>4
      <3> HIDE DEF rank
      <3> QED BY <2>1, <3>2, <3>3
    <2> QED BY <2>1
  <1>6. \A k \in 1..n : \E i \in D : rank[i] = k - 1
    <2> DEFINE W == {rank[i] : i \in D}
               N == 0..(n - 1)
    <2>1. rank \in Surjection(D, W) /\ rank \in Injection(D, W)
      <3>1. rank \in [D -> W] /\ \A w \in W : \E i \in D : rank[i] = w
        OBVIOUS
      <3> HIDE DEF rank, W
      <3> QED BY <1>5, <3>1 DEF Surjection, Injection, IsInjective
    <2>2. IsFiniteSet(W) /\ Cardinality(W) = n
      <3> HIDE DEF W, rank
      <3> QED BY <2>1, FS_Surjection
    <2>3. W \subseteq N
      BY <1>2
    <2>4. IsFiniteSet(N) /\ Cardinality(N) = n
      BY <1>1, FS_Interval
    <2>5. W = N
      <3> HIDE DEF W, N
      <3> QED BY <2>2, <2>3, <2>4, FS_Subset
    <2> HIDE DEF rank, n
    <2>6. \A k \in 1..n : k - 1 \in N
      BY <1>1
    <2> QED BY <2>5, <2>6
  <1>7. l = [k \in 1..n |-> CHOOSE i \in D : rank[i] = k - 1]
    <2>1. l = [k \in 1..n |-> CHOOSE i \in D : Cardinality(Ahead(i)) = k - 1]
      BY Zenon DEF B!Listed, B!Cardinality, Cardinality
    <2>2. \A k : (CHOOSE i \in D : Cardinality(Ahead(i)) = k) = (CHOOSE i \in D : rank[i] = k)
      OBVIOUS
    <2> QED BY <2>1, <2>2
  <1>8. \A a, b \in D : <<a, b>> \in r => rank[a] < rank[b]
    BY <1>3
  <1> HIDE DEF rank, l, n, Ahead
  <1>9. \A k \in 1..n : l[k] \in D /\ rank[l[k]] = k - 1
    BY <1>6, <1>7
  <1>10. l \in [1..n -> D]
    BY <1>7, <1>9
  <1>11. \A a \in D : \E p \in 1..n : l[p] = a
    <2>1. ASSUME NEW a \in D PROVE \E p \in 1..n : l[p] = a
      <3>1. rank[a] + 1 \in 1..n /\ (rank[a] + 1) - 1 = rank[a]
        BY <1>1, <1>4
      <3>2. rank[l[rank[a] + 1]] = rank[a] /\ l[rank[a] + 1] \in D
        BY <1>9, <3>1
      <3> QED BY <1>5, <3>1, <3>2
    <2> QED BY <2>1
  <1>12. ASSUME NEW p \in 1..n, NEW q \in 1..n, p < q
         PROVE  <<l[p], l[q]>> \in r
    <2>1. rank[l[p]] < rank[l[q]] /\ l[p] \in D /\ l[q] \in D
      BY <1>1, <1>9, <1>12
    <2>2. l[p] # l[q] /\ <<l[q], l[p]>> \notin r
      BY <1>4, <1>8, <2>1
    <2> QED BY <2>1, <2>2 DEF Orders
  <1> QED BY <1>1, <1>10, <1>11, <1>12 DEF Lists, n, l

\* Recursive functions on a range of numbers: there are such, and what every
\* step keeps holds all the way.
Runs(g, v, step, i, n) == g = [j \in i..n |-> IF j = i THEN v ELSE step[j][g[j - 1]]]

LEMMA RunsExist ==
    ASSUME NEW i \in Nat, NEW n \in Nat, i <= n, NEW v, NEW step
    PROVE  \E g : Runs(g, v, step, i, n)
  <1> DEFINE D == {d \in Nat : \E g : Runs(g, v, step, i, i + d)}
  <1>1. 0 \in D
    <2>1. i..(i + 0) = {i}
      OBVIOUS
    <2>2. Runs([j \in {i} |-> v], v, step, i, i + 0)
      BY <2>1 DEF Runs
    <2> QED BY <2>2
  <1>2. ASSUME NEW d \in Nat, d \in D
        PROVE  d + 1 \in D
    <2>1. PICK g : Runs(g, v, step, i, i + d)
      BY <1>2
    <2> DEFINE e == i + (d + 1)
               h == [j \in i..e |-> IF j = e THEN step[e][g[e - 1]] ELSE g[j]]
    <2>2. e \in Nat /\ e - 1 = i + d /\ e # i /\ i..e = (i..(e - 1)) \cup {e} /\ e - 1 \in i..e
      OBVIOUS
    <2> HIDE DEF e
    <2>3. ASSUME NEW j \in i..e
          PROVE  h[j] = IF j = i THEN v ELSE step[j][h[j - 1]]
      <3>1. CASE j = e
        <4>1. h[e - 1] = g[e - 1]
          BY <2>2
        <4>2. h[j] = step[e][g[e - 1]]
          BY <3>1
        <4> QED BY <2>2, <3>1, <4>1, <4>2
      <3>2. CASE j # e
        <4>1. j \in i..(e - 1) /\ h[j] = g[j]
          BY <2>2, <3>2
        <4>2. g[j] = IF j = i THEN v ELSE step[j][g[j - 1]]
          <5> HIDE DEF h
          <5> QED BY <2>1, <2>2, <4>1, Zenon DEF Runs
        <4>3. j # i => j - 1 \in i..e /\ j - 1 # e
          BY <2>2, <4>1
        <4>4. j # i => h[j - 1] = g[j - 1]
          BY <4>3
        <4> HIDE DEF h
        <4> QED BY <4>1, <4>2, <4>4
      <3> QED BY <3>1, <3>2
    <2>4. h = [j \in i..e |-> IF j = i THEN v ELSE step[j][h[j - 1]]]
      <3>1. h = [j \in i..e |-> h[j]]
        OBVIOUS
      <3> HIDE DEF h
      <3> QED BY <2>3, <3>1
    <2>5. Runs(h, v, step, i, e)
      <3> HIDE DEF h
      <3> QED BY <2>4, Zenon DEF Runs
    <2> HIDE DEF h
    <2> QED BY <2>5 DEF e
  <1>3. D = Nat
    <2>1. D \in SUBSET Nat
      OBVIOUS
    <2> HIDE DEF D
    <2> QED BY <1>1, <1>2, <2>1, NatInd
  <1>4. n - i \in Nat /\ i + (n - i) = n
    OBVIOUS
  <1>5. n - i \in D
    BY <1>3, <1>4
  <1> HIDE DEF Runs
  <1> QED BY <1>4, <1>5

LEMMA RunsKeep ==
    ASSUME NEW i \in Nat, NEW n \in Nat, i <= n, NEW g, NEW Good, g[i] \in Good[i],
           \A j \in (i + 1)..n : g[j - 1] \in Good[j - 1] => g[j] \in Good[j]
    PROVE  \A j \in i..n : g[j] \in Good[j]
  <1> DEFINE D == {d \in Nat : i + d <= n => g[i + d] \in Good[i + d]}
  <1>1. i + 0 = i
    OBVIOUS
  <1>2. 0 \in D
    BY <1>1
  <1>3. ASSUME NEW d \in Nat, d \in D
        PROVE  d + 1 \in D
    <2>1. SUFFICES ASSUME i + (d + 1) <= n
                   PROVE  g[i + (d + 1)] \in Good[i + (d + 1)]
      OBVIOUS
    <2>2. (i + (d + 1)) - 1 = i + d /\ i + d <= n /\ i + (d + 1) \in (i + 1)..n
      BY <2>1
    <2>3. g[i + d] \in Good[i + d]
      BY <1>3, <2>2
    <2> HIDE DEF D
    <2> QED BY <2>2, <2>3
  <1>4. D = Nat
    <2>1. D \in SUBSET Nat
      OBVIOUS
    <2> HIDE DEF D
    <2> QED BY <1>2, <1>3, <2>1, NatInd
  <1>5. ASSUME NEW j \in i..n
        PROVE  g[j] \in Good[j]
    <2>1. j - i \in Nat /\ i + (j - i) = j /\ j <= n
      OBVIOUS
    <2>2. j - i \in D
      BY <1>4, <2>1
    <2> QED BY <2>1, <2>2
  <1> QED BY <1>5

(***************************************************************************)
(* The exchange sort of MoveBoardItem.                                       *)
(***************************************************************************)
\* Cards can be told apart by their orders.
Numbers(s, C) == \A a \in C : s[a].order \in Nat

Permutes(w, C, n) == /\ w \in [1..n -> C]
                     /\ \A a \in C : \E p \in 1..n : w[p] = a
                     /\ \A p, q \in 1..n : w[p] = w[q] => p = q

\* The places up to j have what belongs there.
Ordered(w, s, m, n, j) ==
    \A p \in 1..j : \A k \in p..n : ~B!OutOfOrder(s, m, w[p], w[k])

\* v is w with the places i and j exchanged.
Exchanged(v, w, n, i, j) ==
    \A p \in 1..n : v[p] = IF p = j THEN w[i] ELSE IF p = i THEN w[j] ELSE w[p]

LEMMA Swap ==
    ASSUME NEW C, NEW n \in Nat, NEW i \in 1..n, NEW j \in 1..n, NEW w, Permutes(w, C, n)
    PROVE  /\ Permutes(B!Swapped(w, i, j), C, n)
           /\ Exchanged(B!Swapped(w, i, j), w, n, i, j)
  <1> DEFINE v == B!Swapped(w, i, j)
  <1>1. w \in [1..n -> C]
    BY DEF Permutes
  <1>2. v \in [1..n -> C]
    BY <1>1 DEF B!Swapped
  <1>3. \A p \in 1..n : v[p] = IF p = j THEN w[i] ELSE IF p = i THEN w[j] ELSE w[p]
    BY <1>1 DEF B!Swapped
  <1> HIDE DEF v
  <1>4. \A a \in C : \E p \in 1..n : v[p] = a
    <2>1. ASSUME NEW a \in C PROVE \E p \in 1..n : v[p] = a
      <3>1. PICK p \in 1..n : w[p] = a
        BY Zenon DEF Permutes
      <3>2. v[IF p = i THEN j ELSE IF p = j THEN i ELSE p] = a
        BY <1>3, <3>1
      <3>3. (IF p = i THEN j ELSE IF p = j THEN i ELSE p) \in 1..n
        BY <3>1, Zenon
      <3> QED BY <3>2, <3>3, Zenon
    <2> QED BY <2>1
  <1>5. \A p, q \in 1..n : v[p] = v[q] => p = q
    <2>1. \A p, q \in 1..n : w[p] = w[q] => p = q
      BY Zenon DEF Permutes
    <2> QED BY <1>3, <2>1
  <1>6. Permutes(v, C, n)
    BY <1>2, <1>4, <1>5, Zenon DEF Permutes
  <1> QED BY <1>3, <1>6 DEF v, Exchanged

\* Not to be swapped is a total order with ties.
LEMMA OutOfOrderOrders ==
    ASSUME NEW C, NEW s, Numbers(s, C), NEW m
    PROVE  /\ \A a \in C : ~B!OutOfOrder(s, m, a, a)
           /\ \A a, b \in C : B!OutOfOrder(s, m, a, b) => ~B!OutOfOrder(s, m, b, a)
           /\ \A a, b, c \in C : ~B!OutOfOrder(s, m, a, b) /\ ~B!OutOfOrder(s, m, b, c)
                                 => ~B!OutOfOrder(s, m, a, c)
  BY DEF B!OutOfOrder, Numbers

\* The inner loop.
LEMMA Settles ==
    ASSUME NEW C, NEW s, Numbers(s, C), NEW m, NEW n \in Nat,
           NEW w, Permutes(w, C, n), NEW i \in 1..n
    PROVE  LET v == B!Settled(s, m, w, i)
           IN  /\ Permutes(v, C, n)
               /\ \A p \in 1..n : p < i => v[p] = w[p]
               /\ \A p \in i..n : \E q \in i..n : v[p] = w[q]
               /\ \A k \in i..n : ~B!OutOfOrder(s, m, v[i], v[k])
  <1> DEFINE Step(v, j) == IF B!OutOfOrder(s, m, v[i], v[j]) THEN B!Swapped(v, i, j) ELSE v
             After(v, j) == /\ Permutes(v, C, n)
                            /\ \A p \in 1..n : p < i => v[p] = w[p]
                            /\ \A p \in i..n : \E q \in i..n : v[p] = w[q]
                            /\ \A k \in i..j : ~B!OutOfOrder(s, m, v[i], v[k])
             V == [1..n -> C]
             Good == [j \in Nat |-> {v \in V : After(v, j)}]
             step == [j \in Nat |-> [v \in V |-> Step(v, j)]]
             Run(g) == g = [j \in i..Len(w) |->
                              IF j = i THEN w
                              ELSE IF B!OutOfOrder(s, m, g[j - 1][i], g[j - 1][j])
                                   THEN B!Swapped(g[j - 1], i, j) ELSE g[j - 1]]
             h == CHOOSE g : Run(g)
  <1>1. w \in V /\ Len(w) = n /\ i \in Nat /\ i <= n /\ n \in i..n
    <2>1. w \in V
      BY DEF Permutes
    <2>2. Len(w) = n
      <3>1. w \in Seq(C)
        BY <2>1, SeqDef
      <3> QED BY <2>1, <3>1, LenProperties
    <2> QED BY <2>1, <2>2
  <1>2. After(w, i)
    <2>1. \A p \in i..n : w[p] = w[p] /\ w[p] \in C
      BY <1>1
    <2>2. ~B!OutOfOrder(s, m, w[i], w[i])
      BY <1>1, <2>1, OutOfOrderOrders
    <2>3. i..i = {i}
      OBVIOUS
    <2> QED BY <2>1, <2>2, <2>3
  <1>3. ASSUME NEW v, NEW j \in (i + 1)..n, After(v, j - 1)
        PROVE  After(Step(v, j), j)
    <2> DEFINE u == Step(v, j)
    <2>1. j \in 1..n /\ j # i /\ i..j = (i..(j - 1)) \cup {j} /\ j \in i..n /\ i \in i..n
      OBVIOUS
    <2>2. Permutes(v, C, n) /\ v \in V
      BY <1>3, Zenon DEF Permutes
    <2>3. CASE ~B!OutOfOrder(s, m, v[i], v[j])
      <3>1. u = v
        BY <2>3
      <3>2. \A k \in i..j : ~B!OutOfOrder(s, m, v[i], v[k])
        BY <1>3, <2>1, <2>3
      <3> QED BY <1>3, <3>1, <3>2
    <2>4. CASE B!OutOfOrder(s, m, v[i], v[j])
      <3>1. u = B!Swapped(v, i, j)
        BY <2>4
      <3> HIDE DEF u
      <3>2. /\ Permutes(u, C, n)
            /\ \A p \in 1..n : u[p] = IF p = j THEN v[i] ELSE IF p = i THEN v[j] ELSE v[p]
        <4>1. /\ Permutes(B!Swapped(v, i, j), C, n)
              /\ Exchanged(B!Swapped(v, i, j), v, n, i, j)
          <5>1. n \in Nat /\ i \in 1..n /\ j \in 1..n /\ Permutes(v, C, n)
            BY <2>1, <2>2
          <5> HIDE DEF V, Good, step, Run, h, After, Step
          <5> QED BY <5>1, Swap, Zenon
        <4> QED BY <3>1, <4>1, Zenon DEF Exchanged
      <3>3. \A p \in 1..n : p < i => u[p] = w[p]
        <4>1. \A p \in 1..n : p < i => u[p] = v[p]
          BY <2>1, <3>2
        <4> QED BY <1>3, <4>1
      <3>4. \A p \in i..n : \E q \in i..n : u[p] = w[q]
        <4>1. ASSUME NEW p \in i..n PROVE \E q \in i..n : u[p] = v[q]
          <5>1. p \in 1..n
            OBVIOUS
          <5>2. u[p] = v[IF p = j THEN i ELSE IF p = i THEN j ELSE p]
            BY <3>2, <5>1
          <5>3. (IF p = j THEN i ELSE IF p = i THEN j ELSE p) \in i..n
            BY <2>1, Zenon
          <5> QED BY <5>2, <5>3, Zenon
        <4> QED BY <1>3, <4>1
      <3>5. ASSUME NEW k \in i..j
            PROVE  ~B!OutOfOrder(s, m, u[i], u[k])
        <4>1. u[i] = v[j] /\ u[j] = v[i] /\ v[i] \in C /\ v[j] \in C
          BY <2>1, <2>2, <3>2
        <4>2. ~B!OutOfOrder(s, m, v[j], v[i])
          BY <2>4, <4>1, OutOfOrderOrders
        <4>3. CASE k = j
          BY <4>1, <4>2, <4>3
        <4>4. CASE k = i
          BY <4>1, <4>4, OutOfOrderOrders
        <4>5. CASE k # i /\ k # j
          <5>1. k \in 1..n /\ k \in i..(j - 1)
            BY <2>1, <4>5
          <5>2. u[k] = v[k] /\ v[k] \in C
            BY <2>2, <3>2, <4>5, <5>1
          <5>3. ~B!OutOfOrder(s, m, v[i], v[k])
            BY <1>3, <5>1
          <5> QED BY <4>1, <4>2, <5>2, <5>3, OutOfOrderOrders
        <4> QED BY <4>3, <4>4, <4>5
      <3> QED BY <3>2, <3>3, <3>4, <3>5, Zenon DEF u
    <2> QED BY <2>3, <2>4
  <1> HIDE DEF After
  <1>4. ASSUME NEW v, NEW j, After(v, j) PROVE v \in V
    BY <1>4, Zenon DEF After, Permutes
  <1>5. \E g : Run(g)
    <2>1. PICK g : Runs(g, w, step, i, n)
      BY <1>1, RunsExist
    <2>2. /\ g[i] = w
          /\ \A j \in (i + 1)..n : g[j] = step[j][g[j - 1]]
      <3> HIDE DEF step, V
      <3>1. i \in i..n /\ \A j \in (i + 1)..n : j \in i..n /\ j # i
        BY <1>1
      <3> QED BY <2>1, <3>1 DEF Runs
    <2>3. \A j \in i..n : g[j] \in Good[j]
      <3>1. g[i] \in Good[i]
        BY <1>1, <1>2, <2>2
      <3>2. ASSUME NEW j \in (i + 1)..n, g[j - 1] \in Good[j - 1]
            PROVE  g[j] \in Good[j]
        <4>1. j \in Nat /\ j - 1 \in Nat
          BY <1>1
        <4>2. g[j - 1] \in V /\ After(g[j - 1], j - 1)
          BY <3>2, <4>1
        <4>3. g[j] = Step(g[j - 1], j)
          BY <2>2, <4>1, <4>2
        <4>4. After(g[j], j)
          BY <1>3, <4>2, <4>3
        <4> HIDE DEF Step
        <4> QED BY <1>4, <4>1, <4>4
      <3> HIDE DEF Good
      <3> QED BY <1>1, <3>1, <3>2, RunsKeep
    <2>4. ASSUME NEW j \in i..n
          PROVE  g[j] = IF j = i THEN w ELSE Step(g[j - 1], j)
      <3>1. CASE j = i
        BY <2>2, <3>1
      <3>2. CASE j # i
        <4>1. j \in (i + 1)..n /\ j \in Nat /\ j - 1 \in i..n /\ j - 1 \in Nat
          BY <1>1, <3>2
        <4>2. g[j - 1] \in V
          BY <2>3, <4>1
        <4>3. g[j] = step[j][g[j - 1]]
          BY <2>2, <4>1
        <4>4. step[j][g[j - 1]] = Step(g[j - 1], j)
          BY <4>1, <4>2
        <4> QED BY <3>2, <4>3, <4>4, Zenon
      <3> QED BY <3>1, <3>2
    <2>5. g = [j \in i..n |-> g[j]]
      BY <2>1 DEF Runs
    <2>6. g = [j \in i..n |-> IF j = i THEN w ELSE Step(g[j - 1], j)]
      <3> HIDE DEF Step
      <3> QED BY <2>4, <2>5
    <2>7. Run(g)
      BY <1>1, <2>6
    <2> QED BY <2>7, Zenon
  <1>6. Run(h)
    BY <1>5, Zenon
  <1>7. B!Settled(s, m, w, i) = h[n]
    <2>1. B!Settled(s, m, w, i) = h[Len(w)]
      BY Zenon DEF B!Settled
    <2> HIDE DEF h
    <2> QED BY <1>1, <2>1
  <1> HIDE DEF h
  <1>8. \A j \in i..n : h[j] \in Good[j]
    <2>1. h = [j \in i..n |-> IF j = i THEN w ELSE Step(h[j - 1], j)]
      BY <1>1, <1>6
    <2>2. h[i] = w /\ \A j \in (i + 1)..n : h[j] = Step(h[j - 1], j)
      <3>1. i \in i..n /\ \A j \in (i + 1)..n : j \in i..n /\ j # i
        BY <1>1
      <3> HIDE DEF Step
      <3> QED BY <2>1, <3>1
    <2>3. h[i] \in Good[i]
      BY <1>1, <1>2, <2>2
    <2>4. ASSUME NEW j \in (i + 1)..n, h[j - 1] \in Good[j - 1]
          PROVE  h[j] \in Good[j]
      <3>1. j \in Nat /\ j - 1 \in Nat
        BY <1>1
      <3>2. After(h[j - 1], j - 1)
        BY <2>4, <3>1
      <3>3. After(h[j], j)
        BY <1>3, <2>2, <3>2
      <3> HIDE DEF Step
      <3> QED BY <1>4, <3>1, <3>3
    <2> HIDE DEF Good
    <2> QED BY <1>1, <2>3, <2>4, RunsKeep
  <1>9. After(h[n], n)
    BY <1>1, <1>8
  <1> QED BY <1>7, <1>9 DEF After

\* Both loops.
LEMMA Sorts ==
    ASSUME NEW C, NEW s, Numbers(s, C), NEW m, NEW n \in Nat,
           NEW w, Permutes(w, C, n)
    PROVE  Permutes(B!Sorted(s, m, w), C, n) /\ Ordered(B!Sorted(s, m, w), s, m, n, n)
  <1> DEFINE V == [1..n -> C]
             Step(v, j) == B!Settled(s, m, v, j)
             After(v, j) == Permutes(v, C, n) /\ Ordered(v, s, m, n, j)
             Good == [j \in Nat |-> {v \in V : After(v, j)}]
             step == [j \in Nat |-> [v \in V |-> Step(v, j)]]
             Run(g) == g = [j \in 0..Len(w) |-> IF j = 0 THEN w
                                                ELSE B!Settled(s, m, g[j - 1], j)]
             h == CHOOSE g : Run(g)
  <1>1. w \in V /\ Len(w) = n
    <2>1. w \in V
      BY DEF Permutes
    <2>2. Len(w) = n
      <3>1. w \in Seq(C)
        BY <2>1, SeqDef
      <3> QED BY <2>1, <3>1, LenProperties
    <2> QED BY <2>1, <2>2
  <1>2. After(w, 0)
    BY DEF Ordered
  <1>3. ASSUME NEW v, NEW j \in 1..n, After(v, j - 1)
        PROVE  After(Step(v, j), j)
    <2> DEFINE u == Step(v, j)
    <2>1. Permutes(v, C, n) /\ Ordered(v, s, m, n, j - 1)
      BY <1>3
    <2>2. /\ Permutes(u, C, n)
          /\ \A p \in 1..n : p < j => u[p] = v[p]
          /\ \A p \in j..n : \E q \in j..n : u[p] = v[q]
          /\ \A k \in j..n : ~B!OutOfOrder(s, m, u[j], u[k])
      BY <2>1, Settles
    <2> HIDE DEF u
    <2>3. ASSUME NEW p \in 1..j, NEW k \in p..n
          PROVE  ~B!OutOfOrder(s, m, u[p], u[k])
      <3>1. CASE p = j
        BY <2>2, <3>1
      <3>2. CASE p < j
        <4>1. p \in 1..(j - 1) /\ p \in 1..n /\ u[p] = v[p]
          BY <2>2, <3>2
        <4>2. CASE k < j
          <5>1. k \in 1..n /\ u[k] = v[k]
            BY <2>2, <4>2
          <5> QED BY <2>1, <4>1, <5>1 DEF Ordered
        <4>3. CASE ~(k < j)
          <5>1. k \in j..n
            BY <4>3
          <5>2. PICK q \in j..n : u[k] = v[q]
            BY <2>2, <5>1
          <5>3. q \in p..n
            BY <3>2
          <5> QED BY <2>1, <4>1, <5>2, <5>3 DEF Ordered
        <4> QED BY <4>2, <4>3
      <3>3. p = j \/ p < j
        OBVIOUS
      <3> QED BY <3>1, <3>2, <3>3
    <2> QED BY <2>2, <2>3 DEF Ordered, u
  <1> HIDE DEF After
  <1>4. ASSUME NEW v, NEW j, After(v, j) PROVE v \in V
    BY <1>4, Zenon DEF After, Permutes
  <1>5. \E g : Run(g)
    <2>1. PICK g : Runs(g, w, step, 0, n)
      <3>1. 0 \in Nat /\ 0 <= n
        OBVIOUS
      <3> QED BY <3>1, RunsExist
    <2>2. /\ g[0] = w
          /\ \A j \in (0 + 1)..n : g[j] = step[j][g[j - 1]]
      <3> HIDE DEF step, V
      <3>1. 0 \in 0..n /\ \A j \in (0 + 1)..n : j \in 0..n /\ j # 0
        OBVIOUS
      <3> QED BY <2>1, <3>1 DEF Runs
    <2>3. \A j \in 0..n : g[j] \in Good[j]
      <3>1. g[0] \in Good[0]
        BY <1>1, <1>2, <2>2
      <3>2. ASSUME NEW j \in (0 + 1)..n, g[j - 1] \in Good[j - 1]
            PROVE  g[j] \in Good[j]
        <4>1. j \in Nat /\ j - 1 \in Nat /\ j \in 1..n
          OBVIOUS
        <4>2. g[j - 1] \in V /\ After(g[j - 1], j - 1)
          BY <3>2, <4>1
        <4>3. g[j] = Step(g[j - 1], j)
          BY <2>2, <4>1, <4>2
        <4>4. After(g[j], j)
          BY <1>3, <4>1, <4>2, <4>3
        <4> HIDE DEF Step
        <4> QED BY <1>4, <4>1, <4>4
      <3>3. 0 \in Nat /\ 0 <= n
        OBVIOUS
      <3> HIDE DEF Good
      <3> QED BY <3>1, <3>2, <3>3, RunsKeep
    <2>4. ASSUME NEW j \in 0..n
          PROVE  g[j] = IF j = 0 THEN w ELSE Step(g[j - 1], j)
      <3>1. CASE j = 0
        BY <2>2, <3>1
      <3>2. CASE j # 0
        <4>1. j \in (0 + 1)..n /\ j \in Nat /\ j - 1 \in 0..n /\ j - 1 \in Nat
          BY <3>2
        <4>2. g[j - 1] \in V
          BY <2>3, <4>1
        <4>3. g[j] = step[j][g[j - 1]]
          BY <2>2, <4>1
        <4>4. step[j][g[j - 1]] = Step(g[j - 1], j)
          BY <4>1, <4>2
        <4> QED BY <3>2, <4>3, <4>4, Zenon
      <3> QED BY <3>1, <3>2
    <2>5. g = [j \in 0..n |-> g[j]]
      BY <2>1 DEF Runs
    <2>6. g = [j \in 0..n |-> IF j = 0 THEN w ELSE Step(g[j - 1], j)]
      <3> HIDE DEF Step
      <3> QED BY <2>4, <2>5
    <2>7. Run(g)
      BY <1>1, <2>6
    <2> QED BY <2>7, Zenon
  <1>6. Run(h)
    BY <1>5, Zenon
  <1>7. B!Sorted(s, m, w) = h[n]
    <2>1. B!Sorted(s, m, w) = h[Len(w)]
      BY Zenon DEF B!Sorted
    <2> HIDE DEF h
    <2> QED BY <1>1, <2>1
  <1> HIDE DEF h
  <1>8. \A j \in 0..n : h[j] \in Good[j]
    <2>1. h = [j \in 0..n |-> IF j = 0 THEN w ELSE Step(h[j - 1], j)]
      BY <1>1, <1>6
    <2>2. h[0] = w /\ \A j \in (0 + 1)..n : h[j] = Step(h[j - 1], j)
      <3>1. 0 \in 0..n /\ \A j \in (0 + 1)..n : j \in 0..n /\ j # 0
        OBVIOUS
      <3> HIDE DEF Step
      <3> QED BY <2>1, <3>1
    <2>3. h[0] \in Good[0]
      BY <1>1, <1>2, <2>2
    <2>4. ASSUME NEW j \in (0 + 1)..n, h[j - 1] \in Good[j - 1]
          PROVE  h[j] \in Good[j]
      <3>1. j \in Nat /\ j - 1 \in Nat /\ j \in 1..n
        OBVIOUS
      <3>2. After(h[j - 1], j - 1)
        BY <2>4, <3>1
      <3>3. After(h[j], j)
        BY <1>3, <2>2, <3>1, <3>2
      <3> HIDE DEF Step
      <3> QED BY <1>4, <3>1, <3>3
    <2>5. 0 \in Nat /\ 0 <= n
      OBVIOUS
    <2> HIDE DEF Good
    <2> QED BY <2>3, <2>4, <2>5, RunsKeep
  <1>9. After(h[n], n)
    BY <1>8
  <1> QED BY <1>7, <1>9 DEF After

(***************************************************************************)
(* What MoveBoardItem does to the cards.                                     *)
(***************************************************************************)
AnyCard == [board : {"ours", "other"}, col : BoardColumns, order : Nat, archived : BOOLEAN]

\* A card with its place.
At(x, c, k) == [board |-> x.board, col |-> c, order |-> k, archived |-> x.archived]

LEMMA CardParts ==
    ASSUME NEW x \in AnyCard, NEW c, NEW k
    PROVE  /\ x = At(x, x.col, x.order)
           /\ At(x, c, k).board = x.board /\ At(x, c, k).archived = x.archived
           /\ At(x, c, k).col = c /\ At(x, c, k).order = k
           /\ c \in BoardColumns /\ k \in Nat => At(x, c, k) \in AnyCard
  BY DEF AnyCard, At

LEMMA CardExcept ==
    ASSUME NEW x \in AnyCard, NEW c, NEW k
    PROVE  [x EXCEPT !.order = k] = At(x, x.col, k) /\ [x EXCEPT !.col = c] = At(x, c, x.order)
  <1>1. PICK b \in {"ours", "other"}, d \in BoardColumns, o \in Nat, a \in BOOLEAN :
           x = [board |-> b, col |-> d, order |-> o, archived |-> a]
    BY Zenon DEF AnyCard
  <1> DEFINE y == [board |-> b, col |-> d, order |-> o, archived |-> a]
  <1>2. /\ [y EXCEPT !.order = k] = [board |-> b, col |-> d, order |-> k, archived |-> a]
        /\ [y EXCEPT !.col = c] = [board |-> b, col |-> c, order |-> o, archived |-> a]
    OBVIOUS
  <1>3. /\ At(y, y.col, k) = [board |-> b, col |-> d, order |-> k, archived |-> a]
        /\ At(y, c, y.order) = [board |-> b, col |-> c, order |-> o, archived |-> a]
    BY Zenon DEF At
  <1> HIDE DEF y
  <1>4. x = y
    BY <1>1, Zenon DEF y
  <1> QED BY <1>2, <1>3, <1>4, Zenon

\* r is s with the members of C numbered in the order of w.
Placed(r, s, C, w, n) == /\ DOMAIN r = DOMAIN s
                         /\ \A p \in 1..n : r[w[p]] = At(s[w[p]], s[w[p]].col, p - 1)
                         /\ \A j \in DOMAIN s \ C : r[j] = s[j]

LEMMA Lengthy ==
    ASSUME NEW C, NEW n \in Nat, NEW w \in [1..n -> C]
    PROVE  w \in Seq(C) /\ Len(w) = n /\ DOMAIN w = 1..n
  <1>1. w \in Seq(C)
    BY SeqDef
  <1> QED BY <1>1, LenProperties

LEMMA Renumbers ==
    ASSUME NEW X, NEW s \in [X -> AnyCard], NEW C, C \subseteq X, NEW n \in Nat,
           NEW w, Permutes(w, C, n)
    PROVE  Placed(B!Renumbered(s, w), s, C, w, n)
  <1> DEFINE place(i) == CHOOSE m \in 1..Len(w) : w[m] = i
             r == B!Renumbered(s, w)
  <1>1. w \in [1..n -> C] /\ Len(w) = n /\ DOMAIN w = 1..n /\ DOMAIN s = X
    BY Lengthy DEF Permutes
  <1>2. B!Range(w) = C
    <2>1. B!Range(w) = {w[p] : p \in DOMAIN w}
      BY Zenon DEF B!Range
    <2>2. \A a \in C : \E p \in 1..n : w[p] = a
      BY Zenon DEF Permutes
    <2>3. \A p \in 1..n : w[p] \in C
      BY Zenon DEF Permutes
    <2>4. {w[p] : p \in DOMAIN w} = C
      <3> HIDE DEF r
      <3> QED BY <1>1, <2>2, <2>3
    <2> QED BY <2>1, <2>4, Zenon
  <1>3. /\ DOMAIN r = DOMAIN s
        /\ \A j \in DOMAIN s : r[j] = IF j \in B!Range(w) THEN [s[j] EXCEPT !.order = place(j) - 1]
                                      ELSE s[j]
    BY Zenon DEF B!Renumbered
  <1>4. ASSUME NEW p \in 1..n PROVE place(w[p]) = p
    <2>1. \A q \in 1..n : w[p] = w[q] => p = q
      BY Zenon DEF Permutes
    <2> HIDE DEF r
    <2> QED BY <1>1, <2>1
  <1> HIDE DEF place, r
  <1>5. ASSUME NEW p \in 1..n PROVE r[w[p]] = At(s[w[p]], s[w[p]].col, p - 1)
    <2>1. w[p] \in C /\ w[p] \in X /\ s[w[p]] \in AnyCard
      BY <1>1
    <2>2. r[w[p]] = [s[w[p]] EXCEPT !.order = place(w[p]) - 1]
      BY <1>1, <1>2, <1>3, <2>1, Zenon
    <2> QED BY <1>4, <2>1, <2>2, CardExcept, Zenon
  <1>6. ASSUME NEW j \in DOMAIN s \ C PROVE r[j] = s[j]
    BY <1>2, <1>3, Zenon
  <1> QED BY <1>3, <1>5, <1>6 DEF Placed, r

\* A list of the members in an order names each once.
LEMMA ListsPermute ==
    ASSUME NEW D, NEW r, Orders(D, r), NEW n \in Nat, NEW l, Lists(l, D, r, n)
    PROVE  Permutes(l, D, n)
  <1>1. l \in [1..n -> D] /\ \A a \in D : \E p \in 1..n : l[p] = a
    BY DEF Lists
  <1>2. ASSUME NEW p \in 1..n, NEW q \in 1..n, l[p] = l[q], p # q
        PROVE  FALSE
    <2>1. l[p] \in D /\ l[q] \in D
      BY <1>1
    <2>2. p < q \/ q < p
      BY <1>2
    <2>3. <<l[p], l[q]>> \in r \/ <<l[q], l[p]>> \in r
      BY <2>2 DEF Lists
    <2> QED BY <1>2, <2>1, <2>3 DEF Orders
  <1> QED BY <1>1, <1>2 DEF Permutes

LEMMA InArrayLists ==
    ASSUME NEW D \in SUBSET Nat, IsFiniteSet(D)
    PROVE  Cardinality(D) \in Nat /\ Permutes(B!InArray(D), D, Cardinality(D))
  <1> DEFINE r == {p \in D \X D : p[1] < p[2]}
  <1>1. \A a, b \in D : <<a, b>> \in r <=> a < b
    OBVIOUS
  <1>2. Orders(D, r)
    <2> HIDE DEF r
    <2>1. \A a \in D : a \in Nat
      OBVIOUS
    <2> QED BY <1>1, <2>1 DEF Orders
  <1>3. B!InArray(D) = B!Listed(D, r)
    BY Zenon DEF B!InArray
  <1> HIDE DEF r
  <1>4. Cardinality(D) \in Nat /\ Lists(B!InArray(D), D, r, Cardinality(D))
    BY <1>2, <1>3, ListedLists
  <1> QED BY <1>2, <1>4, ListsPermute

\* MoveBoardItem: card i comes to column c, which is the set C of cards of t, in
\* the order of w.
MoveIs(N, s, i, c, k, r, t, C, n, w) ==
    /\ t \in [1..N -> AnyCard] /\ t[i] = At(s[i], c, k)
    /\ \A j \in 1..N : j # i => t[j] = s[j]
    /\ C = {j \in 1..N : t[j].board = s[i].board /\ t[j].col = c} /\ i \in C
    /\ n = Cardinality(C) /\ n \in 0..N
    /\ Permutes(w, C, n) /\ Ordered(w, t, i, n, n) /\ Placed(r, t, C, w, n)

LEMMA Moving ==
    ASSUME NEW N \in Nat, NEW s \in [1..N -> AnyCard], NEW i \in 1..N, NEW c \in BoardColumns,
           NEW k \in Nat
    PROVE  \E t, C, n, w : MoveIs(N, s, i, c, k, B!Moved(s, i, c, k), t, C, n, w)
  <1> DEFINE t == [s EXCEPT ![i].col = c, ![i].order = k]
             C == B!InColumn(t, s[i].board, c)
             n == Cardinality(C)
             u == B!InArray(C)
             w == B!Sorted(t, i, u)
  <1>1. /\ t \in [1..N -> AnyCard] /\ t[i] = At(s[i], c, k)
        /\ \A j \in 1..N : j # i => t[j] = s[j]
    <2>1. t = [s EXCEPT ![i] = [[s[i] EXCEPT !.col = c] EXCEPT !.order = k]]
      BY Zenon
    <2>2. s[i] \in AnyCard /\ At(s[i], c, s[i].order) \in AnyCard
      BY CardParts DEF AnyCard
    <2>3. /\ [[s[i] EXCEPT !.col = c] EXCEPT !.order = k] = At(s[i], c, k)
          /\ At(s[i], c, k) \in AnyCard
      <3>1. [s[i] EXCEPT !.col = c] = At(s[i], c, s[i].order)
        BY CardExcept, Zenon
      <3>2. [At(s[i], c, s[i].order) EXCEPT !.order = k] = At(At(s[i], c, s[i].order), c, k)
        <4> DEFINE x == At(s[i], c, s[i].order)
        <4>1. [x EXCEPT !.order = k] = At(x, x.col, k) /\ x.col = c
          <5> HIDE DEF x
          <5>1. x \in AnyCard /\ x.col = c
            BY <2>2, CardParts DEF x
          <5> QED BY <5>1, CardExcept, Zenon
        <4> QED BY <4>1, Zenon
      <3>3. At(At(s[i], c, s[i].order), c, k) = At(s[i], c, k)
        BY Zenon DEF At
      <3>4. At(s[i], c, k) \in AnyCard
        BY CardParts
      <3> QED BY <3>1, <3>2, <3>3, <3>4, Zenon
    <2> HIDE DEF t
    <2>4. t = [s EXCEPT ![i] = At(s[i], c, k)]
      BY <2>1, <2>3, Zenon
    <2> QED BY <2>3, <2>4
  <1>2. B!Moved(s, i, c, k) = B!Renumbered(t, w)
    BY Zenon DEF B!Moved
  <1> HIDE DEF t
  <1>3. C = {j \in 1..N : t[j].board = s[i].board /\ t[j].col = c} /\ i \in C
    <2>1. C = {j \in 1..N : t[j].board = s[i].board /\ t[j].col = c}
      BY <1>1 DEF B!InColumn, B!OnBoard
    <2>2. t[i].board = s[i].board /\ t[i].col = c
      <3>1. s[i] \in AnyCard
        OBVIOUS
      <3>2. At(s[i], c, k).board = s[i].board /\ At(s[i], c, k).col = c
        BY <3>1, CardParts
      <3> HIDE DEF C
      <3> QED BY <1>1, <3>2
    <2> HIDE DEF C
    <2> QED BY <2>1, <2>2
  <1> HIDE DEF C
  <1>4. C \subseteq 1..N /\ C \in SUBSET Nat /\ C \subseteq DOMAIN t
    BY <1>1, <1>3
  <1>5. IsFiniteSet(C) /\ n \in Nat /\ n <= N
    <2>1. IsFiniteSet(1..N) /\ Cardinality(1..N) = N
      BY FS_Interval
    <2>2. IsFiniteSet(C) /\ Cardinality(C) <= N
      BY <1>4, <2>1, FS_Subset
    <2> QED BY <2>2, FS_CardinalityType
  <1>6. Permutes(u, C, n)
    BY <1>4, <1>5, InArrayLists
  <1> HIDE DEF n, u
  <1>7. Numbers(t, C)
    BY <1>1, <1>4 DEF Numbers, AnyCard
  <1>8. Permutes(w, C, n) /\ Ordered(w, t, i, n, n)
    BY <1>5, <1>6, <1>7, Sorts
  <1> HIDE DEF w
  <1>9. Placed(B!Renumbered(t, w), t, C, w, n)
    BY <1>1, <1>4, <1>5, <1>8, Renumbers
  <1>10. n \in 0..N /\ n = Cardinality(C)
    BY <1>5 DEF n
  <1> QED BY <1>1, <1>2, <1>3, <1>8, <1>9, <1>10, Zenon DEF MoveIs

\* What each card has after it.
LEMMA MovedFields ==
    ASSUME NEW N \in Nat, NEW s \in [1..N -> AnyCard], NEW i \in 1..N, NEW c \in BoardColumns,
           NEW k \in Nat, NEW r, NEW t, NEW C, NEW n, NEW w,
           MoveIs(N, s, i, c, k, r, t, C, n, w)
    PROVE  /\ DOMAIN r = 1..N /\ C \subseteq 1..N
           /\ \A j \in 1..N : /\ r[j] \in AnyCard
                              /\ r[j].board = s[j].board /\ r[j].archived = s[j].archived
                              /\ r[j].col = IF j = i THEN c ELSE s[j].col
                              /\ j \notin C => r[j] = s[j]
                              /\ j \in C => r[j].order < N
                              /\ j \in C => r[j] = At(s[j], c, r[j].order)
           /\ \A p \in 1..n : r[w[p]].order = p - 1
           /\ \A a, b \in C : r[a].order = r[b].order => a = b
  <1>1. /\ t \in [1..N -> AnyCard] /\ t[i] = At(s[i], c, k)
        /\ \A j \in 1..N : j # i => t[j] = s[j]
        /\ C \subseteq 1..N /\ i \in C /\ n \in Nat /\ n <= N
        /\ Permutes(w, C, n) /\ Placed(r, t, C, w, n)
    BY DEF MoveIs
  <1>2. DOMAIN r = 1..N
    BY <1>1 DEF Placed
  <1>3. ASSUME NEW p \in 1..n
        PROVE  /\ w[p] \in C /\ w[p] \in 1..N
               /\ r[w[p]] = At(t[w[p]], t[w[p]].col, p - 1)
    BY <1>1 DEF Permutes, Placed
  <1>4. ASSUME NEW j \in C PROVE \E p \in 1..n : w[p] = j
    BY <1>1, Zenon DEF Permutes
  <1>5. ASSUME NEW j \in 1..N
        PROVE  /\ t[j] \in AnyCard /\ t[j].board = s[j].board /\ t[j].archived = s[j].archived
               /\ t[j].col = IF j = i THEN c ELSE s[j].col
               /\ j \in C => t[j].col = c
    <2>1. t[j] \in AnyCard /\ s[j] \in AnyCard
      BY <1>1
    <2>2. j \in C => t[j].col = c
      BY DEF MoveIs
    <2>3. CASE j = i
      BY <1>1, <2>1, <2>2, <2>3, CardParts
    <2>4. CASE j # i
      BY <1>1, <2>1, <2>2, <2>4
    <2> QED BY <2>3, <2>4
  <1>6. \A p \in 1..n : r[w[p]].order = p - 1
    <2>1. ASSUME NEW p \in 1..n PROVE r[w[p]].order = p - 1
      <3>1. t[w[p]] \in AnyCard
        BY <1>3, <1>5
      <3> QED BY <1>3, <3>1, CardParts
    <2> QED BY <2>1
  <1>7. ASSUME NEW j \in 1..N
        PROVE  /\ r[j] \in AnyCard
               /\ r[j].board = t[j].board /\ r[j].archived = t[j].archived /\ r[j].col = t[j].col
               /\ j \notin C => r[j] = s[j]
               /\ j \in C => r[j].order < N
               /\ j \in C => r[j] = At(s[j], c, r[j].order)
    <2>1. t[j] \in AnyCard
      BY <1>5
    <2>2. CASE j \notin C
      <3>1. r[j] = t[j] /\ t[j] = s[j]
        BY <1>1, <2>2 DEF Placed
      <3> QED BY <2>1, <2>2, <3>1
    <2>3. CASE j \in C
      <3>1. PICK p \in 1..n : w[p] = j
        BY <1>4, <2>3
      <3>2. r[j] = At(t[j], t[j].col, p - 1) /\ p - 1 \in Nat /\ p - 1 < N
        BY <1>1, <1>3, <3>1
      <3>3. /\ r[j] \in AnyCard /\ r[j].order = p - 1
            /\ r[j].board = t[j].board /\ r[j].archived = t[j].archived /\ r[j].col = t[j].col
        <4>1. t[j].col \in BoardColumns
          BY <2>1 DEF AnyCard
        <4> QED BY <2>1, <3>2, <4>1, CardParts
      <3>4. At(t[j], c, p - 1) = At(s[j], c, p - 1)
        BY <1>5, Zenon DEF At
      <3> QED BY <1>5, <2>3, <3>2, <3>3, <3>4
    <2> QED BY <2>2, <2>3
  <1>8. ASSUME NEW a \in C, NEW b \in C, r[a].order = r[b].order PROVE a = b
    <2>1. PICK p \in 1..n : w[p] = a
      BY <1>4
    <2>2. PICK q \in 1..n : w[q] = b
      BY <1>4
    <2>3. p - 1 = q - 1
      BY <1>6, <1>8, <2>1, <2>2
    <2>4. p = q
      BY <2>3
    <2> QED BY <2>1, <2>2, <2>4
  <1> QED BY <1>1, <1>2, <1>5, <1>6, <1>7, <1>8

\* Two other cards of the column stay in their order.
LEMMA MovedKeepsOrder ==
    ASSUME NEW N \in Nat, NEW s \in [1..N -> AnyCard], NEW i \in 1..N, NEW c \in BoardColumns,
           NEW k \in Nat, NEW r, NEW t, NEW C, NEW n, NEW w,
           MoveIs(N, s, i, c, k, r, t, C, n, w),
           NEW a \in C, NEW b \in C, a # i, b # i, s[a].order < s[b].order
    PROVE  r[a].order < r[b].order
  <1>1. /\ t \in [1..N -> AnyCard] /\ C \subseteq 1..N /\ n \in Nat
        /\ Permutes(w, C, n) /\ Ordered(w, t, i, n, n) /\ t[a] = s[a] /\ t[b] = s[b]
    BY DEF MoveIs
  <1>2. PICK p \in 1..n : w[p] = a
    BY <1>1, Zenon DEF Permutes
  <1>3. PICK q \in 1..n : w[q] = b
    BY <1>1, Zenon DEF Permutes
  <1>4. r[a].order = p - 1 /\ r[b].order = q - 1
    BY <1>2, <1>3, MovedFields
  <1>5. ~(q <= p)
    <2>1. SUFFICES ASSUME q <= p PROVE FALSE
      OBVIOUS
    <2>2. p \in q..n
      BY <2>1
    <2>3. ~B!OutOfOrder(t, i, b, a)
      BY <1>1, <1>2, <1>3, <2>2 DEF Ordered
    <2>4. s[a].order \in Nat /\ s[b].order \in Nat
      BY <1>1 DEF AnyCard
    <2> QED BY <1>1, <2>3, <2>4 DEF B!OutOfOrder
  <1> QED BY <1>4, <1>5

(***************************************************************************)
(* Columns without gaps.                                                     *)
(***************************************************************************)
LEMMA OrderRelation ==
    ASSUME NEW D, NEW s, NEW r, \A a \in D : a \in Nat /\ s[a].order \in Nat,
           \A a, b \in D : <<a, b>> \in r <=> s[a].order < s[b].order
                                             \/ (s[a].order = s[b].order /\ a < b)
    PROVE  Orders(D, r)
  <1>1. ASSUME NEW a \in D, NEW b \in D, NEW d \in D, <<a, b>> \in r, <<b, d>> \in r
        PROVE  <<a, d>> \in r
    <2>1. \/ s[a].order < s[b].order
          \/ s[a].order = s[b].order /\ a < b
      BY <1>1
    <2>2. \/ s[b].order < s[d].order
          \/ s[b].order = s[d].order /\ b < d
      BY <1>1
    <2>3. \/ s[a].order < s[d].order
          \/ s[a].order = s[d].order /\ a < d
      BY <2>1, <2>2
    <2> QED BY <2>3
  <1>2. \A a \in D : <<a, a>> \notin r
    OBVIOUS
  <1>3. \A a, b \in D : a # b => <<a, b>> \in r \/ <<b, a>> \in r
    OBVIOUS
  <1> QED BY <1>1, <1>2, <1>3 DEF Orders

InOrder(l, s, D, n) == /\ l \in [1..n -> D]
                       /\ \A a \in D : \E p \in 1..n : l[p] = a
                       /\ \A p, q \in 1..n : p < q => s[l[p]].order < s[l[q]].order

LEMMA ByOrderLists ==
    ASSUME NEW D \in SUBSET Nat, IsFiniteSet(D), NEW s, Numbers(s, D), NEW l,
           InOrder(l, s, D, Cardinality(D))
    PROVE  B!ByOrder(s, D) = l
  <1> DEFINE r == {p \in D \X D : \/ s[p[1]].order < s[p[2]].order
                                  \/ s[p[1]].order = s[p[2]].order /\ p[1] < p[2]}
             n == Cardinality(D)
  <1>1. \A a, b \in D : <<a, b>> \in r <=> \/ s[a].order < s[b].order
                                           \/ s[a].order = s[b].order /\ a < b
    OBVIOUS
  <1>2. B!ByOrder(s, D) = B!Listed(D, r)
    BY Zenon DEF B!ByOrder
  <1> HIDE DEF r
  <1>3. Orders(D, r)
    <2>1. \A a \in D : a \in Nat /\ s[a].order \in Nat
      BY DEF Numbers
    <2> QED BY <1>1, <2>1, OrderRelation
  <1>4. n \in Nat /\ Lists(B!Listed(D, r), D, r, n)
    BY <1>3, ListedLists
  <1>5. InOrder(l, s, D, n)
    OBVIOUS
  <1> HIDE DEF n
  <1>6. Lists(l, D, r, n)
    <2>1. l \in [1..n -> D] /\ \A a \in D : \E p \in 1..n : l[p] = a
      BY <1>5 DEF InOrder
    <2>2. \A p, q \in 1..n : p < q => <<l[p], l[q]>> \in r
      BY <1>1, <1>5, <2>1 DEF InOrder
    <2> QED BY <2>1, <2>2 DEF Lists
  <1> QED BY <1>2, <1>3, <1>4, <1>6, OneList

LEMMA ByOrderPermutes ==
    ASSUME NEW D \in SUBSET Nat, IsFiniteSet(D), NEW s, Numbers(s, D)
    PROVE  Permutes(B!ByOrder(s, D), D, Cardinality(D))
  <1> DEFINE r == {p \in D \X D : \/ s[p[1]].order < s[p[2]].order
                                  \/ s[p[1]].order = s[p[2]].order /\ p[1] < p[2]}
  <1>1. \A a, b \in D : <<a, b>> \in r <=> \/ s[a].order < s[b].order
                                           \/ s[a].order = s[b].order /\ a < b
    OBVIOUS
  <1>2. B!ByOrder(s, D) = B!Listed(D, r)
    BY Zenon DEF B!ByOrder
  <1> HIDE DEF r
  <1>3. Orders(D, r)
    <2>1. \A a \in D : a \in Nat /\ s[a].order \in Nat
      BY DEF Numbers
    <2> QED BY <1>1, <2>1, OrderRelation
  <1>4. Cardinality(D) \in Nat /\ Lists(B!ByOrder(s, D), D, r, Cardinality(D))
    BY <1>2, <1>3, ListedLists
  <1> QED BY <1>3, <1>4, ListsPermute

\* It is only the orders that count.
LEMMA ByOrderSame ==
    ASSUME NEW D, NEW s, NEW t, \A a \in D : s[a].order = t[a].order
    PROVE  B!ByOrder(s, D) = B!ByOrder(t, D)
  <1> DEFINE Rel(x) == {p \in D \X D : \/ x[p[1]].order < x[p[2]].order
                                       \/ x[p[1]].order = x[p[2]].order /\ p[1] < p[2]}
  <1>1. Rel(s) = Rel(t)
    <2>1. \A p \in D \X D : p[1] \in D /\ p[2] \in D
      OBVIOUS
    <2> QED BY <2>1
  <1>2. B!ByOrder(s, D) = B!Listed(D, Rel(s)) /\ B!ByOrder(t, D) = B!Listed(D, Rel(t))
    BY Zenon DEF B!ByOrder
  <1> QED BY <1>1, <1>2, Zenon

\* The orders of D are the numbers below m, once each.
DenseAt(s, D, m) == /\ \A a \in D : s[a].order \in 0..(m - 1)
                    /\ \A o \in 0..(m - 1) : \E a \in D : s[a].order = o
                    /\ \A a, b \in D : s[a].order = s[b].order => a = b

LEMMA Density ==
    ASSUME NEW D, IsFiniteSet(D), NEW s,
           {s[a].order : a \in D} = 0..(Cardinality(D) - 1)
    PROVE  DenseAt(s, D, Cardinality(D))
  <1> DEFINE m == Cardinality(D)
             N == 0..(m - 1)
             f == [a \in D |-> s[a].order]
  <1>1. m \in Nat
    BY FS_CardinalityType
  <1>2. f \in [D -> N] /\ \A o \in N : \E a \in D : f[a] = o
    <2> HIDE DEF m
    <2>1. {s[a].order : a \in D} = N
      BY DEF m
    <2> HIDE DEF N
    <2> QED BY <2>1
  <1>3. f \in Surjection(D, N)
    <2> HIDE DEF f, N
    <2> QED BY <1>2 DEF Surjection
  <1>4. IsFiniteSet(N) /\ Cardinality(N) = m
    <2> HIDE DEF m
    <2> QED BY <1>1, FS_Interval
  <1>5. f \in Injection(D, N)
    <2> HIDE DEF f, N
    <2> QED BY <1>3, <1>4, FS_Surjection
  <1>6. \A a, b \in D : f[a] = f[b] => a = b
    <2> HIDE DEF f, N
    <2> QED BY <1>5 DEF Injection, IsInjective
  <1>7. \A a \in D : f[a] = s[a].order
    OBVIOUS
  <1>8. \A a \in D : f[a] \in N
    <2> HIDE DEF f, N
    <2> QED BY <1>2
  <1> HIDE DEF f
  <1> QED BY <1>2, <1>6, <1>7, <1>8 DEF DenseAt

\* The list of such a column.
LEMMA DenseList ==
    ASSUME NEW D \in SUBSET Nat, IsFiniteSet(D), NEW s, DenseAt(s, D, Cardinality(D))
    PROVE  /\ B!ByOrder(s, D) \in [1..Cardinality(D) -> D]
           /\ \A p \in 1..Cardinality(D) : s[B!ByOrder(s, D)[p]].order = p - 1
           /\ InOrder(B!ByOrder(s, D), s, D, Cardinality(D))
  <1> DEFINE m == Cardinality(D)
             l == [p \in 1..m |-> CHOOSE a \in D : s[a].order = p - 1]
  <1>1. m \in Nat
    BY FS_CardinalityType
  <1>2. DenseAt(s, D, m)
    OBVIOUS
  <1>3. Numbers(s, D)
    <2> HIDE DEF m
    <2> QED BY <1>1, <1>2 DEF Numbers, DenseAt
  <1>4. ASSUME NEW p \in 1..m PROVE l[p] \in D /\ s[l[p]].order = p - 1
    <2>1. l[p] = CHOOSE a \in D : s[a].order = p - 1
      OBVIOUS
    <2>2. \E a \in D : s[a].order = p - 1
      <3>1. p - 1 \in 0..(m - 1)
        <4> HIDE DEF m
        <4> QED BY <1>1
      <3> HIDE DEF m, l
      <3> QED BY <1>2, <3>1 DEF DenseAt
    <2> HIDE DEF l, m
    <2> QED BY <2>1, <2>2
  <1>5. l \in [1..m -> D]
    BY <1>4
  <1> HIDE DEF l
  <1>6. \A a \in D : \E p \in 1..m : l[p] = a
    <2>1. ASSUME NEW a \in D PROVE \E p \in 1..m : l[p] = a
      <3> HIDE DEF m
      <3>1. s[a].order \in 0..(m - 1)
        BY <1>2 DEF DenseAt
      <3>2. s[a].order + 1 \in 1..m /\ (s[a].order + 1) - 1 = s[a].order
        BY <1>1, <3>1
      <3>3. l[s[a].order + 1] \in D /\ s[l[s[a].order + 1]].order = s[a].order
        BY <1>4, <3>2
      <3> QED BY <1>2, <3>2, <3>3 DEF DenseAt
    <2> QED BY <2>1
  <1>7. \A p, q \in 1..m : p < q => s[l[p]].order < s[l[q]].order
    <2> HIDE DEF m
    <2> QED BY <1>1, <1>4
  <1>8. InOrder(l, s, D, m)
    <2> HIDE DEF m
    <2> QED BY <1>5, <1>6, <1>7, Zenon DEF InOrder
  <1>9. B!ByOrder(s, D) = l
    BY <1>3, <1>8, ByOrderLists
  <1> HIDE DEF m
  <1> QED BY <1>4, <1>5, <1>8, <1>9 DEF m

(***************************************************************************)
(* Where a dropped card lands.                                               *)
(***************************************************************************)
\* A card dropped above another of a column without gaps is right above it.
LEMMA LandsAbove ==
    ASSUME NEW N \in Nat, NEW s \in [1..N -> AnyCard], NEW i \in 1..N, NEW c \in BoardColumns,
           NEW k \in Nat, NEW r, NEW t, NEW C, NEW n, NEW w,
           MoveIs(N, s, i, c, k, r, t, C, n, w),
           \A a, b \in C \ {i} : s[a].order = s[b].order => a = b,
           NEW a \in C, a # i, s[a].order = k, NEW p \in 1..n, w[p] = i
    PROVE  p < n /\ w[p + 1] = a
  <1>1. /\ t \in [1..N -> AnyCard] /\ C \subseteq 1..N /\ n \in Nat
        /\ Permutes(w, C, n) /\ Ordered(w, t, i, n, n)
        /\ \A j \in C : j # i => t[j].order = s[j].order
    BY DEF MoveIs
  <1>2. t[i].order = k
    <2>1. t[i] = At(s[i], c, k) /\ s[i] \in AnyCard
      BY DEF MoveIs
    <2> QED BY <2>1, CardParts
  <1>3. PICK q \in 1..n : w[q] = a
    BY <1>1, Zenon DEF Permutes
  <1>4. t[a].order = k
    BY <1>1
  <1>5. p < q
    <2>1. SUFFICES ASSUME q <= p PROVE FALSE
      OBVIOUS
    <2>2. p \in q..n
      BY <2>1
    <2>3. ~B!OutOfOrder(t, i, a, i)
      BY <1>1, <1>3, <2>2 DEF Ordered
    <2> QED BY <1>2, <1>4, <2>3 DEF B!OutOfOrder
  <1>6. p < n /\ p + 1 \in 1..n /\ p + 1 \in p..n /\ q \in (p + 1)..n
    BY <1>1, <1>5
  <1> DEFINE x == w[p + 1]
  <1>7. x \in C /\ x # i
    <2>1. x \in C
      BY <1>1, <1>6 DEF Permutes
    <2>2. x = i => p + 1 = p
      BY <1>1, <1>6, Zenon DEF Permutes
    <2> QED BY <2>1, <2>2
  <1>8. ~B!OutOfOrder(t, i, i, x) /\ ~B!OutOfOrder(t, i, x, a)
    BY <1>1, <1>3, <1>6 DEF Ordered
  <1>9. t[x].order \in Nat /\ t[x].order = s[x].order
    BY <1>1, <1>7 DEF AnyCard
  <1> HIDE DEF x
  <1>10. s[x].order = k
    BY <1>2, <1>4, <1>8, <1>9 DEF B!OutOfOrder
  <1>11. x = a
    BY <1>7, <1>10
  <1> QED BY <1>6, <1>11 DEF x

\* One dropped below all others is the last.
LEMMA LandsLast ==
    ASSUME NEW N \in Nat, NEW s \in [1..N -> AnyCard], NEW i \in 1..N, NEW c \in BoardColumns,
           NEW k \in Nat, NEW r, NEW t, NEW C, NEW n, NEW w,
           MoveIs(N, s, i, c, k, r, t, C, n, w),
           \A a \in C \ {i} : s[a].order < k,
           NEW p \in 1..n, w[p] = i
    PROVE  p = n
  <1>1. /\ t \in [1..N -> AnyCard] /\ C \subseteq 1..N /\ n \in Nat
        /\ Permutes(w, C, n) /\ Ordered(w, t, i, n, n)
        /\ \A j \in C : j # i => t[j].order = s[j].order
    BY DEF MoveIs
  <1>2. t[i].order = k
    <2>1. t[i] = At(s[i], c, k) /\ s[i] \in AnyCard
      BY DEF MoveIs
    <2> QED BY <2>1, CardParts
  <1>3. SUFFICES ASSUME p < n PROVE FALSE
    BY <1>1
  <1>4. p + 1 \in 1..n /\ p + 1 \in p..n
    BY <1>1, <1>3
  <1> DEFINE x == w[p + 1]
  <1>5. x \in C /\ x # i
    <2>1. x \in C
      BY <1>1, <1>4 DEF Permutes
    <2>2. x = i => p + 1 = p
      BY <1>1, <1>4, Zenon DEF Permutes
    <2> QED BY <2>1, <2>2
  <1>6. ~B!OutOfOrder(t, i, i, x)
    BY <1>1, <1>4 DEF Ordered
  <1>7. t[x].order \in Nat /\ t[x].order < k
    BY <1>1, <1>5 DEF AnyCard
  <1> HIDE DEF x
  <1> QED BY <1>2, <1>6, <1>7 DEF B!OutOfOrder

(***************************************************************************)
(* The tab's renumbering.                                                    *)
(***************************************************************************)
\* v is u with i after the first k.
Inserted(v, u, n, k, i) ==
    \A p \in 1..n : v[p] = IF p <= k THEN u[p] ELSE IF p = k + 1 THEN i ELSE u[p - 1]

LEMMA Inserting ==
    ASSUME NEW X, NEW m \in Nat, NEW u \in [1..m -> X], NEW k \in 0..m, NEW i
    PROVE  LET v == B!InsertAt(u, k + 1, i)
           IN  v \in [1..(m + 1) -> X \cup {i}] /\ Inserted(v, u, m + 1, k, i)
  <1> DEFINE a == SubSeq(u, 1, k)
             b == SubSeq(u, k + 1, m)
             v == B!InsertAt(u, k + 1, i)
             Y == X \cup {i}
  <1>1. u \in Seq(Y) /\ Len(u) = m
    <2>1. u \in Seq(X) /\ Len(u) = m
      BY Lengthy
    <2>2. u \in [1..m -> Y]
      OBVIOUS
    <2> QED BY <2>1, <2>2, Lengthy
  <1>2. v = (a \o <<i>>) \o b
    <2>1. (k + 1) - 1 = k
      OBVIOUS
    <2> QED BY <1>1, <2>1, Zenon DEF B!InsertAt
  <1> HIDE DEF v
  <1>3. a \in Seq(Y) /\ Len(a) = k /\ \A p \in 1..k : a[p] = u[p]
    BY <1>1
  <1>4. b \in Seq(Y) /\ Len(b) = m - k /\ \A p \in 1..(m - k) : b[p] = u[p + k]
    BY <1>1
  <1> HIDE DEF a, b
  <1> DEFINE e == a \o <<i>>
  <1>5. e \in Seq(Y) /\ Len(e) = k + 1 /\ \A p \in 1..(k + 1) : e[p] = IF p <= k THEN u[p] ELSE i
    <2>1. <<i>> \in Seq(Y) /\ Len(<<i>>) = 1 /\ <<i>>[1] = i
      OBVIOUS
    <2>2. /\ e \in Seq(Y) /\ Len(e) = Len(a) + Len(<<i>>)
          /\ \A p \in 1..Len(a) + Len(<<i>>) :
                e[p] = IF p <= Len(a) THEN a[p] ELSE <<i>>[p - Len(a)]
      BY <1>3, <2>1, ConcatProperties
    <2> HIDE DEF e
    <2>3. \A p \in 1..(k + 1) : e[p] = IF p <= k THEN a[p] ELSE <<i>>[p - k]
      BY <1>3, <2>1, <2>2
    <2>4. ASSUME NEW p \in 1..(k + 1) PROVE e[p] = IF p <= k THEN u[p] ELSE i
      <3>1. CASE p <= k
        BY <1>3, <2>3, <3>1
      <3>2. CASE ~(p <= k)
        <4>1. p - k = 1
          BY <3>2
        <4> QED BY <2>1, <2>3, <3>2, <4>1
      <3> QED BY <3>1, <3>2
    <2>5. Len(e) = k + 1
      BY <1>3, <2>1, <2>2
    <2> QED BY <2>2, <2>4, <2>5
  <1> HIDE DEF e
  <1>6. v = e \o b
    BY <1>2 DEF e
  <1>7. /\ v \in Seq(Y) /\ Len(v) = Len(e) + Len(b)
        /\ \A p \in 1..Len(e) + Len(b) : v[p] = IF p <= Len(e) THEN e[p] ELSE b[p - Len(e)]
    BY <1>4, <1>5, <1>6, ConcatProperties
  <1>8. Len(e) = k + 1 /\ Len(e) + Len(b) = m + 1
    BY <1>4, <1>5
  <1>9. \A p \in 1..(m + 1) : v[p] = IF p <= k + 1 THEN e[p] ELSE b[p - (k + 1)]
    BY <1>7, <1>8
  <1>10. ASSUME NEW p \in 1..(m + 1)
         PROVE  v[p] = IF p <= k THEN u[p] ELSE IF p = k + 1 THEN i ELSE u[p - 1]
    <2>1. CASE p <= k
      BY <1>5, <1>9, <2>1
    <2>2. CASE p = k + 1
      BY <1>5, <1>9, <2>2
    <2>3. CASE p > k + 1
      <3>1. p - (k + 1) \in 1..(m - k) /\ (p - (k + 1)) + k = p - 1 /\ ~(p <= k + 1) /\ ~(p <= k)
        BY <2>3
      <3>2. v[p] = b[p - (k + 1)] /\ b[p - (k + 1)] = u[p - 1]
        BY <1>4, <1>9, <3>1
      <3> QED BY <2>3, <3>1, <3>2
    <2>4. p <= k \/ p = k + 1 \/ p > k + 1
      OBVIOUS
    <2> QED BY <2>1, <2>2, <2>3, <2>4
  <1>11. v \in [1..(m + 1) -> Y]
    <2>1. v \in [1..Len(v) -> Y]
      BY <1>7, LenProperties, ElementOfSeq, SeqDef
    <2> QED BY <1>7, <1>8, <2>1
  <1> QED BY <1>10, <1>11 DEF v, Inserted

\* The rest of a column without gaps: the first k of it are those below k.
LEMMA RestList ==
    ASSUME NEW D \in SUBSET Nat, IsFiniteSet(D), NEW s, DenseAt(s, D, Cardinality(D)),
           NEW k \in 0..Cardinality(D), NEW i, i \in D => k <= s[i].order
    PROVE  LET X == D \ {i}
               u == B!ByOrder(s, X)
           IN  /\ IsFiniteSet(X) /\ Cardinality(X) \in Nat /\ k <= Cardinality(X)
               /\ InOrder(u, s, X, Cardinality(X))
               /\ \A p \in 1..Cardinality(X) : s[u[p]].order < k <=> p <= k
  <1> DEFINE m == Cardinality(D)
             X == D \ {i}
             l == B!ByOrder(s, D)
  <1>1. m \in Nat
    BY FS_CardinalityType
  <1>2. /\ l \in [1..m -> D] /\ \A p \in 1..m : s[l[p]].order = p - 1
        /\ InOrder(l, s, D, m)
    BY DenseList
  <1>3. \A a \in D : s[a].order \in 0..(m - 1)
    BY DEF DenseAt
  <1>4. \A a, b \in D : s[a].order = s[b].order => a = b
    BY DEF DenseAt
  <1>5. CASE i \notin D
    <2>1. X = D
      BY <1>5
    <2>2. \A p \in 1..m : s[l[p]].order < k <=> p <= k
      <3> HIDE DEF l, m
      <3>1. k \in Nat
        BY <1>1
      <3> QED BY <1>2, <3>1
    <2>3. k <= m
      <3>1. k \in 0..m
        OBVIOUS
      <3> HIDE DEF m
      <3> QED BY <1>1, <3>1
    <2> QED BY <1>1, <1>2, <2>1, <2>2, <2>3
  <1>6. CASE i \in D
    <2> DEFINE o == s[i].order
               v == [p \in 1..(m - 1) |-> IF p <= o THEN l[p] ELSE l[p + 1]]
    <2>1. IsFiniteSet(X) /\ Cardinality(X) = m - 1
      BY <1>6, FS_RemoveElement
    <2>2. o \in 0..(m - 1) /\ k <= o
      BY <1>3, <1>6
    <2> HIDE DEF m, l
    <2>3. o \in Nat /\ m - 1 \in Nat /\ k \in Nat /\ k <= m - 1
      BY <1>1, <2>2
    <2> HIDE DEF o
    <2>4. ASSUME NEW p \in 1..(m - 1)
          PROVE  /\ v[p] \in X
                 /\ s[v[p]].order = IF p <= o THEN p - 1 ELSE p
      <3>1. p \in 1..m /\ p + 1 \in 1..m /\ (p + 1) - 1 = p
        BY <1>1
      <3>2. CASE p <= o
        <4>1. v[p] = l[p]
          BY <3>2
        <4>2. l[p] \in D /\ s[l[p]].order = p - 1 /\ p - 1 # o
          BY <1>2, <2>3, <3>1, <3>2
        <4>3. l[p] # i
          BY <4>2 DEF o
        <4> HIDE DEF v
        <4> QED BY <3>2, <4>1, <4>2, <4>3
      <3>3. CASE ~(p <= o)
        <4>1. v[p] = l[p + 1]
          BY <3>3
        <4>2. l[p + 1] \in D /\ s[l[p + 1]].order = p /\ p # o
          BY <1>2, <2>3, <3>1, <3>3
        <4>3. l[p + 1] # i
          BY <4>2 DEF o
        <4> HIDE DEF v
        <4> QED BY <3>3, <4>1, <4>2, <4>3
      <3> QED BY <3>2, <3>3
    <2>5. v \in [1..(m - 1) -> X]
      BY <2>4
    <2> HIDE DEF v
    <2>6. \A a \in X : \E p \in 1..(m - 1) : v[p] = a
      <3>1. ASSUME NEW a \in X PROVE \E p \in 1..(m - 1) : v[p] = a
        <4>1. a \in D /\ s[a].order \in 0..(m - 1) /\ s[a].order # o
          BY <1>3, <1>4, <1>6 DEF o
        <4> DEFINE p == IF s[a].order < o THEN s[a].order + 1 ELSE s[a].order
        <4>2. p \in 1..(m - 1) /\ s[a].order = IF p <= o THEN p - 1 ELSE p
          BY <2>2, <2>3, <4>1
        <4> HIDE DEF p
        <4>3. v[p] \in X /\ s[v[p]].order = s[a].order
          BY <2>4, <4>2
        <4> QED BY <1>4, <4>1, <4>2, <4>3
      <3> QED BY <3>1
    <2>7. \A p, q \in 1..(m - 1) : p < q => s[v[p]].order < s[v[q]].order
      BY <2>3, <2>4
    <2>8. InOrder(v, s, X, m - 1)
      BY <2>5, <2>6, <2>7, Zenon DEF InOrder
    <2>9. Numbers(s, X)
      BY <1>1, <1>3 DEF Numbers
    <2>10. X \in SUBSET Nat
      OBVIOUS
    <2> HIDE DEF X
    <2>11. B!ByOrder(s, X) = v
      BY <2>1, <2>8, <2>9, <2>10, ByOrderLists
    <2>12. \A p \in 1..(m - 1) : s[v[p]].order < k <=> p <= k
      BY <2>2, <2>3, <2>4
    <2> QED BY <2>1, <2>3, <2>8, <2>11, <2>12 DEF X
  <1> QED BY <1>5, <1>6

LEMMA Least == ASSUME NEW a \in Nat, NEW b \in Nat, a <= b PROVE B!Min({a, b}) = a
  <1> DEFINE m == CHOOSE x \in {a, b} : \A y \in {a, b} : x <= y
  <1>1. m \in {a, b} /\ \A y \in {a, b} : m <= y
    <2>1. \E x \in {a, b} : \A y \in {a, b} : x <= y
      OBVIOUS
    <2> QED BY <2>1, Zenon
  <1>2. B!Min({a, b}) = m
    BY DEF B!Min
  <1> HIDE DEF m
  <1> QED BY <1>1, <1>2

\* The tab's list, with the card at place k or at the end.
Into(u, k, i) == B!InsertAt(u, B!Min({k, Len(u)}) + 1, i)

LEMMA IntoPermutes ==
    ASSUME NEW X, NEW m \in Nat, NEW u, Permutes(u, X, m), NEW i, i \notin X, NEW k \in Nat
    PROVE  Permutes(Into(u, k, i), X \cup {i}, m + 1)
  <1> DEFINE h == B!Min({k, m})
             v == B!InsertAt(u, h + 1, i)
  <1>1. u \in [1..m -> X] /\ Len(u) = m
    BY Lengthy DEF Permutes
  <1>2. h \in 0..m
    <2>1. CASE k <= m
      BY <2>1, Least
    <2>2. CASE ~(k <= m)
      <3>1. m <= k /\ {k, m} = {m, k}
        BY <2>2
      <3>2. B!Min({m, k}) = m
        BY <3>1, Least
      <3> QED BY <3>1, <3>2
    <2> QED BY <2>1, <2>2
  <1>3. Into(u, k, i) = v
    BY <1>1, Zenon DEF Into
  <1> HIDE DEF h
  <1>4. v \in [1..(m + 1) -> X \cup {i}] /\ Inserted(v, u, m + 1, h, i)
    BY <1>1, <1>2, Inserting
  <1> HIDE DEF v
  <1>5. \A p \in 1..(m + 1) : v[p] = IF p <= h THEN u[p] ELSE IF p = h + 1 THEN i ELSE u[p - 1]
    BY <1>4 DEF Inserted
  <1>6. ASSUME NEW p \in 1..(m + 1)
        PROVE  \/ p <= h /\ p \in 1..m /\ v[p] = u[p] /\ v[p] \in X
               \/ p = h + 1 /\ v[p] = i
               \/ p > h + 1 /\ p - 1 \in 1..m /\ v[p] = u[p - 1] /\ v[p] \in X
    <2>1. CASE p <= h
      <3>1. p \in 1..m /\ v[p] = u[p]
        BY <1>2, <1>5, <2>1
      <3> QED BY <1>1, <2>1, <3>1
    <2>2. CASE p = h + 1
      BY <1>2, <1>5, <2>2
    <2>3. CASE p > h + 1
      <3>1. p - 1 \in 1..m /\ v[p] = u[p - 1]
        BY <1>2, <1>5, <2>3
      <3> QED BY <1>1, <2>3, <3>1
    <2> QED BY <1>2, <2>1, <2>2, <2>3
  <1>7. ASSUME NEW a \in X \cup {i} PROVE \E p \in 1..(m + 1) : v[p] = a
    <2>1. CASE a = i
      <3>1. h + 1 \in 1..(m + 1) /\ ~(h + 1 <= h)
        BY <1>2
      <3> QED BY <1>5, <2>1, <3>1
    <2>2. CASE a \in X
      <3>1. PICK q \in 1..m : u[q] = a
        BY <2>2, Zenon DEF Permutes
      <3>2. CASE q <= h
        <4>1. q \in 1..(m + 1)
          OBVIOUS
        <4> QED BY <1>5, <3>1, <3>2, <4>1
      <3>3. CASE ~(q <= h)
        <4>1. q + 1 \in 1..(m + 1) /\ ~(q + 1 <= h) /\ q + 1 # h + 1 /\ (q + 1) - 1 = q
          BY <1>2, <3>3
        <4>2. v[q + 1] = u[q]
          BY <1>5, <4>1
        <4> QED BY <3>1, <4>1, <4>2
      <3> QED BY <3>2, <3>3
    <2> QED BY <2>1, <2>2
  <1>8. ASSUME NEW p \in 1..(m + 1), NEW q \in 1..(m + 1), v[p] = v[q]
        PROVE  p = q
    <2>1. \A a, b \in 1..m : u[a] = u[b] => a = b
      BY Zenon DEF Permutes
    <2>2. CASE v[p] = i
      BY <1>6, <1>8, <2>2
    <2>3. CASE v[p] # i
      <3>1. \/ p <= h /\ p \in 1..m /\ v[p] = u[p]
            \/ p > h + 1 /\ p - 1 \in 1..m /\ v[p] = u[p - 1]
        BY <1>6, <2>3
      <3>2. \/ q <= h /\ q \in 1..m /\ v[q] = u[q]
            \/ q > h + 1 /\ q - 1 \in 1..m /\ v[q] = u[q - 1]
        BY <1>6, <1>8, <2>3
      <3> QED BY <1>2, <1>8, <2>1, <3>1, <3>2
    <2> QED BY <2>2, <2>3
  <1> QED BY <1>3, <1>4, <1>7, <1>8 DEF Permutes

\* In a column without gaps, unless it was moved down, the card comes to be where
\* MoveBoardItem puts it.
LEMMA InsertedAsSorted ==
    ASSUME NEW N \in Nat, NEW s \in [1..N -> AnyCard], NEW i \in 1..N, NEW c \in BoardColumns,
           NEW k \in Nat, NEW r, NEW t, NEW C, NEW n, NEW w,
           MoveIs(N, s, i, c, k, r, t, C, n, w),
           NEW D, C = D \cup {i}, IsFiniteSet(D), DenseAt(s, D, Cardinality(D)),
           k <= Cardinality(D), i \in D => k <= s[i].order
    PROVE  Into(B!ByOrder(s, D \ {i}), k, i) = w
  <1> DEFINE X == D \ {i}
             u == B!ByOrder(s, X)
             m == Cardinality(X)
             v == B!InsertAt(u, k + 1, i)
             before == {p \in C \X C : p[1] # p[2] /\ ~B!OutOfOrder(t, i, p[1], p[2])}
  <1>1. /\ t \in [1..N -> AnyCard] /\ C \subseteq 1..N /\ n \in Nat /\ n = Cardinality(C)
        /\ Permutes(w, C, n) /\ Ordered(w, t, i, n, n) /\ i \in C
        /\ \A j \in X : t[j].order = s[j].order
    BY DEF MoveIs
  <1>2. t[i].order = k
    <2>1. t[i] = At(s[i], c, k) /\ s[i] \in AnyCard
      BY DEF MoveIs
    <2> QED BY <2>1, CardParts
  <1>3. /\ IsFiniteSet(X) /\ m \in Nat /\ k <= m /\ k \in 0..m
        /\ InOrder(u, s, X, m)
        /\ \A p \in 1..m : s[u[p]].order < k <=> p <= k
    <2>1. D \in SUBSET Nat
      BY <1>1
    <2>2. k \in 0..Cardinality(D)
      BY FS_CardinalityType
    <2>3. /\ IsFiniteSet(X) /\ m \in Nat /\ k <= m
          /\ InOrder(u, s, X, m)
          /\ \A p \in 1..m : s[u[p]].order < k <=> p <= k
      BY <2>1, <2>2, RestList, Zenon
    <2>4. k \in 0..m
      <3> HIDE DEF m
      <3> QED BY <2>3
    <2> QED BY <2>3, <2>4
  <1>4. n = m + 1 /\ C = X \cup {i} /\ i \notin X
    <2>1. C = X \cup {i} /\ i \notin X
      OBVIOUS
    <2>2. Cardinality(X \cup {i}) = m + 1
      <3> HIDE DEF X
      <3> QED BY <1>3, <2>1, FS_AddElement
    <2> QED BY <1>1, <2>1, <2>2
  <1> HIDE DEF X, m, u
  <1>5. u \in [1..m -> X]
    BY <1>3 DEF InOrder
  <1>6. /\ v \in [1..n -> C]
        /\ \A p \in 1..n : v[p] = IF p <= k THEN u[p] ELSE IF p = k + 1 THEN i ELSE u[p - 1]
    <2>1. v \in [1..(m + 1) -> X \cup {i}] /\ Inserted(v, u, m + 1, k, i)
      BY <1>3, <1>5, Inserting
    <2> HIDE DEF v
    <2>2. v \in [1..n -> C] /\ Inserted(v, u, n, k, i)
      BY <1>4, <2>1, Zenon
    <2> QED BY <2>2 DEF Inserted
  <1> HIDE DEF v
  <1>7. Numbers(t, C)
    BY <1>1 DEF Numbers, AnyCard
  <1>8. ASSUME NEW a \in C, NEW b \in C
        PROVE  <<a, b>> \in before <=> a # b /\ ~B!OutOfOrder(t, i, a, b)
    OBVIOUS
  <1> HIDE DEF before
  <1>9. \A a, b \in X : s[a].order = s[b].order => a = b
    BY DEF DenseAt, X
  <1>10. \A a, b \in C : a # b => B!OutOfOrder(t, i, a, b) \/ B!OutOfOrder(t, i, b, a)
    <2>1. ASSUME NEW a \in C, NEW b \in C, a # b, t[a].order = t[b].order
          PROVE  a = i \/ b = i
      <3>1. SUFFICES ASSUME a # i, b # i PROVE FALSE
        OBVIOUS
      <3>2. a \in X /\ b \in X
        BY <1>4, <3>1
      <3>3. s[a].order = s[b].order
        BY <1>1, <2>1, <3>2
      <3> QED BY <1>9, <2>1, <3>2, <3>3
    <2>2. ASSUME NEW a \in C, NEW b \in C, a # b
          PROVE  B!OutOfOrder(t, i, a, b) \/ B!OutOfOrder(t, i, b, a)
      <3>1. t[a].order \in Nat /\ t[b].order \in Nat
        BY <1>7 DEF Numbers
      <3>2. CASE t[a].order = t[b].order
        BY <2>1, <2>2, <3>2 DEF B!OutOfOrder
      <3>3. CASE t[a].order # t[b].order
        BY <3>1, <3>3 DEF B!OutOfOrder
      <3> QED BY <3>2, <3>3
    <2> QED BY <2>2
  <1>11. Orders(C, before)
    <2>1. \A a \in C : <<a, a>> \notin before
      BY <1>8
    <2>2. \A a, b \in C : a # b => <<a, b>> \in before \/ <<b, a>> \in before
      <3>1. \A a, b \in C : B!OutOfOrder(t, i, a, b) => ~B!OutOfOrder(t, i, b, a)
        BY <1>7, OutOfOrderOrders
      <3> QED BY <1>8, <3>1
    <2>3. ASSUME NEW a \in C, NEW b \in C, NEW d \in C, <<a, b>> \in before, <<b, d>> \in before
          PROVE  <<a, d>> \in before
      <3>1. /\ a # b /\ ~B!OutOfOrder(t, i, a, b) /\ b # d /\ ~B!OutOfOrder(t, i, b, d)
        BY <1>8, <2>3
      <3>2. ~B!OutOfOrder(t, i, a, d)
        BY <1>7, <3>1, OutOfOrderOrders
      <3>3. a # d
        BY <1>10, <3>1
      <3> QED BY <1>8, <3>2, <3>3
    <2> QED BY <2>1, <2>2, <2>3 DEF Orders
  <1>12. Lists(w, C, before, n)
    <2>1. w \in [1..n -> C] /\ \A a \in C : \E p \in 1..n : w[p] = a
      BY <1>1, Zenon DEF Permutes
    <2>2. ASSUME NEW p \in 1..n, NEW q \in 1..n, p < q
          PROVE  <<w[p], w[q]>> \in before
      <3>1. q \in p..n
        BY <2>2
      <3>2. ~B!OutOfOrder(t, i, w[p], w[q])
        BY <1>1, <3>1 DEF Ordered
      <3>3. w[p] # w[q]
        <4>1. p # q
          BY <2>2
        <4> QED BY <1>1, <4>1, Zenon DEF Permutes
      <3> QED BY <1>8, <2>1, <3>2, <3>3
    <2> QED BY <2>1, <2>2 DEF Lists
  <1>13. ASSUME NEW p \in 1..n
         PROVE  /\ p <= k => p \in 1..m /\ v[p] = u[p] /\ v[p] \in X /\ t[v[p]].order < k
                /\ p = k + 1 => v[p] = i
                /\ p > k + 1 => /\ p - 1 \in 1..m /\ v[p] = u[p - 1] /\ v[p] \in X
                                /\ t[v[p]].order >= k
    <2>1. CASE p <= k
      <3>1. p \in 1..m /\ v[p] = u[p]
        BY <1>3, <1>6, <2>1
      <3>2. u[p] \in X /\ s[u[p]].order < k
        BY <1>3, <1>5, <2>1, <3>1
      <3> QED BY <1>1, <2>1, <3>1, <3>2
    <2>2. CASE p = k + 1
      BY <1>6, <2>2
    <2>3. CASE p > k + 1
      <3>1. p - 1 \in 1..m /\ v[p] = u[p - 1] /\ ~(p - 1 <= k)
        BY <1>3, <1>4, <1>6, <2>3
      <3>2. u[p - 1] \in X /\ ~(s[u[p - 1]].order < k)
        BY <1>3, <1>5, <3>1
      <3>3. t[v[p]].order = s[u[p - 1]].order /\ t[v[p]].order \in Nat
        BY <1>1, <1>4, <1>7, <3>1, <3>2 DEF Numbers
      <3> QED BY <2>3, <3>1, <3>2, <3>3
    <2>4. p <= k \/ p = k + 1 \/ p > k + 1
      OBVIOUS
    <2> QED BY <2>1, <2>2, <2>3, <2>4
  <1>14. \A a \in C : \E p \in 1..n : v[p] = a
    <2>1. ASSUME NEW a \in C PROVE \E p \in 1..n : v[p] = a
      <3>1. CASE a = i
        <4>1. k + 1 \in 1..n
          BY <1>3, <1>4
        <4> QED BY <1>13, <3>1, <4>1
      <3>2. CASE a # i
        <4>1. PICK q \in 1..m : u[q] = a
          BY <1>3, <1>4, <3>2 DEF InOrder
        <4>2. CASE q <= k
          <5>1. q \in 1..n
            BY <1>3, <1>4
          <5> QED BY <1>6, <4>1, <4>2, <5>1
        <4>3. CASE ~(q <= k)
          <5>1. q + 1 \in 1..n /\ ~(q + 1 <= k) /\ q + 1 # k + 1 /\ (q + 1) - 1 = q
            BY <1>3, <1>4, <4>3
          <5>2. v[q + 1] = u[q]
            BY <1>6, <5>1
          <5> QED BY <4>1, <5>1, <5>2
        <4> QED BY <4>2, <4>3
      <3> QED BY <3>1, <3>2
    <2> QED BY <2>1
  <1>15. ASSUME NEW p \in 1..n, NEW q \in 1..n, p < q
         PROVE  <<v[p], v[q]>> \in before
    <2>1. v[p] \in C /\ v[q] \in C
      BY <1>6
    <2>2. t[v[p]].order \in Nat /\ t[v[q]].order \in Nat
      BY <1>7, <2>1 DEF Numbers
    <2>3. CASE p = k + 1
      <3>1. v[p] = i /\ q > k + 1
        BY <1>13, <1>15, <2>3
      <3>2. v[q] \in X /\ t[v[q]].order >= k
        BY <1>13, <3>1
      <3>3. ~B!OutOfOrder(t, i, v[p], v[q]) /\ v[p] # v[q]
        BY <1>2, <1>4, <2>2, <3>1, <3>2 DEF B!OutOfOrder
      <3> QED BY <1>8, <2>1, <3>3
    <2>4. CASE q = k + 1
      <3>1. v[q] = i /\ p <= k
        BY <1>13, <1>15, <2>4
      <3>2. v[p] \in X /\ t[v[p]].order < k
        BY <1>13, <3>1
      <3>3. ~B!OutOfOrder(t, i, v[p], v[q]) /\ v[p] # v[q]
        BY <1>2, <1>4, <2>2, <3>1, <3>2 DEF B!OutOfOrder
      <3> QED BY <1>8, <2>1, <3>3
    <2>5. CASE p # k + 1 /\ q # k + 1
      <3> DEFINE x == IF p <= k THEN p ELSE p - 1
                 y == IF q <= k THEN q ELSE q - 1
      <3>1. x \in 1..m /\ v[p] = u[x] /\ v[p] \in X
        BY <1>13, <2>5
      <3>2. y \in 1..m /\ v[q] = u[y] /\ v[q] \in X
        BY <1>13, <2>5
      <3>3. x < y
        BY <1>15, <2>5
      <3> HIDE DEF x, y
      <3>4. s[u[x]].order < s[u[y]].order
        BY <1>3, <3>1, <3>2, <3>3 DEF InOrder
      <3>5. t[v[p]].order < t[v[q]].order
        BY <1>1, <3>1, <3>2, <3>4
      <3>6. ~B!OutOfOrder(t, i, v[p], v[q]) /\ v[p] # v[q]
        BY <2>2, <3>5 DEF B!OutOfOrder
      <3> QED BY <1>8, <2>1, <3>6
    <2> QED BY <2>3, <2>4, <2>5
  <1>16. Lists(v, C, before, n)
    BY <1>6, <1>14, <1>15 DEF Lists
  <1>17. v = w
    BY <1>1, <1>11, <1>12, <1>16, OneList
  <1>18. B!Min({k, Len(u)}) = k
    <2>1. Len(u) = m
      BY <1>3, <1>5, Lengthy
    <2> QED BY <1>3, <2>1, Least
  <1> QED BY <1>17, <1>18, Zenon DEF Into, v, u, X

(***************************************************************************)
(* The invariant of a board.                                                 *)
(***************************************************************************)
Size == Cardinality(DOMAIN cards)

Kept(s, X, N) == s \in [X -> AnyCard] /\ \A j \in X : s[j].order <= B!LastPlace + N

IsAdd(q, N) == \E c \in BoardColumns, k \in 0..(B!LastPlace + N + 1) :
                  q = [kind |-> "add", col |-> c, index |-> k]
IsAdded(q, N) == \E i \in 1..N, x \in AnyCard :
                    /\ x.board = "ours" /\ x.order <= B!LastPlace + N
                    /\ q = [kind |-> "added", card |-> i, item |-> x]
IsDrop(q, V) == \E d \in {"drop", "dropped"}, i \in V, c \in BoardColumns, k \in Nat : \E a :
                   q = [kind |-> d, card |-> i, col |-> c, index |-> k, above |-> a]

\* Cards are numbered without gaps and none has an order beyond what their number allows.
BoardTypes ==
    /\ Size \in 0..Cardinality(Cards) /\ DOMAIN cards = 1..Size /\ Kept(cards, 1..Size, Size)
    /\ DOMAIN view \subseteq 1..Size /\ Kept(view, DOMAIN view, Size)
    /\ \A i \in DOMAIN view : view[i].board = "ours"
    /\ \A h \in handlers : /\ h.card \in 1..Size /\ h.copy \in AnyCard
                           /\ h.copy.order <= B!LastPlace + Size
    /\ \A h, g \in handlers : h = g
    /\ request = B!Idle \/ IsAdd(request, Size) \/ IsAdded(request, Size)
       \/ IsDrop(request, DOMAIN view)
    /\ foreign \in BOOLEAN /\ loose \in BOOLEAN

\* But for a race that is known, what a handler holds is where the card is.
BoardFresh ==
    ~loose => /\ ~B!Ties(cards)
              /\ \A h \in handlers : /\ h.copy.board = cards[h.card].board
                                     /\ h.copy.col = cards[h.card].col
                                     /\ h.copy.order = cards[h.card].order

\* The request of a drop says what the tab saw.
Aimed(v, c, k, a) ==
    \E n \in 1..(Len(B!Shown(v, c)) + 1) :
       \/ n <= Len(B!Shown(v, c)) /\ k = n - 1 /\ a = B!Shown(v, c)[n]
       \/ n > Len(B!Shown(v, c)) /\ k = B!Cardinality(B!InColumn(v, "ours", c)) /\ a = 0

BoardAsked == request.kind = "drop" =>
                 /\ ~view[request.card].archived
                 /\ Aimed(view, request.col, request.index, request.above)

\* The tab's copy is exact, but for what it is told with the answer.
BoardExact ==
    ~foreign =>
       /\ request.kind \in {"none", "add", "drop"} => view = B!Fetched
       /\ request.kind = "add" =>
             \A i \in B!InColumn(view, "ours", request.col) : view[i].order < request.index
       /\ request.kind = "drop" =>
             /\ B!Dense(view, request.col)
             /\ view[request.card].col = request.col => request.index <= view[request.card].order
       /\ request.kind = "dropped" =>
             B!Fetched = B!Rearranged(view, request.card, request.col, request.index)
       /\ request.kind = "added" =>
             B!Fetched = [j \in DOMAIN view \cup {request.card} |->
                             IF j = request.card THEN request.item ELSE view[j]]

BoardInv == BoardTypes /\ BoardFresh /\ BoardAsked /\ BoardExact

LEMMA LastPlaceIsNatural == B!LastPlace \in Nat
  BY DEF B!LastPlace

LEMMA CountOfCards == Cardinality(Cards) \in Nat
  <1>1. IsFiniteSet(Cards)
    BY ServerAssumption, Zenon DEF B!BoardOrderAssumption, B!IsFiniteSet, IsFiniteSet
  <1> QED BY <1>1, FS_CardinalityType

LEMMA Upto == ASSUME NEW N \in Nat PROVE IsFiniteSet(1..N) /\ Cardinality(1..N) = N
  BY FS_Interval

LEMMA SizeIsNatural == ASSUME BoardTypes PROVE Size \in Nat
  BY CountOfCards DEF BoardTypes

\* The kinds of request exclude each other.
LEMMA RequestKinds ==
    ASSUME BoardTypes
    PROVE  /\ request = B!Idle <=> request.kind = "none"
           /\ IsAdd(request, Size) <=> request.kind = "add"
           /\ IsAdded(request, Size) <=> request.kind = "added"
           /\ IsDrop(request, DOMAIN view) <=> request.kind \in {"drop", "dropped"}
  <1>1. request = B!Idle => request.kind = "none"
    BY DEF B!Idle
  <1>2. IsAdd(request, Size) => request.kind = "add"
    BY DEF IsAdd
  <1>3. IsAdded(request, Size) => request.kind = "added"
    BY DEF IsAdded
  <1>4. IsDrop(request, DOMAIN view) => request.kind \in {"drop", "dropped"}
    BY DEF IsDrop
  <1>5. request = B!Idle \/ IsAdd(request, Size) \/ IsAdded(request, Size)
        \/ IsDrop(request, DOMAIN view)
    BY DEF BoardTypes
  <1> QED BY <1>1, <1>2, <1>3, <1>4, <1>5

LEMMA DropFields ==
    ASSUME BoardTypes, request.kind \in {"drop", "dropped"}
    PROVE  /\ request.card \in DOMAIN view /\ request.card \in 1..Size
           /\ request.col \in BoardColumns /\ request.index \in Nat
  <1>1. IsDrop(request, DOMAIN view)
    BY RequestKinds
  <1>2. DOMAIN view \subseteq 1..Size
    BY DEF BoardTypes
  <1>3. request.card \in DOMAIN view /\ request.col \in BoardColumns /\ request.index \in Nat
    BY <1>1 DEF IsDrop
  <1> QED BY <1>2, <1>3

\* The cards of a board after a step that numbers none beyond.
LEMMA SizeStays ==
    ASSUME NEW N \in Nat, DOMAIN cards' = 1..N
    PROVE  Size' = N
  <1>1. Size' = Cardinality(DOMAIN cards')
    BY DEF Size
  <1> QED BY <1>1, Upto

\* What others do leaves the tab alone.
LEMMA Disturbing ==
    ASSUME BoardInv, UNCHANGED <<view, request>>, foreign' = TRUE, loose' \in BOOLEAN,
           DOMAIN cards' = 1..Size, Kept(cards', 1..Size, Size), handlers' \subseteq handlers,
           BoardFresh'
    PROVE  BoardInv'
  <1>1. Size \in Nat /\ Size' = Size
    BY SizeIsNatural, SizeStays DEF BoardInv
  <1>2. BoardTypes'
    BY <1>1 DEF BoardInv, BoardTypes
  <1>3. BoardAsked'
    BY DEF BoardInv, BoardAsked
  <1>4. BoardExact'
    BY Zenon DEF BoardExact
  <1> QED BY <1>2, <1>3, <1>4 DEF BoardInv

\* What a move leaves of what is known.
LEMMA CardsMoved ==
    ASSUME BoardTypes, NEW i \in 1..Size, NEW c \in BoardColumns, NEW k \in Nat
    PROVE  LET r == B!Moved(cards, i, c, k)
           IN  /\ DOMAIN r = 1..Size /\ Kept(r, 1..Size, Size)
               /\ \A j \in 1..Size : r[j].board = cards[j].board
               /\ ~B!Ties(cards) => ~B!Ties(r)
  <1> DEFINE r == B!Moved(cards, i, c, k)
  <1>1. Size \in Nat /\ cards \in [1..Size -> AnyCard] /\ DOMAIN cards = 1..Size
        /\ \A j \in 1..Size : cards[j].order <= B!LastPlace + Size
    BY SizeIsNatural DEF BoardTypes, Kept
  <1>2. PICK t, C, n, w : MoveIs(Size, cards, i, c, k, r, t, C, n, w)
    BY <1>1, Moving
  <1> HIDE DEF r
  <1>3. /\ DOMAIN r = 1..Size /\ C \subseteq 1..Size
        /\ \A j \in 1..Size : /\ r[j] \in AnyCard
                              /\ r[j].board = cards[j].board
                              /\ r[j].col = IF j = i THEN c ELSE cards[j].col
                              /\ j \notin C => r[j] = cards[j]
                              /\ j \in C => r[j].order < Size
        /\ \A a, b \in C : r[a].order = r[b].order => a = b
    BY <1>1, <1>2, MovedFields
  <1>4. C = {j \in 1..Size : t[j].board = cards[i].board /\ t[j].col = c} /\ i \in C
    BY <1>2 DEF MoveIs
  <1>5. \A j \in 1..Size : t[j].board = r[j].board /\ t[j].col = r[j].col
    <2>1. ASSUME NEW j \in 1..Size PROVE t[j].board = r[j].board /\ t[j].col = r[j].col
      <3>1. CASE j = i
        <4>1. t[i] = At(cards[i], c, k) /\ cards[i] \in AnyCard
          BY <1>1, <1>2 DEF MoveIs
        <4>2. t[i].board = cards[i].board /\ t[i].col = c
          BY <4>1, CardParts
        <4> QED BY <1>3, <3>1, <4>2
      <3>2. CASE j # i
        <4>1. t[j] = cards[j]
          BY <1>2, <3>2 DEF MoveIs
        <4> QED BY <1>3, <3>2, <4>1
      <3> QED BY <3>1, <3>2
    <2> QED BY <2>1
  <1>6. Kept(r, 1..Size, Size)
    <2>1. r \in [1..Size -> AnyCard]
      <3>1. r = [j \in DOMAIN r |-> r[j]]
        BY <1>2 DEF MoveIs, Placed, r, B!Moved, B!Renumbered
      <3> QED BY <1>3, <3>1
    <2>2. ASSUME NEW j \in 1..Size PROVE r[j].order <= B!LastPlace + Size
      <3>1. r[j].order \in Nat
        BY <1>3 DEF AnyCard
      <3> QED BY <1>1, <1>3, <3>1, LastPlaceIsNatural
    <2> QED BY <2>1, <2>2 DEF Kept
  <1>7. ASSUME ~B!Ties(cards), NEW a \in 1..Size, NEW b \in 1..Size, a # b,
               r[a].board = r[b].board, r[a].col = r[b].col, r[a].order = r[b].order
        PROVE  FALSE
    <2>1. CASE a \in C /\ b \in C
      BY <1>3, <1>7, <2>1
    <2>2. CASE a \notin C /\ b \notin C
      <3>1. r[a] = cards[a] /\ r[b] = cards[b]
        BY <1>3, <2>2
      <3> QED BY <1>1, <1>7, <3>1 DEF B!Ties
    <2>3. CASE (a \in C) # (b \in C)
      BY <1>4, <1>5, <1>7, <2>3
    <2> QED BY <2>1, <2>2, <2>3
  <1>8. ~B!Ties(cards) => ~B!Ties(r)
    BY <1>3, <1>7 DEF B!Ties
  <1> QED BY <1>3, <1>6, <1>8 DEF r

LEMMA FreshAfterMove ==
    ASSUME BoardTypes, BoardFresh, UNCHANGED handlers, loose' = (loose \/ B!Overtakes(cards, cards')),
           ~B!Ties(cards) => ~B!Ties(cards')
    PROVE  BoardFresh'
  <1> SUFFICES ASSUME ~loose'
               PROVE  /\ ~B!Ties(cards')
                      /\ \A h \in handlers : /\ h.copy.board = cards'[h.card].board
                                             /\ h.copy.col = cards'[h.card].col
                                             /\ h.copy.order = cards'[h.card].order
    BY DEF BoardFresh
  <1>1. ~loose /\ \A h \in handlers : cards[h.card] = cards'[h.card]
    BY DEF B!Overtakes
  <1> QED BY <1>1 DEF BoardFresh

LEMMA BoardOthersMove == ASSUME BoardInv, B!OthersMove PROVE BoardInv'
  <1>1. PICK i \in B!OnBoard(cards, "ours"), c \in BoardColumns, k \in 0..B!Cardinality(Cards) :
           /\ cards' = B!Moved(cards, i, c, k) /\ foreign' = TRUE
           /\ loose' = (loose \/ B!Overtakes(cards, cards'))
           /\ UNCHANGED <<view, request, handlers>>
    BY DEF B!OthersMove
  <1>2. i \in 1..Size /\ k \in Nat
    <2>1. DOMAIN cards = 1..Size
      BY DEF BoardInv, BoardTypes
    <2>2. k \in 0..Cardinality(Cards)
      BY BoardCardinality
    <2> QED BY <2>1, <2>2, CountOfCards DEF B!OnBoard
  <1>3. /\ DOMAIN cards' = 1..Size /\ Kept(cards', 1..Size, Size)
        /\ ~B!Ties(cards) => ~B!Ties(cards')
    BY <1>1, <1>2, CardsMoved DEF BoardInv
  <1>4. BoardFresh'
    BY <1>1, <1>3, FreshAfterMove DEF BoardInv
  <1>5. loose' \in BOOLEAN
    BY <1>1
  <1> QED BY <1>1, <1>3, <1>4, <1>5, Disturbing

LEMMA BoardMoveToBoard == ASSUME BoardInv, B!MoveToBoard PROVE BoardInv'
  <1>1. PICK i \in DOMAIN cards, b \in {"ours", "other"}, c \in BoardColumns :
           /\ cards' = [cards EXCEPT ![i] = [@ EXCEPT !.board = b, !.col = c,
                                                      !.order = B!LastPlace]]
           /\ foreign' = TRUE
           /\ loose' = (loose \/ B!Overtakes(cards, cards') \/ B!Ties(cards'))
           /\ UNCHANGED <<view, request, handlers>>
    BY DEF B!MoveToBoard
  <1>2. /\ Size \in Nat /\ DOMAIN cards = 1..Size /\ cards \in [1..Size -> AnyCard]
        /\ \A j \in 1..Size : cards[j].order <= B!LastPlace + Size
    BY SizeIsNatural DEF BoardInv, BoardTypes, Kept
  <1> DEFINE x == [cards[i] EXCEPT !.board = b, !.col = c, !.order = B!LastPlace]
  <1>3. x \in AnyCard /\ x.order = B!LastPlace
    <2>1. cards[i] \in AnyCard
      BY <1>2
    <2> QED BY <2>1, LastPlaceIsNatural DEF AnyCard
  <1>4. cards' = [cards EXCEPT ![i] = x]
    BY <1>1, Zenon
  <1> HIDE DEF x
  <1>5. DOMAIN cards' = 1..Size /\ Kept(cards', 1..Size, Size)
    BY <1>2, <1>3, <1>4, LastPlaceIsNatural DEF Kept
  <1>6. BoardFresh'
    <2> SUFFICES ASSUME ~loose'
                 PROVE  /\ ~B!Ties(cards')
                        /\ \A h \in handlers : /\ h.copy.board = cards'[h.card].board
                                               /\ h.copy.col = cards'[h.card].col
                                               /\ h.copy.order = cards'[h.card].order
      BY <1>1 DEF BoardFresh
    <2>1. /\ ~loose /\ ~B!Ties(cards')
          /\ \A h \in handlers : cards[h.card] = cards'[h.card]
      BY <1>1 DEF B!Overtakes
    <2> QED BY <2>1 DEF BoardInv, BoardFresh
  <1>7. loose' \in BOOLEAN
    BY <1>1
  <1> QED BY <1>1, <1>5, <1>6, <1>7, Disturbing

LEMMA BoardHandlerReads == ASSUME BoardInv, B!HandlerReads PROVE BoardInv'
  <1>1. PICK i \in B!OnBoard(cards, "ours"), a \in BOOLEAN :
           /\ handlers' = {[card |-> i, copy |-> [cards[i] EXCEPT !.archived = a]]}
           /\ UNCHANGED <<cards, view, request, foreign, loose>>
    BY DEF B!HandlerReads
  <1> DEFINE x == [cards[i] EXCEPT !.archived = a]
  <1>2. /\ Size \in Nat /\ DOMAIN cards = 1..Size /\ cards \in [1..Size -> AnyCard]
        /\ \A j \in 1..Size : cards[j].order <= B!LastPlace + Size
    BY SizeIsNatural DEF BoardInv, BoardTypes, Kept
  <1>3. i \in 1..Size /\ cards[i] \in AnyCard
    BY <1>2 DEF B!OnBoard
  <1>4. /\ x \in AnyCard /\ x.board = cards[i].board /\ x.col = cards[i].col
        /\ x.order = cards[i].order
    BY <1>3 DEF AnyCard
  <1>5. handlers' = {[card |-> i, copy |-> x]}
    BY <1>1
  <1> HIDE DEF x
  <1>6. \A h \in handlers' : h.card = i /\ h.copy = x
    BY <1>5
  <1>7. Size' = Size
    BY <1>1, <1>2, SizeStays
  <1>8. BoardTypes'
    <2>1. \A h, g \in handlers' : h = g
      BY <1>5
    <2>2. \A h \in handlers' : /\ h.card \in 1..Size /\ h.copy \in AnyCard
                               /\ h.copy.order <= B!LastPlace + Size
      BY <1>2, <1>3, <1>4, <1>6
    <2> QED BY <1>1, <1>7, <2>1, <2>2 DEF BoardInv, BoardTypes
  <1>9. BoardFresh'
    BY <1>1, <1>4, <1>6 DEF BoardInv, BoardFresh
  <1>10. BoardAsked'
    BY <1>1 DEF BoardInv, BoardAsked
  <1>11. BoardExact'
    <2>1. B!Fetched' = B!Fetched
      BY <1>1 DEF B!Fetched
    <2> QED BY <1>1, <2>1 DEF BoardInv, BoardExact
  <1> QED BY <1>8, <1>9, <1>10, <1>11 DEF BoardInv

LEMMA BoardHandlerWrites == ASSUME BoardInv, B!HandlerWrites PROVE BoardInv'
  <1>1. PICK h \in handlers : /\ cards' = [cards EXCEPT ![h.card] = h.copy]
                              /\ handlers' = handlers \ {h} /\ foreign' = TRUE
                              /\ UNCHANGED <<view, request, loose>>
    BY DEF B!HandlerWrites
  <1>2. /\ Size \in Nat /\ DOMAIN cards = 1..Size /\ cards \in [1..Size -> AnyCard]
        /\ \A j \in 1..Size : cards[j].order <= B!LastPlace + Size
    BY SizeIsNatural DEF BoardInv, BoardTypes, Kept
  <1>3. /\ h.card \in 1..Size /\ h.copy \in AnyCard /\ h.copy.order <= B!LastPlace + Size
        /\ handlers' = {}
    BY <1>1 DEF BoardInv, BoardTypes
  <1>4. DOMAIN cards' = 1..Size /\ Kept(cards', 1..Size, Size)
    BY <1>1, <1>2, <1>3 DEF Kept
  <1>5. BoardFresh'
    <2>1. ASSUME ~loose PROVE ~B!Ties(cards')
      <3>1. /\ ~B!Ties(cards) /\ h.copy.board = cards[h.card].board
            /\ h.copy.col = cards[h.card].col /\ h.copy.order = cards[h.card].order
        BY <2>1 DEF BoardInv, BoardFresh
      <3>2. \A j \in 1..Size : /\ cards'[j].board = cards[j].board
                               /\ cards'[j].col = cards[j].col
                               /\ cards'[j].order = cards[j].order
        BY <1>1, <1>2, <1>3, <3>1
      <3> QED BY <1>2, <1>4, <3>1, <3>2 DEF B!Ties
    <2> QED BY <1>1, <1>3, <2>1 DEF BoardFresh
  <1>6. loose' \in BOOLEAN
    BY <1>1 DEF BoardInv, BoardTypes
  <1> QED BY <1>1, <1>3, <1>4, <1>5, <1>6, Disturbing

\* What a column shows is some of its cards.
OfColumn(s, c) == {j \in DOMAIN s : s[j].board = "ours" /\ s[j].col = c}

Unarchived(s, c) == {j \in OfColumn(s, c) : ~s[j].archived}

LEMMA ShownCards ==
    ASSUME NEW X \in SUBSET Nat, IsFiniteSet(X), NEW s \in [X -> AnyCard], NEW c
    PROVE  /\ B!InColumn(s, "ours", c) = OfColumn(s, c) /\ OfColumn(s, c) \in SUBSET X
           /\ IsFiniteSet(OfColumn(s, c)) /\ Cardinality(OfColumn(s, c)) \in Nat
           /\ B!Shown(s, c) = B!ByOrder(s, Unarchived(s, c))
           /\ B!Shown(s, c) \in [1..Cardinality(Unarchived(s, c)) -> Unarchived(s, c)]
           /\ Cardinality(Unarchived(s, c)) \in Nat
           /\ Len(B!Shown(s, c)) = Cardinality(Unarchived(s, c))
  <1> DEFINE D == OfColumn(s, c)
             S0 == Unarchived(s, c)
             r == {p \in S0 \X S0 : \/ s[p[1]].order < s[p[2]].order
                                    \/ s[p[1]].order = s[p[2]].order /\ p[1] < p[2]}
  <1>1. B!InColumn(s, "ours", c) = D
    BY DEF B!InColumn, B!OnBoard, OfColumn
  <1>2. B!Shown(s, c) = B!ByOrder(s, S0)
    BY <1>1, Zenon DEF B!Shown, Unarchived
  <1>3. D \subseteq X /\ S0 \subseteq X
    BY DEF OfColumn, Unarchived
  <1>4. IsFiniteSet(D) /\ Cardinality(D) \in Nat /\ IsFiniteSet(S0) /\ Cardinality(S0) \in Nat
    <2> HIDE DEF D, S0
    <2> QED BY <1>3, FS_Subset, FS_CardinalityType
  <1>5. Orders(S0, r)
    <2> HIDE DEF S0
    <2>1. \A a, b \in S0 : <<a, b>> \in r <=> \/ s[a].order < s[b].order
                                              \/ s[a].order = s[b].order /\ a < b
      OBVIOUS
    <2> HIDE DEF r
    <2>2. \A a \in S0 : a \in Nat /\ s[a].order \in Nat
      BY <1>3 DEF AnyCard
    <2> QED BY <2>1, <2>2, OrderRelation
  <1>6. B!ByOrder(s, S0) = B!Listed(S0, r)
    BY Zenon DEF B!ByOrder
  <1>7. B!Listed(S0, r) \in [1..Cardinality(S0) -> S0]
    <2> HIDE DEF S0, r
    <2> QED BY <1>4, <1>5, ListedLists DEF Lists
  <1> HIDE DEF S0, D, r
  <1>8. Len(B!Shown(s, c)) = Cardinality(S0)
    BY <1>2, <1>4, <1>6, <1>7, Lengthy
  <1> QED BY <1>1, <1>2, <1>3, <1>4, <1>6, <1>7, <1>8 DEF S0, D

LEMMA ShownSizes ==
    ASSUME NEW X \in SUBSET Nat, IsFiniteSet(X), NEW s \in [X -> AnyCard], NEW c
    PROVE  Cardinality(B!InColumn(s, "ours", c)) \in Nat /\ Len(B!Shown(s, c)) \in Nat
  BY ShownCards

LEMMA ViewIsFinite ==
    ASSUME BoardTypes
    PROVE  /\ DOMAIN view \in SUBSET Nat /\ IsFiniteSet(DOMAIN view)
           /\ view \in [DOMAIN view -> AnyCard]
  <1>1. Size \in Nat /\ DOMAIN view \subseteq 1..Size /\ view \in [DOMAIN view -> AnyCard]
    BY SizeIsNatural DEF BoardTypes, Kept
  <1> QED BY <1>1, Upto, FS_Subset

LEMMA BoardDrop == ASSUME BoardInv, B!Drop PROVE BoardInv'
  <1>1. PICK i \in DOMAIN view, c \in BoardColumns : \E n \in 1..(Len(B!Shown(view, c)) + 1) :
              /\ request = B!Idle /\ ~view[i].archived
              /\ LET index == IF n <= Len(B!Shown(view, c)) THEN n - 1
                              ELSE B!Cardinality(B!InColumn(view, "ours", c))
                     above == IF n <= Len(B!Shown(view, c)) THEN B!Shown(view, c)[n] ELSE 0
                     down == view[i].col = c /\ view[i].order < index
                 IN  /\ request' = [kind |-> "drop", card |-> i, col |-> c, index |-> index,
                                    above |-> above]
                     /\ foreign' = (foreign \/ down \/ ~B!Dense(view, c))
              /\ UNCHANGED <<cards, view, handlers, loose>>
    BY DEF B!Drop
  <1> DEFINE len == Len(B!Shown(view, c))
             full == B!Cardinality(B!InColumn(view, "ours", c))
  <1>2. len \in Nat /\ full \in Nat
    <2>1. full = Cardinality(B!InColumn(view, "ours", c))
      BY BoardCardinality
    <2>2. /\ DOMAIN view \in SUBSET Nat /\ IsFiniteSet(DOMAIN view)
          /\ view \in [DOMAIN view -> AnyCard]
      BY ViewIsFinite DEF BoardInv
    <2>3. Cardinality(B!InColumn(view, "ours", c)) \in Nat /\ len \in Nat
      BY <2>2, ShownSizes
    <2> QED BY <2>1, <2>3
  <1> HIDE DEF full
  <1>3. PICK n \in 1..(len + 1), k \in Nat : \E a :
              /\ request = B!Idle /\ ~view[i].archived
              /\ \/ n <= len /\ k = n - 1 /\ a = B!Shown(view, c)[n]
                 \/ n > len /\ k = full /\ a = 0
              /\ request' = [kind |-> "drop", card |-> i, col |-> c, index |-> k, above |-> a]
              /\ foreign' = (foreign \/ (view[i].col = c /\ view[i].order < k)
                                     \/ ~B!Dense(view, c))
              /\ UNCHANGED <<cards, view, handlers, loose>>
    <2>1. PICK n \in 1..(len + 1) :
              /\ request = B!Idle /\ ~view[i].archived
              /\ LET index == IF n <= len THEN n - 1 ELSE full
                     above == IF n <= len THEN B!Shown(view, c)[n] ELSE 0
                     down == view[i].col = c /\ view[i].order < index
                 IN  /\ request' = [kind |-> "drop", card |-> i, col |-> c, index |-> index,
                                    above |-> above]
                     /\ foreign' = (foreign \/ down \/ ~B!Dense(view, c))
              /\ UNCHANGED <<cards, view, handlers, loose>>
      BY <1>1 DEF full
    <2> DEFINE k == IF n <= len THEN n - 1 ELSE full
               a == IF n <= len THEN B!Shown(view, c)[n] ELSE 0
    <2> HIDE DEF len
    <2>2. k \in Nat
      BY <1>2
    <2>3. \/ n <= len /\ k = n - 1 /\ a = B!Shown(view, c)[n]
          \/ n > len /\ k = full /\ a = 0
      BY <1>2
    <2>4. /\ request' = [kind |-> "drop", card |-> i, col |-> c, index |-> k, above |-> a]
          /\ foreign' = (foreign \/ (view[i].col = c /\ view[i].order < k) \/ ~B!Dense(view, c))
      BY <2>1
    <2>5. request = B!Idle /\ ~view[i].archived /\ UNCHANGED <<cards, view, handlers, loose>>
      BY <2>1
    <2> HIDE DEF k, a
    <2> WITNESS n \in 1..(len + 1), k \in Nat
    <2> WITNESS a
    <2> QED BY <2>2, <2>3, <2>4, <2>5
  <1>4. PICK a :
              /\ request = B!Idle /\ ~view[i].archived
              /\ \/ n <= len /\ k = n - 1 /\ a = B!Shown(view, c)[n]
                 \/ n > len /\ k = full /\ a = 0
              /\ request' = [kind |-> "drop", card |-> i, col |-> c, index |-> k, above |-> a]
              /\ foreign' = (foreign \/ (view[i].col = c /\ view[i].order < k)
                                     \/ ~B!Dense(view, c))
              /\ UNCHANGED <<cards, view, handlers, loose>>
    BY <1>3
  <1>5. /\ request'.kind = "drop" /\ request'.card = i /\ request'.col = c
        /\ request'.index = k /\ request'.above = a
    BY <1>4
  <1>6. Aimed(view, c, k, a)
    BY <1>4, Zenon DEF Aimed, full
  <1> HIDE DEF len
  <1>7. Size \in Nat /\ Size' = Size
    BY <1>4, SizeIsNatural DEF BoardInv, Size
  <1>8. IsDrop(request', DOMAIN view)
    BY <1>4 DEF IsDrop
  <1>9. foreign' \in BOOLEAN /\ view[i].order \in Nat
    <2>1. view[i] \in AnyCard
      BY ViewIsFinite DEF BoardInv
    <2> QED BY <1>4, <2>1 DEF AnyCard
  <1>10. BoardTypes'
    BY <1>4, <1>7, <1>8, <1>9 DEF BoardInv, BoardTypes
  <1>11. BoardFresh'
    BY <1>4 DEF BoardInv, BoardFresh
  <1>12. BoardAsked'
    <2>1. ~view[i].archived /\ Aimed(view, request'.col, request'.index, request'.above)
      BY <1>4, <1>5, <1>6
    <2> QED BY <1>4, <1>5, <2>1 DEF BoardAsked
  <1>13. BoardExact'
    <2> SUFFICES ASSUME ~foreign'
                 PROVE  /\ view = B!Fetched' /\ B!Dense(view, c)
                        /\ view[i].col = c => k <= view[i].order
      BY <1>4, <1>5 DEF BoardExact
    <2>1. ~foreign /\ B!Dense(view, c) /\ ~(view[i].col = c /\ view[i].order < k)
      BY <1>4
    <2>2. view = B!Fetched
      <3>1. request.kind = "none"
        BY <1>4 DEF B!Idle
      <3> QED BY <2>1, <3>1 DEF BoardInv, BoardExact
    <2>3. B!Fetched' = B!Fetched
      BY <1>4 DEF B!Fetched
    <2> QED BY <1>9, <2>1, <2>2, <2>3
  <1> QED BY <1>10, <1>11, <1>12, <1>13 DEF BoardInv

LEMMA BoardOpen == ASSUME BoardInv, B!Open PROVE BoardInv'
  <1>1. /\ request = B!Idle /\ view' = B!Fetched /\ foreign' = FALSE
        /\ UNCHANGED <<cards, request, handlers, loose>>
    BY DEF B!Open
  <1>2. /\ Size \in Nat /\ DOMAIN cards = 1..Size /\ cards \in [1..Size -> AnyCard]
        /\ \A j \in 1..Size : cards[j].order <= B!LastPlace + Size
    BY SizeIsNatural DEF BoardInv, BoardTypes, Kept
  <1>3. /\ DOMAIN view' \subseteq 1..Size /\ Kept(view', DOMAIN view', Size)
        /\ \A i \in DOMAIN view' : view'[i].board = "ours"
    BY <1>1, <1>2 DEF B!Fetched, B!OnBoard, Kept
  <1>4. Size' = Size
    BY <1>1 DEF Size
  <1>5. BoardTypes'
    BY <1>1, <1>3, <1>4 DEF BoardInv, BoardTypes
  <1>6. BoardFresh'
    BY <1>1 DEF BoardInv, BoardFresh
  <1>7. request'.kind = "none"
    BY <1>1 DEF B!Idle
  <1>8. BoardAsked'
    BY <1>7 DEF BoardAsked
  <1>9. BoardExact'
    <2>1. B!Fetched' = B!Fetched
      BY <1>1 DEF B!Fetched
    <2> QED BY <1>1, <1>7, <2>1 DEF BoardExact
  <1> QED BY <1>5, <1>6, <1>8, <1>9 DEF BoardInv

(***************************************************************************)
(* A drop that the tab asked for with an exact copy.                         *)
(***************************************************************************)
LEMMA ExactView ==
    ASSUME BoardTypes, view = B!Fetched
    PROVE  /\ DOMAIN view = {j \in 1..Size : cards[j].board = "ours"}
           /\ \A j \in DOMAIN view : view[j] = cards[j]
  <1>1. DOMAIN cards = 1..Size
    BY DEF BoardTypes
  <1> QED BY <1>1 DEF B!Fetched, B!OnBoard

LEMMA DenseColumn ==
    ASSUME NEW X \in SUBSET Nat, IsFiniteSet(X), NEW s \in [X -> AnyCard], NEW c, B!Dense(s, c)
    PROVE  /\ DenseAt(s, OfColumn(s, c), Cardinality(OfColumn(s, c)))
           /\ \A j \in OfColumn(s, c) : ~s[j].archived
           /\ Len(B!Shown(s, c)) = Cardinality(OfColumn(s, c))
           /\ \A p \in 1..Cardinality(OfColumn(s, c)) : /\ B!Shown(s, c)[p] \in OfColumn(s, c)
                                                        /\ s[B!Shown(s, c)[p]].order = p - 1
  <1> DEFINE D == OfColumn(s, c)
             m == Cardinality(D)
  <1>1. /\ B!InColumn(s, "ours", c) = D /\ D \in SUBSET X /\ IsFiniteSet(D)
        /\ B!Shown(s, c) = B!ByOrder(s, Unarchived(s, c))
        /\ Len(B!Shown(s, c)) = Cardinality(Unarchived(s, c))
    BY ShownCards
  <1>2. {s[j].order : j \in D} = 0..(m - 1) /\ \A j \in D : ~s[j].archived
    <2>1. B!Cardinality(D) = m
      BY BoardCardinality
    <2> HIDE DEF m, D
    <2> QED BY <1>1, <2>1, Zenon DEF B!Dense
  <1>3. DenseAt(s, D, m)
    <2> HIDE DEF D
    <2> QED BY <1>1, <1>2, Density
  <1>4. Unarchived(s, c) = D
    BY <1>2 DEF Unarchived
  <1>5. /\ B!ByOrder(s, D) \in [1..m -> D]
        /\ \A p \in 1..m : s[B!ByOrder(s, D)[p]].order = p - 1
    <2>1. D \in SUBSET Nat
      BY <1>1
    <2> HIDE DEF D
    <2> QED BY <1>1, <1>3, <2>1, DenseList
  <1> HIDE DEF D, m
  <1>6. \A p \in 1..m : B!Shown(s, c)[p] \in D /\ s[B!Shown(s, c)[p]].order = p - 1
    BY <1>1, <1>4, <1>5
  <1> QED BY <1>1, <1>2, <1>3, <1>4, <1>6 DEF D, m

LEMMA AimedAt ==
    ASSUME NEW X \in SUBSET Nat, IsFiniteSet(X), NEW s \in [X -> AnyCard], NEW c, B!Dense(s, c),
           NEW k, NEW a, Aimed(s, c, k, a)
    PROVE  /\ k \in Nat /\ k <= Cardinality(OfColumn(s, c))
           /\ \/ a \in OfColumn(s, c) /\ s[a].order = k
              \/ a = 0 /\ k = Cardinality(OfColumn(s, c))
  <1> DEFINE m == Cardinality(OfColumn(s, c))
  <1>1. /\ m \in Nat /\ Len(B!Shown(s, c)) = m
        /\ \A p \in 1..m : B!Shown(s, c)[p] \in OfColumn(s, c) /\ s[B!Shown(s, c)[p]].order = p - 1
    BY DenseColumn, ShownCards
  <1>2. B!Cardinality(B!InColumn(s, "ours", c)) = m
    BY BoardCardinality, ShownCards
  <1> HIDE DEF m
  <1>3. PICK n \in 1..(m + 1) : \/ n <= m /\ k = n - 1 /\ a = B!Shown(s, c)[n]
                                \/ n > m /\ k = m /\ a = 0
    BY <1>1, <1>2, Zenon DEF Aimed
  <1>4. CASE n <= m
    <2>1. n \in 1..m /\ k = n - 1 /\ a = B!Shown(s, c)[n]
      BY <1>1, <1>3, <1>4
    <2> QED BY <1>1, <2>1 DEF m
  <1>5. CASE ~(n <= m)
    BY <1>1, <1>3, <1>5 DEF m
  <1> QED BY <1>4, <1>5

\* The column of the move is the one the tab sees, with the card.
LEMMA DropTakes ==
    ASSUME BoardTypes, BoardAsked, request.kind = "drop", view = B!Fetched,
           B!Dense(view, request.col)
    PROVE  LET D == OfColumn(view, request.col)
           IN  /\ \E t, C, n, w :
                     /\ MoveIs(Size, cards, request.card, request.col, request.index,
                               B!Moved(cards, request.card, request.col, request.index), t, C, n, w)
                     /\ C = D \cup {request.card}
               /\ IsFiniteSet(D) /\ DenseAt(cards, D, Cardinality(D))
               /\ request.index <= Cardinality(D)
               /\ \/ /\ request.above \in D /\ cards[request.above].order = request.index
                  \/ /\ request.above = 0 /\ request.index = Cardinality(D)
               /\ \A j \in D : ~cards[j].archived
               /\ ~cards[request.card].archived
               /\ cards[request.card].board = "ours"
  <1> DEFINE i == request.card
             c == request.col
             k == request.index
             D == OfColumn(view, c)
  <1>1. i \in DOMAIN view /\ i \in 1..Size /\ c \in BoardColumns /\ k \in Nat
    BY DropFields
  <1>2. /\ DOMAIN view \in SUBSET Nat /\ IsFiniteSet(DOMAIN view)
        /\ view \in [DOMAIN view -> AnyCard]
    BY ViewIsFinite
  <1>3. /\ DOMAIN view = {j \in 1..Size : cards[j].board = "ours"}
        /\ \A j \in DOMAIN view : view[j] = cards[j]
    BY ExactView
  <1>4. Size \in Nat /\ cards \in [1..Size -> AnyCard]
    BY SizeIsNatural DEF BoardTypes, Kept
  <1>5. ~view[i].archived /\ Aimed(view, c, k, request.above)
    BY DEF BoardAsked
  <1>6. /\ DenseAt(view, D, Cardinality(D)) /\ \A j \in D : ~view[j].archived
    BY <1>2, DenseColumn
  <1>7. /\ k <= Cardinality(D)
        /\ \/ request.above \in D /\ view[request.above].order = k
           \/ request.above = 0 /\ k = Cardinality(D)
    BY <1>2, <1>5, AimedAt
  <1>8. D \in SUBSET (DOMAIN view) /\ IsFiniteSet(D)
    BY <1>2, ShownCards
  <1>9. D = {j \in 1..Size : cards[j].board = "ours" /\ cards[j].col = c}
    BY <1>3 DEF OfColumn
  <1> HIDE DEF D, i, c, k
  <1>10. DenseAt(cards, D, Cardinality(D)) /\ \A j \in D : ~cards[j].archived
    <2>1. \A j \in D : view[j] = cards[j]
      BY <1>3, <1>8
    <2> QED BY <1>6, <2>1 DEF DenseAt
  <1>11. PICK t, C, n, w : MoveIs(Size, cards, i, c, k, B!Moved(cards, i, c, k), t, C, n, w)
    BY <1>1, <1>4, Moving
  <1>12. C = D \cup {i}
    <2>1. /\ C = {j \in 1..Size : t[j].board = cards[i].board /\ t[j].col = c} /\ i \in C
          /\ \A j \in 1..Size : j # i => t[j] = cards[j]
      BY <1>11 DEF MoveIs
    <2>2. cards[i].board = "ours"
      BY <1>1, <1>3
    <2> QED BY <1>9, <2>1, <2>2
  <1>13. \/ request.above \in D /\ cards[request.above].order = k
         \/ request.above = 0 /\ k = Cardinality(D)
    BY <1>3, <1>7, <1>8
  <1>14. ~cards[i].archived /\ cards[i].board = "ours"
    BY <1>1, <1>3, <1>5
  <1> QED BY <1>7, <1>8, <1>10, <1>11, <1>12, <1>13, <1>14 DEF i, c, k, D

PutIn(s, i, c) == [s EXCEPT ![i].col = c]

OnlyColumn(v, s, X, i, c) == /\ v \in [X -> AnyCard] /\ v[i] = At(s[i], c, s[i].order)
                             /\ \A j \in X : j # i => v[j] = s[j]

LEMMA NewColumn ==
    ASSUME NEW X, NEW s \in [X -> AnyCard], NEW i \in X, NEW c \in BoardColumns
    PROVE  OnlyColumn(PutIn(s, i, c), s, X, i, c)
  <1> DEFINE v == PutIn(s, i, c)
  <1>1. s[i] \in AnyCard /\ s[i].order \in Nat
    BY DEF AnyCard
  <1>2. [s[i] EXCEPT !.col = c] = At(s[i], c, s[i].order)
    BY <1>1, CardExcept, Zenon
  <1>3. v = [s EXCEPT ![i] = [s[i] EXCEPT !.col = c]]
    BY Zenon DEF PutIn
  <1>4. At(s[i], c, s[i].order) \in AnyCard
    BY <1>1, CardParts
  <1>5. v = [s EXCEPT ![i] = At(s[i], c, s[i].order)]
    BY <1>2, <1>3, Zenon
  <1> HIDE DEF v
  <1>6. OnlyColumn(v, s, X, i, c)
    BY <1>4, <1>5 DEF OnlyColumn
  <1> QED BY <1>6 DEF v

\* The tab renumbers its copy as the server did.
LEMMA DropAgrees ==
    ASSUME BoardTypes, BoardAsked, request.kind = "drop", view = B!Fetched,
           B!Dense(view, request.col),
           view[request.card].col = request.col => request.index <= view[request.card].order,
           NEW r, r = B!Moved(cards, request.card, request.col, request.index)
    PROVE  [j \in B!OnBoard(r, "ours") |-> r[j]]
             = B!Rearranged(view, request.card, request.col, request.index)
  <1> DEFINE i == request.card
             c == request.col
             k == request.index
             D == OfColumn(view, c)
             u == B!ByOrder(cards, D \ {i})
             v == PutIn(view, i, c)
  <1>1. PICK t, C, n, w : MoveIs(Size, cards, i, c, k, r, t, C, n, w) /\ C = D \cup {i}
    BY DropTakes
  <1>2. /\ IsFiniteSet(D) /\ DenseAt(cards, D, Cardinality(D)) /\ k <= Cardinality(D)
        /\ cards[i].board = "ours"
    BY DropTakes
  <1>3. i \in DOMAIN view /\ i \in 1..Size /\ c \in BoardColumns /\ k \in Nat
    BY DropFields
  <1>4. /\ DOMAIN view = {j \in 1..Size : cards[j].board = "ours"}
        /\ \A j \in DOMAIN view : view[j] = cards[j]
    BY ExactView
  <1>5. Size \in Nat /\ cards \in [1..Size -> AnyCard]
    BY SizeIsNatural DEF BoardTypes, Kept
  <1>6. /\ DOMAIN view \in SUBSET Nat /\ IsFiniteSet(DOMAIN view)
        /\ view \in [DOMAIN view -> AnyCard]
    BY ViewIsFinite
  <1>7. i \in D => k <= cards[i].order
    BY <1>3, <1>4 DEF OfColumn
  <1>8. D \subseteq DOMAIN view /\ B!InColumn(view, "ours", c) = D
    BY <1>6, ShownCards
  <1>9. Into(u, k, i) = w
    <2>1. MoveIs(Size, cards, i, c, k, r, t, C, n, w) /\ C = D \cup {i}
      BY <1>1
    <2>2. IsFiniteSet(D) /\ DenseAt(cards, D, Cardinality(D)) /\ k <= Cardinality(D)
      BY <1>2
    <2>3. Size \in Nat /\ cards \in [1..Size -> AnyCard] /\ i \in 1..Size /\ c \in BoardColumns
          /\ k \in Nat
      BY <1>3, <1>5
    <2>4. i \in D => k <= cards[i].order
      BY <1>7
    <2> HIDE DEF D, i, c, k
    <2> QED BY <2>1, <2>2, <2>3, <2>4, InsertedAsSorted
  <1>10. B!ByOrder(view, D \ {i}) = u
    <2>1. \A j \in D \ {i} : view[j].order = cards[j].order
      BY <1>4, <1>8
    <2> HIDE DEF D, i
    <2> QED BY <2>1, ByOrderSame
  <1>11. B!Rearranged(view, i, c, k) = B!Renumbered(v, w)
    <2> HIDE DEF D, i, c, k, v, u
    <2>1. B!Rearranged(view, i, c, k) =
             B!Renumbered(v, Into(u, k, i))
      BY <1>8, <1>10, Zenon DEF B!Rearranged, Into, PutIn, v
    <2> QED BY <1>9, <2>1, Zenon
  <1> HIDE DEF D, i, c, k, u
  <1>12. /\ v \in [DOMAIN view -> AnyCard] /\ v[i] = At(view[i], c, view[i].order)
         /\ \A j \in DOMAIN view : j # i => v[j] = view[j]
    <2>1. OnlyColumn(v, view, DOMAIN view, i, c)
      BY <1>3, <1>6, NewColumn, Zenon
    <2> HIDE DEF v
    <2> QED BY <2>1 DEF OnlyColumn
  <1> HIDE DEF v
  <1>13. /\ t \in [1..Size -> AnyCard] /\ t[i] = At(cards[i], c, k)
         /\ \A j \in 1..Size : j # i => t[j] = cards[j]
         /\ Permutes(w, C, n) /\ n \in Nat /\ Placed(r, t, C, w, n) /\ C \subseteq DOMAIN view
    BY <1>1, <1>3, <1>8 DEF MoveIs
  <1> DEFINE q == B!Renumbered(v, w)
  <1>14. Placed(q, v, C, w, n)
    BY <1>12, <1>13, Renumbers
  <1>15. DOMAIN r = 1..Size /\ \A j \in 1..Size : r[j].board = cards[j].board
    BY <1>1, <1>3, <1>5, MovedFields
  <1>16. q = [j \in DOMAIN q |-> q[j]]
    BY DEF B!Renumbered
  <1> HIDE DEF q
  <1>17. DOMAIN q = DOMAIN view
    BY <1>12, <1>14 DEF Placed
  <1>18. B!OnBoard(r, "ours") = DOMAIN view
    BY <1>4, <1>15 DEF B!OnBoard
  <1>19. ASSUME NEW j \in DOMAIN view PROVE r[j] = q[j]
    <2>1. j \in 1..Size /\ view[j] = cards[j]
      BY <1>4
    <2>2. CASE j \in C
      <3>1. PICK p \in 1..n : w[p] = j
        BY <1>13, <2>2, Zenon DEF Permutes
      <3>2. r[j] = At(t[j], t[j].col, p - 1) /\ q[j] = At(v[j], v[j].col, p - 1)
        BY <1>13, <1>14, <3>1, Zenon DEF Placed
      <3>3. t[j].board = v[j].board /\ t[j].archived = v[j].archived /\ t[j].col = v[j].col
        <4>1. CASE j = i
          <5>1. cards[i] \in AnyCard /\ view[i] = cards[i]
            BY <1>5, <2>1, <4>1
          <5>2. /\ At(cards[i], c, k).board = cards[i].board
                /\ At(cards[i], c, k).archived = cards[i].archived /\ At(cards[i], c, k).col = c
            BY <5>1, CardParts
          <5>3. /\ At(cards[i], c, cards[i].order).board = cards[i].board
                /\ At(cards[i], c, cards[i].order).archived = cards[i].archived
                /\ At(cards[i], c, cards[i].order).col = c
            BY <5>1, CardParts
          <5> QED BY <1>12, <1>13, <4>1, <5>1, <5>2, <5>3, Zenon
        <4>2. CASE j # i
          BY <1>12, <1>13, <2>1, <4>2, Zenon
        <4> QED BY <4>1, <4>2
      <3> QED BY <3>2, <3>3, Zenon DEF At
    <2>3. CASE j \notin C
      <3>1. j # i
        BY <1>1, <2>3
      <3>2. r[j] = t[j] /\ q[j] = v[j]
        BY <1>12, <1>13, <1>14, <2>1, <2>3 DEF Placed
      <3> QED BY <1>12, <1>13, <2>1, <3>1, <3>2
    <2> QED BY <2>2, <2>3
  <1>20. [j \in B!OnBoard(r, "ours") |-> r[j]] = q
    BY <1>16, <1>17, <1>18, <1>19
  <1> QED BY <1>11, <1>20 DEF q, i, c, k

LEMMA BoardDropReceived == ASSUME BoardInv, B!DropReceived PROVE BoardInv'
  <1> DEFINE i == request.card
             c == request.col
             k == request.index
  <1>1. /\ request.kind = "drop" /\ cards' = B!Moved(cards, i, c, k)
        /\ request' = [request EXCEPT !.kind = "dropped"]
        /\ loose' = (loose \/ B!Overtakes(cards, cards'))
        /\ UNCHANGED <<view, handlers, foreign>>
    BY DEF B!DropReceived
  <1>2. i \in 1..Size /\ c \in BoardColumns /\ k \in Nat
    BY <1>1, DropFields DEF BoardInv
  <1>3. /\ DOMAIN cards' = 1..Size /\ Kept(cards', 1..Size, Size)
        /\ ~B!Ties(cards) => ~B!Ties(cards')
    BY <1>1, <1>2, CardsMoved DEF BoardInv
  <1>4. Size \in Nat /\ Size' = Size
    BY <1>3, SizeIsNatural, SizeStays DEF BoardInv
  <1>5. /\ IsDrop(request', DOMAIN view) /\ request'.kind = "dropped" /\ request'.card = i
        /\ request'.col = c /\ request'.index = k
    <2>1. IsDrop(request, DOMAIN view)
      BY <1>1, RequestKinds DEF BoardInv
    <2>2. PICK j \in DOMAIN view, d \in BoardColumns, m \in Nat : \E a :
             request = [kind |-> "drop", card |-> j, col |-> d, index |-> m, above |-> a]
      BY <1>1, <2>1 DEF IsDrop
    <2>3. PICK a : request = [kind |-> "drop", card |-> j, col |-> d, index |-> m, above |-> a]
      BY <2>2
    <2>4. request' = [kind |-> "dropped", card |-> j, col |-> d, index |-> m, above |-> a]
      BY <1>1, <2>3
    <2> QED BY <2>3, <2>4 DEF IsDrop
  <1>6. BoardTypes'
    BY <1>1, <1>3, <1>4, <1>5 DEF BoardInv, BoardTypes
  <1>7. BoardFresh'
    BY <1>1, <1>3, FreshAfterMove DEF BoardInv
  <1>8. BoardAsked'
    BY <1>5 DEF BoardAsked
  <1>9. BoardExact'
    <2> SUFFICES ASSUME ~foreign PROVE B!Fetched' = B!Rearranged(view, i, c, k)
      BY <1>1, <1>5 DEF BoardExact
    <2>1. view = B!Fetched /\ B!Dense(view, c) /\ (view[i].col = c => k <= view[i].order)
      BY <1>1 DEF BoardInv, BoardExact
    <2>2. B!Fetched' = [j \in B!OnBoard(cards', "ours") |-> cards'[j]]
      BY DEF B!Fetched
    <2>3. [j \in B!OnBoard(cards', "ours") |-> cards'[j]] = B!Rearranged(view, i, c, k)
      BY <1>1, <2>1, DropAgrees DEF BoardInv
    <2> QED BY <2>2, <2>3
  <1> QED BY <1>6, <1>7, <1>8, <1>9 DEF BoardInv

\* The tab's renumbering keeps what is known of its copy.
Ours(s, X) == \A j \in X : s[j].board = "ours"

LEMMA RearrangedKeeps ==
    ASSUME NEW N \in Nat, NEW X, X \subseteq 1..N, NEW s,
           Kept(s, X, N), Ours(s, X), NEW i \in X, NEW c \in BoardColumns, NEW k \in Nat,
           NEW r, r = B!Rearranged(s, i, c, k)
    PROVE  DOMAIN r = X /\ Kept(r, X, N) /\ Ours(r, X)
  <1>1. /\ s \in [X -> AnyCard]
        /\ \A j \in X : s[j].order <= B!LastPlace + N /\ s[j].board = "ours"
    BY DEF Kept, Ours
  <1>2. PICK v : /\ v = PutIn(s, i, c)
                 /\ v \in [X -> AnyCard] /\ v[i] = At(s[i], c, s[i].order)
                 /\ \A j \in X : j # i => v[j] = s[j]
    <2> DEFINE v == PutIn(s, i, c)
    <2>1. OnlyColumn(v, s, X, i, c)
      BY <1>1, NewColumn, Zenon
    <2> HIDE DEF v
    <2>2. v \in [X -> AnyCard] /\ v[i] = At(s[i], c, s[i].order) /\ \A j \in X : j # i => v[j] = s[j]
      BY <2>1 DEF OnlyColumn
    <2> QED BY <2>2, Zenon DEF v
  <1> DEFINE Y == OfColumn(s, c) \ {i}
             C == Y \cup {i}
             m == Cardinality(Y)
             w == Into(B!ByOrder(s, Y), k, i)
  <1>3. IsFiniteSet(X) /\ X \in SUBSET Nat
    <2>1. IsFiniteSet(1..N)
      BY FS_Interval
    <2>2. IsFiniteSet(X)
      BY <2>1, FS_Subset
    <2>3. 1..N \subseteq Nat
      OBVIOUS
    <2> QED BY <2>2, <2>3, Zenon
  <1>4. B!InColumn(s, "ours", c) = OfColumn(s, c) /\ OfColumn(s, c) \in SUBSET X
    BY <1>1, <1>3, ShownCards
  <1>5. Y \subseteq X /\ C \subseteq X /\ i \notin Y
    <2> HIDE DEF w
    <2> QED BY <1>4
  <1>6. r = B!Renumbered(v, w)
    <2> QED BY <1>4, <1>2, Zenon DEF B!Rearranged, Into, PutIn
  <1> HIDE DEF Y
  <1>7. IsFiniteSet(Y) /\ m \in Nat /\ m + 1 <= N
    <2>1. IsFiniteSet(Y)
      BY <1>3, <1>5, FS_Subset
    <2>2. IsFiniteSet(C) /\ Cardinality(C) = m + 1
      BY <1>5, <2>1, FS_AddElement
    <2>3. C \subseteq 1..N /\ IsFiniteSet(1..N) /\ Cardinality(1..N) = N
      BY <1>5, FS_Interval
    <2>4. Cardinality(C) <= N
      BY <2>2, <2>3, FS_Subset
    <2>5. m \in Nat
      BY <2>1, FS_CardinalityType
    <2> HIDE DEF C, m
    <2> QED BY <2>1, <2>2, <2>4, <2>5
  <1>8. Permutes(B!ByOrder(s, Y), Y, m)
    <2>1. Numbers(s, Y) /\ Y \in SUBSET Nat
      BY <1>1, <1>3, <1>5 DEF Numbers, AnyCard
    <2> HIDE DEF m
    <2> QED BY <1>7, <2>1, ByOrderPermutes DEF m
  <1>9. Permutes(w, C, m + 1)
    BY <1>5, <1>7, <1>8, IntoPermutes
  <1> HIDE DEF w, C, m
  <1>10. Placed(r, v, C, w, m + 1)
    <2>1. m + 1 \in Nat
      BY <1>7
    <2> QED BY <1>5, <1>6, <1>2, <1>9, <2>1, Renumbers, Zenon
  <1>11. DOMAIN r = X /\ r = [j \in DOMAIN r |-> r[j]]
    BY <1>6, <1>2, <1>10 DEF Placed, B!Renumbered
  <1>12. ASSUME NEW j \in X
         PROVE  v[j] \in AnyCard /\ v[j].board = "ours" /\ v[j].order <= B!LastPlace + N
    <2>1. CASE j = i
      <3>1. s[i] \in AnyCard /\ s[i].order \in Nat
        BY <1>1 DEF AnyCard
      <3> QED BY <1>1, <1>2, <2>1, <3>1, CardParts
    <2>2. CASE j # i
      BY <1>1, <1>2, <2>2
    <2> QED BY <2>1, <2>2
  <1>13. ASSUME NEW j \in X
         PROVE  r[j] \in AnyCard /\ r[j].board = "ours" /\ r[j].order <= B!LastPlace + N
    <2>1. CASE j \in C
      <3>1. PICK p \in 1..(m + 1) : w[p] = j
        BY <1>9, <2>1, Zenon DEF Permutes
      <3>2. r[j] = At(v[j], v[j].col, p - 1)
        BY <1>10, <3>1, Zenon DEF Placed
      <3>3. p - 1 \in Nat /\ p - 1 <= B!LastPlace + N
        BY <1>7, LastPlaceIsNatural
      <3>4. v[j].col \in BoardColumns
        BY <1>12 DEF AnyCard
      <3> QED BY <1>12, <3>2, <3>3, <3>4, CardParts
    <2>2. CASE j \notin C
      <3>1. r[j] = v[j]
        BY <1>2, <1>10, <2>2 DEF Placed
      <3> QED BY <1>12, <3>1
    <2> QED BY <2>1, <2>2
  <1> QED BY <1>11, <1>13 DEF Kept, Ours

LEMMA BoardDropAnswered == ASSUME BoardInv, B!DropAnswered PROVE BoardInv'
  <1> DEFINE i == request.card
             c == request.col
             k == request.index
  <1>1. /\ request.kind = "dropped" /\ view' = B!Rearranged(view, i, c, k)
        /\ request' = B!Idle /\ UNCHANGED <<cards, handlers, foreign, loose>>
    BY DEF B!DropAnswered
  <1>2. i \in DOMAIN view /\ c \in BoardColumns /\ k \in Nat
    BY <1>1, DropFields DEF BoardInv
  <1>3. /\ DOMAIN view \in SUBSET Nat /\ IsFiniteSet(DOMAIN view) /\ DOMAIN view \subseteq 1..Size
        /\ view \in [DOMAIN view -> AnyCard] /\ Size \in Nat
        /\ \A j \in DOMAIN view : /\ view[j].order <= B!LastPlace + Size
                                  /\ view[j].board = "ours"
    BY ViewIsFinite, SizeIsNatural DEF BoardInv, BoardTypes, Kept
  <1>4. Size' = Size
    BY <1>1 DEF Size
  <1>5. /\ DOMAIN view' = DOMAIN view /\ Kept(view', DOMAIN view, Size)
        /\ \A j \in DOMAIN view : view'[j].board = "ours"
    <2>1. /\ Kept(view, DOMAIN view, Size) /\ Ours(view, DOMAIN view)
          /\ DOMAIN view \subseteq 1..Size /\ Size \in Nat
      BY <1>3 DEF Kept, Ours
    <2>2. i \in DOMAIN view /\ c \in BoardColumns /\ k \in Nat
      BY <1>2
    <2>3. view' = B!Rearranged(view, i, c, k)
      BY <1>1
    <2> HIDE DEF i, c, k
    <2>4. DOMAIN view' = DOMAIN view /\ Kept(view', DOMAIN view, Size) /\ Ours(view', DOMAIN view)
      BY <2>1, <2>2, <2>3, RearrangedKeeps
    <2> QED BY <2>4 DEF Ours
  <1>6. request'.kind = "none"
    BY <1>1 DEF B!Idle
  <1>7. BoardTypes'
    <2>1. DOMAIN view' \subseteq 1..Size /\ Kept(view', DOMAIN view', Size)
      BY <1>3, <1>5
    <2> QED BY <1>1, <1>4, <1>5, <2>1 DEF BoardInv, BoardTypes
  <1>8. BoardFresh'
    BY <1>1 DEF BoardInv, BoardFresh
  <1>9. BoardAsked'
    BY <1>6 DEF BoardAsked
  <1>10. BoardExact'
    <2> SUFFICES ASSUME ~foreign PROVE view' = B!Fetched'
      BY <1>1, <1>6 DEF BoardExact
    <2>1. B!Fetched = B!Rearranged(view, i, c, k)
      BY <1>1 DEF BoardInv, BoardExact
    <2>2. B!Fetched' = B!Fetched
      BY <1>1 DEF B!Fetched
    <2> QED BY <1>1, <2>1, <2>2
  <1> QED BY <1>7, <1>8, <1>9, <1>10 DEF BoardInv

(***************************************************************************)
(* Adding a card.                                                            *)
(***************************************************************************)
LEMMA Largest ==
    ASSUME NEW D \in SUBSET Nat, NEW b \in Nat, \A k \in D : k <= b, D # {}
    PROVE  B!Max(D) \in D /\ \A k \in D : k <= B!Max(D)
  <1> DEFINE m == CHOOSE x \in D : \A y \in D : x >= y
  <1>1. PICK x \in D : \A y \in D : y <= x
    BY NatMax
  <1>2. \A y \in D : x >= y
    BY <1>1
  <1>3. m \in D /\ \A y \in D : m >= y
    BY <1>2, Zenon
  <1>4. B!Max(D) = m
    BY Zenon DEF B!Max
  <1> HIDE DEF m
  <1> QED BY <1>3, <1>4

LEMMA BoardAdd == ASSUME BoardInv, B!Add PROVE BoardInv'
  <1>1. PICK c \in BoardColumns :
           /\ request = B!Idle
           /\ LET orders == {view[i].order : i \in B!InColumn(view, "ours", c)}
              IN  request' = [kind |-> "add", col |-> c,
                              index |-> IF orders = {} THEN 0 ELSE B!Max(orders) + 1]
           /\ UNCHANGED <<cards, view, handlers, foreign, loose>>
    BY DEF B!Add
  <1> DEFINE D == B!InColumn(view, "ours", c)
             orders == {view[i].order : i \in D}
             k == IF orders = {} THEN 0 ELSE B!Max(orders) + 1
  <1>2. /\ Size \in Nat /\ view \in [DOMAIN view -> AnyCard] /\ D \subseteq DOMAIN view
        /\ \A j \in DOMAIN view : view[j].order <= B!LastPlace + Size
        /\ B!LastPlace + Size \in Nat
    BY SizeIsNatural, LastPlaceIsNatural
       DEF BoardInv, BoardTypes, Kept, B!InColumn, B!OnBoard
  <1>3. orders \in SUBSET Nat /\ \A o \in orders : o <= B!LastPlace + Size
    <2> HIDE DEF D
    <2> QED BY <1>2 DEF AnyCard
  <1>4. request' = [kind |-> "add", col |-> c, index |-> k]
    BY <1>1, Zenon
  <1>5. k \in 0..(B!LastPlace + Size + 1) /\ \A j \in D : view[j].order < k
    <2>1. \A j \in D : view[j].order \in orders
      OBVIOUS
    <2> HIDE DEF D, orders
    <2>2. CASE orders = {}
      BY <1>2, <2>1, <2>2
    <2>3. CASE orders # {}
      <3>1. B!Max(orders) \in orders /\ \A o \in orders : o <= B!Max(orders)
        BY <1>2, <1>3, <2>3, Largest
      <3>2. k = B!Max(orders) + 1
        BY <2>3
      <3> HIDE DEF k
      <3>3. B!Max(orders) \in Nat /\ B!Max(orders) <= B!LastPlace + Size
        BY <1>3, <3>1
      <3> QED BY <1>2, <1>3, <2>1, <3>1, <3>2, <3>3
    <2> QED BY <2>2, <2>3
  <1> HIDE DEF k
  <1>6. request'.kind = "add" /\ request'.col = c /\ request'.index = k
    BY <1>4
  <1>7. Size' = Size
    BY <1>1 DEF Size
  <1>8. IsAdd(request', Size)
    BY <1>4, <1>5 DEF IsAdd
  <1> HIDE DEF orders
  <1>9. BoardTypes'
    BY <1>1, <1>7, <1>8 DEF BoardInv, BoardTypes
  <1>10. BoardFresh'
    BY <1>1 DEF BoardInv, BoardFresh
  <1>11. BoardAsked'
    BY <1>6 DEF BoardAsked
  <1>12. BoardExact'
    <2> SUFFICES ASSUME ~foreign PROVE view = B!Fetched'
      BY <1>1, <1>5, <1>6 DEF BoardExact, D
    <2>1. request.kind = "none"
      BY <1>1 DEF B!Idle
    <2>2. view = B!Fetched
      BY <2>1 DEF BoardInv, BoardExact
    <2>3. B!Fetched' = B!Fetched
      BY <1>1 DEF B!Fetched
    <2> QED BY <2>2, <2>3
  <1> QED BY <1>9, <1>10, <1>11, <1>12 DEF BoardInv

LEMMA BoardAddRefused == ASSUME BoardInv, B!AddRefused PROVE BoardInv'
  <1>1. /\ request.kind = "add" /\ request' = B!Idle
        /\ UNCHANGED <<cards, view, handlers, foreign, loose>>
    BY DEF B!AddRefused
  <1>2. request'.kind = "none" /\ Size' = Size /\ B!Fetched' = B!Fetched
    BY <1>1 DEF B!Idle, Size, B!Fetched
  <1>3. BoardTypes'
    BY <1>1, <1>2 DEF BoardInv, BoardTypes
  <1>4. BoardFresh'
    BY <1>1 DEF BoardInv, BoardFresh
  <1>5. BoardAsked'
    BY <1>2 DEF BoardAsked
  <1>6. BoardExact'
    BY <1>1, <1>2 DEF BoardInv, BoardExact
  <1> QED BY <1>3, <1>4, <1>5, <1>6 DEF BoardInv

LEMMA BoardAddReceived == ASSUME BoardInv, B!AddReceived PROVE BoardInv'
  <1> DEFINE N == Size
             i == N + 1
             x == B!NewCard
  <1>1. /\ Size \in Nat /\ DOMAIN cards = 1..N /\ cards \in [1..N -> AnyCard]
        /\ \A j \in 1..N : cards[j].order <= B!LastPlace + N
        /\ Cardinality(Cards) \in Nat /\ N <= Cardinality(Cards)
    BY SizeIsNatural, CountOfCards DEF BoardInv, BoardTypes, Kept
  <1>2. B!Cardinality(DOMAIN cards) = N /\ B!Cardinality(Cards) = Cardinality(Cards)
    BY BoardCardinality DEF Size
  <1>3. /\ request.kind = "add" /\ N < Cardinality(Cards)
        /\ cards' = [j \in DOMAIN cards \cup {i} |-> IF j = i THEN x ELSE cards[j]]
        /\ request' = [kind |-> "added", card |-> i, item |-> cards'[i]]
        /\ loose' = (loose \/ (foreign /\ B!Ties(cards')))
        /\ UNCHANGED <<view, handlers, foreign>>
    BY <1>2 DEF B!AddReceived
  <1>4. PICK c \in BoardColumns, k \in 0..(B!LastPlace + N + 1) :
           request = [kind |-> "add", col |-> c, index |-> k]
    BY <1>3, RequestKinds DEF BoardInv, IsAdd
  <1>5. /\ x = [board |-> "ours", col |-> c, order |-> k, archived |-> FALSE]
        /\ request.col = c /\ request.index = k
    BY <1>4 DEF B!NewCard
  <1> HIDE DEF x
  <1>6. /\ x \in AnyCard /\ x.board = "ours" /\ x.col = c /\ x.order = k
        /\ x.order <= B!LastPlace + (N + 1) /\ i \notin 1..N /\ i \in 1..(N + 1)
    BY <1>1, <1>5, LastPlaceIsNatural DEF AnyCard
  <1>7. /\ DOMAIN cards' = 1..(N + 1) /\ cards'[i] = x /\ \A j \in 1..N : cards'[j] = cards[j]
        /\ cards' = [j \in 1..(N + 1) |-> cards'[j]]
    <2>1. DOMAIN cards \cup {i} = 1..(N + 1)
      BY <1>1
    <2> HIDE DEF N
    <2> QED BY <1>1, <1>3, <1>6, <2>1
  <1>8. Size' = N + 1 /\ N + 1 \in Nat
    BY <1>1, <1>7, SizeStays
  <1>9. Kept(cards', 1..(N + 1), N + 1)
    <2>1. \A j \in 1..(N + 1) : j = i \/ j \in 1..N
      BY <1>1
    <2>2. \A j \in 1..(N + 1) : cards'[j] \in AnyCard
      BY <1>1, <1>6, <1>7, <2>1
    <2>3. ASSUME NEW j \in 1..(N + 1) PROVE cards'[j].order <= B!LastPlace + (N + 1)
      <3>1. CASE j = i
        BY <1>6, <1>7, <3>1
      <3>2. CASE j \in 1..N
        <4>1. cards'[j] = cards[j] /\ cards[j].order <= B!LastPlace + N /\ cards[j].order \in Nat
          BY <1>1, <1>7, <3>2 DEF AnyCard
        <4> QED BY <1>1, <4>1, LastPlaceIsNatural
      <3> QED BY <2>1, <3>1, <3>2
    <2> QED BY <1>7, <2>2, <2>3 DEF Kept
  <1>10. IsAdded(request', N + 1)
    BY <1>3, <1>6, <1>7 DEF IsAdded
  <1>11. request'.kind = "added" /\ request'.card = i /\ request'.item = x
    BY <1>3, <1>7
  <1>12. BoardTypes'
    <2>1. /\ DOMAIN view \subseteq 1..(N + 1) /\ Kept(view, DOMAIN view, N + 1)
          /\ \A j \in DOMAIN view : view[j].board = "ours"
      <3>1. /\ DOMAIN view \subseteq 1..N /\ view \in [DOMAIN view -> AnyCard]
            /\ \A j \in DOMAIN view : /\ view[j].order <= B!LastPlace + N
                                      /\ view[j].order \in Nat /\ view[j].board = "ours"
        BY DEF BoardInv, BoardTypes, Kept, AnyCard
      <3>2. \A o \in Nat : o <= B!LastPlace + N => o <= B!LastPlace + (N + 1)
        BY <1>1, LastPlaceIsNatural
      <3>3. 1..N \subseteq 1..(N + 1)
        BY <1>1
      <3> QED BY <3>1, <3>2, <3>3 DEF Kept
    <2>2. \A h \in handlers : /\ h.card \in 1..(N + 1) /\ h.copy \in AnyCard
                              /\ h.copy.order <= B!LastPlace + (N + 1)
      <3>1. \A h \in handlers : /\ h.card \in 1..N /\ h.copy \in AnyCard
                                /\ h.copy.order <= B!LastPlace + N /\ h.copy.order \in Nat
        BY DEF BoardInv, BoardTypes, AnyCard
      <3> QED BY <1>1, <3>1, LastPlaceIsNatural
    <2>3. \A h, g \in handlers : h = g
      BY DEF BoardInv, BoardTypes
    <2>4. N + 1 \in 0..Cardinality(Cards)
      BY <1>1, <1>3
    <2>5. foreign' \in BOOLEAN /\ loose' \in BOOLEAN
      BY <1>3 DEF BoardInv, BoardTypes
    <2> QED BY <1>3, <1>7, <1>8, <1>9, <1>10, <2>1, <2>2, <2>3, <2>4, <2>5 DEF BoardTypes
  <1>13. BoardFresh'
    <2> SUFFICES ASSUME ~loose'
                 PROVE  /\ ~B!Ties(cards')
                        /\ \A h \in handlers : /\ h.copy.board = cards'[h.card].board
                                               /\ h.copy.col = cards'[h.card].col
                                               /\ h.copy.order = cards'[h.card].order
      BY <1>3 DEF BoardFresh
    <2>1. ~loose /\ (foreign => ~B!Ties(cards'))
      BY <1>3 DEF BoardInv, BoardTypes
    <2>2. \A h \in handlers : h.card \in 1..N /\ cards'[h.card] = cards[h.card]
      BY <1>7 DEF BoardInv, BoardTypes
    <2>3. \A h \in handlers : /\ h.copy.board = cards'[h.card].board
                              /\ h.copy.col = cards'[h.card].col
                              /\ h.copy.order = cards'[h.card].order
      BY <2>1, <2>2 DEF BoardInv, BoardFresh
    <2>4. ASSUME ~foreign PROVE ~B!Ties(cards')
      <3>1. /\ view = B!Fetched
            /\ \A j \in B!InColumn(view, "ours", c) : view[j].order < k
        BY <1>3, <1>5, <2>4 DEF BoardInv, BoardExact
      <3>2. \A j \in 1..N : cards[j].board = "ours" /\ cards[j].col = c => cards[j].order < k
        BY <1>1, <3>1 DEF B!Fetched, B!OnBoard, B!InColumn
      <3>3. ASSUME NEW a \in 1..(N + 1), NEW b \in 1..(N + 1), a # b,
                   cards'[a].board = cards'[b].board, cards'[a].col = cards'[b].col,
                   cards'[a].order = cards'[b].order
            PROVE  FALSE
        <4>1. ~B!Ties(cards)
          BY <2>1 DEF BoardInv, BoardFresh
        <4>2. (a = i \/ a \in 1..N) /\ (b = i \/ b \in 1..N)
          BY <1>1
        <4>3. CASE a \in 1..N /\ b \in 1..N
          BY <1>1, <1>7, <3>3, <4>1, <4>3 DEF B!Ties
        <4>4. CASE a = i /\ b \in 1..N
          <5>1. cards[b].order < k /\ cards[b].order = k /\ k \in Int
            BY <1>6, <1>7, <3>2, <3>3, <4>4
          <5> QED BY <5>1
        <4>5. CASE b = i /\ a \in 1..N
          <5>1. cards[a].order < k /\ cards[a].order = k /\ k \in Int
            BY <1>6, <1>7, <3>2, <3>3, <4>5
          <5> QED BY <5>1
        <4> QED BY <3>3, <4>2, <4>3, <4>4, <4>5
      <3> QED BY <1>7, <3>3 DEF B!Ties
    <2> QED BY <2>1, <2>3, <2>4 DEF BoardInv, BoardTypes
  <1>14. BoardAsked'
    BY <1>11 DEF BoardAsked
  <1>15. BoardExact'
    <2> SUFFICES ASSUME ~foreign
                 PROVE  B!Fetched' = [j \in DOMAIN view \cup {i} |-> IF j = i THEN x ELSE view[j]]
      BY <1>3, <1>11 DEF BoardExact
    <2>1. view = B!Fetched
      BY <1>3 DEF BoardInv, BoardExact
    <2>2. /\ DOMAIN view = {j \in 1..N : cards[j].board = "ours"}
          /\ \A j \in DOMAIN view : view[j] = cards[j]
      BY <2>1, ExactView DEF BoardInv
    <2>3. B!Fetched' = [j \in B!OnBoard(cards', "ours") |-> cards'[j]]
      BY DEF B!Fetched
    <2>4. B!OnBoard(cards', "ours") = DOMAIN view \cup {i}
      <3>1. B!OnBoard(cards', "ours") = {j \in 1..(N + 1) : cards'[j].board = "ours"}
        BY <1>7 DEF B!OnBoard
      <3>2. 1..(N + 1) = (1..N) \cup {i}
        BY <1>1
      <3> HIDE DEF N
      <3> QED BY <1>6, <1>7, <2>2, <3>1, <3>2
    <2>5. \A j \in DOMAIN view : j # i /\ cards'[j] = view[j]
      BY <1>6, <1>7, <2>2
    <2> HIDE DEF N
    <2> QED BY <1>7, <2>3, <2>4, <2>5
  <1> QED BY <1>12, <1>13, <1>14, <1>15 DEF BoardInv

LEMMA BoardAddAnswered == ASSUME BoardInv, B!AddAnswered PROVE BoardInv'
  <1>1. /\ request.kind = "added"
        /\ view' = [j \in DOMAIN view \cup {request.card} |->
                              IF j = request.card THEN request.item ELSE view[j]]
        /\ request' = B!Idle /\ UNCHANGED <<cards, handlers, foreign, loose>>
    BY DEF B!AddAnswered
  <1>2. PICK i \in 1..Size, x \in AnyCard :
           /\ x.board = "ours" /\ x.order <= B!LastPlace + Size
           /\ request = [kind |-> "added", card |-> i, item |-> x]
    BY <1>1, RequestKinds DEF BoardInv, IsAdded
  <1>3. view' = [j \in DOMAIN view \cup {i} |-> IF j = i THEN x ELSE view[j]]
    BY <1>1, <1>2
  <1>4. request'.kind = "none" /\ Size' = Size /\ B!Fetched' = B!Fetched
    BY <1>1 DEF B!Idle, Size, B!Fetched
  <1>5. BoardTypes'
    <2>1. /\ DOMAIN view' \subseteq 1..Size /\ Kept(view', DOMAIN view', Size)
          /\ \A j \in DOMAIN view' : view'[j].board = "ours"
      BY <1>2, <1>3 DEF BoardInv, BoardTypes, Kept
    <2> QED BY <1>1, <1>4, <2>1 DEF BoardInv, BoardTypes
  <1>6. BoardFresh'
    BY <1>1 DEF BoardInv, BoardFresh
  <1>7. BoardAsked'
    BY <1>4 DEF BoardAsked
  <1>8. BoardExact'
    BY <1>1, <1>4 DEF BoardInv, BoardExact
  <1> QED BY <1>5, <1>6, <1>7, <1>8 DEF BoardInv

LEMMA BoardInit == ASSUME B!Init PROVE BoardInv
  <1> DEFINE first == CHOOSE c \in BoardColumns : TRUE
             start == [i \in 1..Present |-> [board |-> "ours", col |-> first,
                                             order |-> i - 1, archived |-> FALSE]]
  <1>1. /\ cards = start /\ view = start /\ request = B!Idle /\ handlers = {}
        /\ foreign = FALSE /\ loose = FALSE
    BY DEF B!Init
  <1>2. first \in BoardColumns /\ Present \in 0..Cardinality(Cards)
    <2>1. BoardColumns # {} /\ Present \in 0..B!Cardinality(Cards)
      BY ServerAssumption, Zenon DEF B!BoardOrderAssumption
    <2> QED BY <2>1, BoardCardinality
  <1> HIDE DEF first
  <1>3. Present \in Nat /\ Cardinality(Cards) \in Nat
    BY <1>2, CountOfCards
  <1>4. /\ DOMAIN start = 1..Present
        /\ \A i \in 1..Present : /\ start[i] \in AnyCard /\ start[i].board = "ours"
                                 /\ start[i].order = i - 1
    BY <1>2, <1>3 DEF AnyCard
  <1>5. start = [i \in 1..Present |-> start[i]]
    OBVIOUS
  <1> HIDE DEF start
  <1>6. Size = Present
    BY <1>1, <1>3, <1>4, Upto DEF Size
  <1>7. Kept(start, 1..Present, Present)
    BY <1>3, <1>4, <1>5, LastPlaceIsNatural DEF Kept
  <1>8. BoardTypes
    BY <1>1, <1>2, <1>4, <1>6, <1>7 DEF BoardTypes
  <1>9. BoardFresh
    <2>1. ~B!Ties(start)
      BY <1>3, <1>4 DEF B!Ties
    <2> QED BY <1>1, <2>1 DEF BoardFresh
  <1>10. request.kind = "none"
    BY <1>1 DEF B!Idle
  <1>11. view = B!Fetched
    <2>1. B!OnBoard(start, "ours") = 1..Present
      BY <1>4 DEF B!OnBoard
    <2> QED BY <1>1, <1>5, <2>1 DEF B!Fetched
  <1> QED BY <1>8, <1>9, <1>10, <1>11 DEF BoardInv, BoardAsked, BoardExact

LEMMA BoardNext == ASSUME BoardInv, [B!Next]_(B!vars) PROVE BoardInv'
  <1>1. CASE B!Server
    BY <1>1, BoardOthersMove, BoardMoveToBoard, BoardHandlerReads, BoardHandlerWrites
       DEF B!Server
  <1>2. CASE B!Answers
    BY <1>2, BoardDropReceived, BoardDropAnswered, BoardAddReceived, BoardAddRefused,
       BoardAddAnswered DEF B!Answers
  <1>3. CASE B!Tab
    BY <1>3, BoardDrop, BoardAdd, BoardOpen DEF B!Tab
  <1>4. CASE UNCHANGED B!vars
    <2>1. UNCHANGED <<cards, view, request, handlers, foreign, loose>>
      BY <1>4 DEF B!vars
    <2>2. Size' = Size /\ B!Fetched' = B!Fetched
      BY <2>1 DEF Size, B!Fetched
    <2>3. BoardTypes'
      BY <2>1, <2>2 DEF BoardInv, BoardTypes
    <2>4. BoardFresh'
      BY <2>1 DEF BoardInv, BoardFresh
    <2>5. BoardAsked'
      BY <2>1 DEF BoardInv, BoardAsked
    <2>6. BoardExact'
      BY <2>1, <2>2 DEF BoardInv, BoardExact
    <2> QED BY <2>3, <2>4, <2>5, <2>6 DEF BoardInv
  <1> QED BY <1>1, <1>2, <1>3, <1>4 DEF B!Next

LEMMA BoardAgrees == ASSUME BoardInv PROVE B!OrdersDiffer /\ B!DropsAgree
  <1>1. B!OrdersDiffer
    BY DEF BoardInv, BoardFresh, B!OrdersDiffer
  <1>2. ASSUME request = B!Idle, ~foreign, NEW c \in BoardColumns
        PROVE  B!Shown(view, c) = B!Shown(cards, c)
    <2>1. view = B!Fetched
      <3>1. request.kind = "none"
        BY <1>2 DEF B!Idle
      <3> QED BY <1>2, <3>1 DEF BoardInv, BoardExact
    <2>2. /\ DOMAIN view = {j \in 1..Size : cards[j].board = "ours"}
          /\ \A j \in DOMAIN view : view[j] = cards[j]
      BY <2>1, ExactView DEF BoardInv
    <2>3. /\ DOMAIN view \in SUBSET Nat /\ IsFiniteSet(DOMAIN view)
          /\ view \in [DOMAIN view -> AnyCard]
      BY ViewIsFinite DEF BoardInv
    <2>4. /\ 1..Size \in SUBSET Nat /\ IsFiniteSet(1..Size) /\ cards \in [1..Size -> AnyCard]
          /\ DOMAIN cards = 1..Size
      BY SizeIsNatural, Upto DEF BoardInv, BoardTypes, Kept
    <2>5. Unarchived(view, c) = Unarchived(cards, c)
      BY <2>2, <2>4 DEF Unarchived, OfColumn
    <2>6. \A j \in Unarchived(view, c) : view[j].order = cards[j].order
      BY <2>2 DEF Unarchived, OfColumn
    <2>7. B!Shown(view, c) = B!ByOrder(view, Unarchived(view, c))
      BY <2>3, ShownCards
    <2>8. B!Shown(cards, c) = B!ByOrder(cards, Unarchived(cards, c))
      BY <2>4, ShownCards
    <2>9. B!ByOrder(view, Unarchived(view, c)) = B!ByOrder(cards, Unarchived(view, c))
      BY <2>6, ByOrderSame
    <2> QED BY <2>5, <2>7, <2>8, <2>9
  <1>3. B!DropsAgree
    BY <1>2 DEF B!DropsAgree
  <1> QED BY <1>1, <1>3

\* A request to drop is answered by nothing but its handler.
LEMMA OnlyReceived ==
    ASSUME request.kind = "drop", request'.kind = "dropped", B!Next
    PROVE  cards' = B!Moved(cards, request.card, request.col, request.index)
  <1>1. request # request' /\ request # B!Idle /\ request' # B!Idle
    BY DEF B!Idle
  <1>2. ~B!Server
    BY <1>1 DEF B!Server, B!OthersMove, B!MoveToBoard, B!HandlerReads, B!HandlerWrites
  <1>3. ~B!Tab
    BY <1>1 DEF B!Tab, B!Drop, B!Add, B!Open
  <1>4. B!DropReceived
    BY <1>2, <1>3 DEF B!Next, B!Answers, B!DropAnswered, B!AddReceived, B!AddRefused,
       B!AddAnswered
  <1> QED BY <1>4 DEF B!DropReceived

LEMMA BoardOthersStay ==
    ASSUME BoardInv, B!Next, request.kind = "drop", request'.kind = "dropped"
    PROVE  B!OthersStay
  <1> DEFINE i == request.card
             c == request.col
             k == request.index
             others == DOMAIN cards \ {i}
             column == B!InColumn(cards, cards[i].board, c)
  <1>1. i \in 1..Size /\ c \in BoardColumns /\ k \in Nat
    BY DropFields DEF BoardInv
  <1>2. Size \in Nat /\ cards \in [1..Size -> AnyCard] /\ DOMAIN cards = 1..Size
    BY SizeIsNatural DEF BoardInv, BoardTypes, Kept
  <1>3. cards' = B!Moved(cards, i, c, k)
    BY OnlyReceived
  <1> DEFINE r == cards'
  <1> HIDE DEF i, c, k
  <1>4. PICK t, C, n, w : MoveIs(Size, cards, i, c, k, r, t, C, n, w)
    BY <1>1, <1>2, <1>3, Moving
  <1>5. /\ C = {j \in 1..Size : t[j].board = cards[i].board /\ t[j].col = c}
        /\ \A j \in 1..Size : j # i => t[j] = cards[j]
    BY <1>4 DEF MoveIs
  <1>6. \A j \in others : j \in column <=> j \in C
    BY <1>2, <1>5 DEF B!InColumn, B!OnBoard
  <1>7. ASSUME NEW j \in others \ column PROVE cards'[j] = cards[j]
    <2>1. j \in 1..Size /\ j \notin C
      BY <1>2, <1>6
    <2> HIDE DEF r
    <2>2. r[j] = cards[j]
      BY <1>1, <1>2, <1>4, <2>1, MovedFields
    <2> QED BY <2>2 DEF r
  <1>8. ASSUME NEW a \in others \cap column, NEW b \in others \cap column,
               cards[a].order < cards[b].order
        PROVE  cards'[a].order < cards'[b].order
    <2>1. a \in C /\ b \in C /\ a # i /\ b # i
      BY <1>6
    <2>2. MoveIs(Size, cards, i, c, k, r, t, C, n, w) /\ cards[a].order < cards[b].order
      BY <1>4, <1>8
    <2> HIDE DEF r, others, column
    <2>3. r[a].order < r[b].order
      BY <1>1, <1>2, <2>1, <2>2, MovedKeepsOrder
    <2> QED BY <2>3 DEF r
  <1> QED BY <1>7, <1>8 DEF B!OthersStay, i, c

LEMMA BoardLandsThere ==
    ASSUME BoardInv, B!Next, request.kind = "drop", request'.kind = "dropped",
           view = B!Fetched, B!Dense(view, request.col)
    PROVE  B!LandsThere
  <1> DEFINE i == request.card
             c == request.col
             k == request.index
             a == request.above
             D == OfColumn(view, c)
             r == cards'
  <1>1. i \in 1..Size /\ i \in DOMAIN view /\ c \in BoardColumns /\ k \in Nat
    BY DropFields DEF BoardInv
  <1>2. Size \in Nat /\ cards \in [1..Size -> AnyCard] /\ DOMAIN cards = 1..Size
    BY SizeIsNatural DEF BoardInv, BoardTypes, Kept
  <1>3. cards' = B!Moved(cards, i, c, k)
    BY OnlyReceived
  <1>4. PICK t, C, n, w : MoveIs(Size, cards, i, c, k, r, t, C, n, w) /\ C = D \cup {i}
    BY <1>3, DropTakes DEF BoardInv
  <1>5. /\ IsFiniteSet(D) /\ DenseAt(cards, D, Cardinality(D)) /\ k <= Cardinality(D)
        /\ \/ a \in D /\ cards[a].order = k
           \/ a = 0 /\ k = Cardinality(D)
        /\ \A j \in D : ~cards[j].archived
        /\ ~cards[i].archived /\ cards[i].board = "ours"
    BY DropTakes DEF BoardInv
  <1>6. /\ DOMAIN view = {j \in 1..Size : cards[j].board = "ours"}
        /\ \A j \in DOMAIN view : view[j] = cards[j]
    BY ExactView DEF BoardInv
  <1>7. D = {j \in 1..Size : cards[j].board = "ours" /\ cards[j].col = c}
    BY <1>6 DEF OfColumn
  <1> HIDE DEF i, c, k, a, D, r
  <1>8. /\ DOMAIN r = 1..Size /\ C \subseteq 1..Size
        /\ \A j \in 1..Size : /\ r[j] \in AnyCard
                              /\ r[j].board = cards[j].board /\ r[j].archived = cards[j].archived
                              /\ r[j].col = IF j = i THEN c ELSE cards[j].col
        /\ \A p \in 1..n : r[w[p]].order = p - 1
    BY <1>1, <1>2, <1>4, MovedFields
  <1>9. n \in Nat /\ n = Cardinality(C) /\ Permutes(w, C, n) /\ i \in C
    BY <1>4 DEF MoveIs
  <1>10. Unarchived(r, c) = C
    BY <1>1, <1>4, <1>5, <1>7, <1>8 DEF Unarchived, OfColumn
  <1>11. B!Shown(r, c) = B!ByOrder(r, C)
    <2>1. 1..Size \in SUBSET Nat /\ IsFiniteSet(1..Size)
      BY <1>2, Upto
    <2>2. r = [j \in DOMAIN r |-> r[j]]
      BY <1>3 DEF r, B!Moved, B!Renumbered
    <2>3. r \in [1..Size -> AnyCard]
      BY <1>8, <2>2
    <2>4. B!Shown(r, c) = B!ByOrder(r, Unarchived(r, c))
      BY <2>1, <2>3, ShownCards
    <2> QED BY <1>10, <2>4
  <1>12. B!ByOrder(r, C) = w
    <2>1. IsFiniteSet(C) /\ C \in SUBSET Nat
      <3>1. IsFiniteSet(1..Size)
        BY <1>2, Upto
      <3>2. IsFiniteSet(C)
        BY <1>8, <3>1, FS_Subset
      <3>3. 1..Size \subseteq Nat
        OBVIOUS
      <3> QED BY <1>8, <3>2, <3>3, Zenon
    <2>2. Numbers(r, C)
      BY <1>8 DEF Numbers, AnyCard
    <2>3. \A p, q \in 1..n : p < q => r[w[p]].order < r[w[q]].order
      BY <1>8, <1>9
    <2>4. w \in [1..n -> C] /\ \A x \in C : \E p \in 1..n : w[p] = x
      BY <1>9, Zenon DEF Permutes
    <2>5. InOrder(w, r, C, n)
      BY <2>3, <2>4, Zenon DEF InOrder
    <2> QED BY <1>9, <2>1, <2>2, <2>5, ByOrderLists
  <1>13. B!Shown(r, c) = w /\ DOMAIN w = 1..n /\ Len(w) = n
    BY <1>9, <1>11, <1>12, Lengthy DEF Permutes
  <1>14. PICK p \in 1..n : w[p] = i
    BY <1>9, Zenon DEF Permutes
  <1>15. (CHOOSE m \in DOMAIN w : w[m] = i) = p
    <2>1. \A q \in 1..n : w[q] = i => q = p
      BY <1>9, <1>14, Zenon DEF Permutes
    <2> QED BY <1>13, <1>14, <2>1
  <1>16. \/ a = i
         \/ a = 0 /\ p = n
         \/ a # 0 /\ p < n /\ w[p + 1] = a
    <2>1. CASE a \in D /\ a # i
      <3>1. a \in C /\ a # 0 /\ cards[a].order = k
        <4>1. a \in 1..Size /\ cards[a].order \in 0..(Cardinality(D) - 1)
          BY <1>4, <1>5, <1>8, <2>1 DEF DenseAt
        <4>2. Cardinality(D) \in Nat /\ k <= Cardinality(D)
          BY <1>5, FS_CardinalityType
        <4>3. a # 0
          BY <4>1
        <4>4. k # Cardinality(D) \/ cards[a].order # k
          BY <4>1, <4>2
        <4> QED BY <1>4, <1>5, <2>1, <4>3, <4>4
      <3>2. \A x, y \in C \ {i} : cards[x].order = cards[y].order => x = y
        BY <1>4, <1>5 DEF DenseAt
      <3>3. p < n /\ w[p + 1] = a
        <4>1. MoveIs(Size, cards, i, c, k, r, t, C, n, w) /\ p \in 1..n /\ w[p] = i
          BY <1>4, <1>14
        <4>2. a \in C /\ a # i /\ cards[a].order = k
          BY <2>1, <3>1
        <4> QED BY <1>1, <1>2, <3>2, <4>1, <4>2, LandsAbove
      <3> QED BY <3>1, <3>3
    <2>2. CASE a \notin D
      <3>1. a = 0 /\ k = Cardinality(D)
        BY <1>5, <2>2
      <3>2. \A x \in C \ {i} : cards[x].order < k
        <4>1. \A x \in D : cards[x].order \in 0..(k - 1)
          BY <1>5, <3>1 DEF DenseAt
        <4> QED BY <1>1, <1>4, <4>1
      <3>3. p = n
        <4>1. MoveIs(Size, cards, i, c, k, r, t, C, n, w) /\ p \in 1..n /\ w[p] = i
          BY <1>4, <1>14
        <4> QED BY <1>1, <1>2, <3>2, <4>1, LandsLast
      <3> QED BY <3>1, <3>3
    <2> QED BY <2>1, <2>2
  <1> DEFINE after == B!Shown(r, c)
             place == CHOOSE m \in DOMAIN after : after[m] = i
  <1>17. after = w /\ place = p /\ Len(after) = n
    BY <1>13, <1>15
  <1> HIDE DEF after, place
  <1>18. \/ a = i
         \/ a = 0 /\ place = Len(after)
         \/ a # 0 /\ place < Len(after) /\ after[place + 1] = a
    BY <1>16, <1>17
  <1> QED BY <1>18, Zenon DEF B!LandsThere, after, place, i, c, a, r

LEMMA BoardTypesHold == ASSUME BoardInv PROVE B!TypeOK
  <1>1. /\ Size \in Nat /\ Size <= Cardinality(Cards) /\ DOMAIN cards = 1..Size
        /\ cards \in [1..Size -> AnyCard] /\ \A i \in 1..Size : cards[i].order <= B!LastPlace + Size
        /\ DOMAIN view \subseteq 1..Size /\ view \in [DOMAIN view -> AnyCard]
        /\ \A i \in DOMAIN view : view[i].order <= B!LastPlace + Size /\ view[i].board = "ours"
        /\ \A h \in handlers : /\ h.card \in 1..Size /\ h.copy \in AnyCard
                               /\ h.copy.order <= B!LastPlace + Size
        /\ Cardinality(Cards) \in Nat
    BY CountOfCards DEF BoardInv, BoardTypes, Kept
  <1>2. ASSUME NEW x \in AnyCard, x.order <= B!LastPlace + Size PROVE x \in B!Card
    <2>1. x.order \in Nat
      BY DEF AnyCard
    <2>2. x.order \in 0..(B!LastPlace + Cardinality(Cards))
      BY <1>1, <1>2, <2>1, LastPlaceIsNatural
    <2>3. B!Card = [board : {"ours", "other"}, col : BoardColumns,
                    order : 0..(B!LastPlace + Cardinality(Cards)), archived : BOOLEAN]
      BY BoardCardinality, Zenon DEF B!Card
    <2> QED BY <2>2, <2>3 DEF AnyCard
  <1>3. B!Cardinality(DOMAIN cards) = Size
    BY BoardCardinality DEF Size
  <1>4. cards \in [DOMAIN cards -> B!Card]
    BY <1>1, <1>2
  <1> QED BY <1>1, <1>2, <1>3, <1>4 DEF B!TypeOK

\* While another part is looked at, nothing is asked for.
BoardPart == IF service = "board" THEN BoardInv ELSE request = B!Idle

LEMMA BoardPartAlways == ServerSpec => []BoardPart
  <1>1. ServerInit => BoardPart
    BY BoardInit DEF ServerInit, BoardIdle, BoardPart
  <1>2. BoardPart /\ [ServerNext]_serverVars => BoardPart'
    BY Steps, BoardNext DEF BoardPart, B!Idle
  <1> QED BY <1>1, <1>2, PTL DEF ServerSpec

\* Whatever is moved, added, written back late or sent away and returned, the cards of a
\* column have different orders unless one of the races is lost that MoveBoardItem and its
\* neighbours (store_boards.go) leave open, and after a drop the tab's renumbered copy
\* (_kanbanDrop, boards.js) shows what the server has.
THEOREM BoardDropsAlwaysAgree == ServerSpec => []BoardDropsAgree
  <1>1. BoardPart => BoardDropsAgree
    BY BoardAgrees DEF BoardPart, BoardDropsAgree
  <1> QED BY <1>1, BoardPartAlways, PTL

\* The exchange sort of MoveBoardItem (store_boards.go) puts a card where it was dropped
\* and keeps the order of the others, for columns of any length.
THEOREM BoardDropsAlwaysLand == ServerSpec => BoardDropsLand
  <1>1. BoardPart /\ [ServerNext]_serverVars =>
           [request.kind = "drop" /\ request'.kind = "dropped" => B!OthersStay]_(B!vars)
    <2> SUFFICES ASSUME BoardPart, [ServerNext]_serverVars, ~(UNCHANGED B!vars),
                        request.kind = "drop", request'.kind = "dropped"
                 PROVE  B!OthersStay
      OBVIOUS
    <2>1. service = "board"
      BY DEF BoardPart, B!Idle
    <2> QED BY <2>1, Steps, BoardOthersStay DEF BoardPart
  <1>2. BoardPart /\ [ServerNext]_serverVars =>
           [(request.kind = "drop" /\ request'.kind = "dropped"
               /\ view = B!Fetched /\ B!Dense(view, request.col)) => B!LandsThere]_(B!vars)
    <2> SUFFICES ASSUME BoardPart, [ServerNext]_serverVars, ~(UNCHANGED B!vars),
                        request.kind = "drop", request'.kind = "dropped",
                        view = B!Fetched, B!Dense(view, request.col)
                 PROVE  B!LandsThere
      OBVIOUS
    <2>1. service = "board"
      BY DEF BoardPart, B!Idle
    <2> QED BY <2>1, Steps, BoardLandsThere DEF BoardPart
  <1> QED BY <1>1, <1>2, BoardPartAlways, PTL
      DEF ServerSpec, BoardDropsLand, B!DropsLand, B!OthersKeepTheirOrder

\* The variables of every part of the server have their types: only connected tabs have a
\* slot or a reminder to come, no count of cycles is below zero whichever copies are
\* written back, and no order passes that of a card from another board (9999 in
\* MoveBoardItemToBoard, store_boards.go) by more than the number of cards.
THEOREM ServerTypesHold == ServerSpec => []ServerTypeOK
  <1>1. BoardPart => (service = "board" => B!TypeOK)
    BY BoardTypesHold DEF BoardPart
  <1>2. ShutdownPart => (service = "shutdown" => S!TypeOK)
    BY DEF ShutdownPart, ShutdownInv
  <1>3. /\ service = "board" => B!TypeOK
        /\ service = "alarms" => A!TypeOK
        /\ service = "shutdown" => S!TypeOK
        /\ service = "rhythm" => R!TypeOK
        => ServerTypeOK
    BY DEF ServerTypeOK
  <1> QED BY <1>1, <1>2, <1>3, BoardPartAlways, ShutdownPartAlways, AlarmsTypesHold,
          RhythmTypesHold, PTL
=============================================================================
