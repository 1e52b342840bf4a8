--------------------------- MODULE StoreFileProofs --------------------------
(***************************************************************************)
(* Saves that all go through persist never leave a torn file, and together    *)
(* they implement DurableCell, for any number of requests.                     *)
(*                                                                           *)
(* That rests on writeMu, so these theorems assume that no reset runs          *)
(* (NoResets): a reset calls saveFile without writeMu.  The strengthened        *)
(* invariant says what writeMu buys: its holder is the only goroutine with an  *)
(* open file, that file is the one named <file>.tmp, it is never the file       *)
(* itself, and it holds the holder's copy once that is encoded.  The types      *)
(* need none of it and hold with resets as well.                               *)
(***************************************************************************)
EXTENDS StoreFile, FiniteSetTheorems, TLAPS

NoResets == Resetters = {}

Holding == {"opened", "encoded", "synced"}

Types == /\ mem \in SUBSET Mutations
         /\ issued \in 0..MaxMutations
         /\ pc \in [Requests -> {"idle", "saving"} \cup Holding]
         /\ snap \in [Requests -> SUBSET Mutations]
         /\ writeMu \in Requests \cup {None}
         /\ inode \in [Inodes -> Content]
         /\ file \in Inodes \cup {None}
         /\ tmp \in Inodes \cup {None}
         /\ fd \in [Requests -> Inodes \cup {None}]

\* writeMu is held exactly while the temporary file is open.
Exclusive == \A w \in Requests :
                /\ pc[w] \in Holding <=> writeMu = w
                /\ fd[w] = IF writeMu = w THEN tmp ELSE None
                /\ writeMu = w => tmp # None

Apart == file # None => file # tmp

Ready == \A w \in Requests :
            /\ pc[w] \in {"encoded", "synced"} =>
                  inode[tmp].whole /\ inode[tmp].data = snap[w]
            /\ pc[w] = "synced" => inode[tmp].synced

IInv == Types /\ Exclusive /\ Apart /\ Ready /\ FileNeverTorn

\* There are no goroutines but the requests, and none of them is None.
LEMMA OnlyRequests ==
    ASSUME NoResets
    PROVE  Savers = Requests /\ None \notin Requests /\ None \notin Inodes
  BY RequestsAssumption DEF NoResets, Savers, None, Inodes

\* With a request there are at least two inodes, so one is not the file.
LEMMA AnInodeIsFree ==
    ASSUME NoResets, NEW w \in Requests, NEW f
    PROVE  \E i \in Inodes : i # f
  <1>1. IsFiniteSet(Savers) /\ w \in Savers
    BY OnlyRequests, RequestsAssumption DEF Savers
  <1>2. Cardinality(Savers) \in Nat /\ Cardinality(Savers) # 0
    BY <1>1, FS_CardinalityType, FS_EmptySet
  <1>3. 1 \in Inodes /\ 2 \in Inodes
    BY <1>2 DEF Inodes
  <1>4. QED BY <1>3

\* A file that is opened for writing gets an inode that is not the file.
LEMMA OpenedInode ==
    ASSUME NoResets, IInv, NEW w \in Requests, OpenTmp(w)
    PROVE  /\ writeMu = None /\ writeMu' = w /\ pc[w] = "saving"
           /\ tmp' \in Inodes /\ tmp' # file
  <1>1. writeMu = None /\ writeMu' = w /\ pc[w] = "saving"
    BY DEF OpenTmp, Acquire, Goto
  <1>2. InUse = {file, tmp, None}
    <2>1. \A v \in Requests : fd[v] = None
      BY <1>1, OnlyRequests DEF IInv, Exclusive
    <2>2. QED BY <2>1, OnlyRequests DEF InUse
  <1>3. CASE tmp # None
    BY <1>1, <1>3 DEF OpenTmp, IInv, Types, Apart
  <1>4. CASE tmp = None
    <2>1. tmp' = CHOOSE i \in Inodes : i \notin InUse
      BY <1>4 DEF OpenTmp
    <2>2. \E i \in Inodes : i \notin InUse
      BY <1>2, <1>4, AnInodeIsFree, OnlyRequests
    <2>3. tmp' \in Inodes /\ tmp' \notin InUse
      BY <2>1, <2>2
    <2>4. QED BY <2>3, <1>1, <1>2
  <1>5. QED BY <1>1, <1>3, <1>4

\* The invariant holds at the start.
LEMMA InitIInv == ASSUME NoResets, Init PROVE IInv
  <1>1. Types
    BY OnlyRequests, RequestsAssumption
    DEF Init, Types, Content, Truncated, None, Mutations, Holding
  <1>2. Exclusive /\ Apart /\ Ready /\ FileNeverTorn
    BY OnlyRequests DEF Init, Exclusive, Apart, Ready, FileNeverTorn, Holding
  <1>3. QED BY <1>1, <1>2 DEF IInv

\* Returning from saveFile keeps the part of the invariant about goroutines.
LEMMA ReturnKeeps ==
    ASSUME NoResets, IInv, NEW w \in Requests, Return(w),
           UNCHANGED <<mem, issued, inode>>,
           file' \in Inodes \cup {None}, tmp' \in Inodes \cup {None},
           writeMu # w => tmp' = tmp
    PROVE  Types' /\ Exclusive' /\ Ready'
  <1>1. /\ pc' = [pc EXCEPT ![w] = "idle"]
        /\ writeMu' = IF writeMu = w THEN None ELSE writeMu
        /\ snap' = [snap EXCEPT ![w] = {}]
        /\ fd' = [fd EXCEPT ![w] = None]
    BY DEF Return
  <1>2. Types'
    BY <1>1 DEF IInv, Types
  <1>3. \A v \in Requests \ {w} : pc'[v] = pc[v] /\ fd'[v] = fd[v] /\ snap'[v] = snap[v]
    BY <1>1 DEF IInv, Types
  <1>4. pc'[w] = "idle" /\ fd'[w] = None /\ writeMu' # w
    BY <1>1, OnlyRequests DEF IInv, Types
  <1>5. Exclusive'
    BY <1>1, <1>3, <1>4, OnlyRequests DEF IInv, Exclusive, Holding
  <1>6. Ready'
    <2> SUFFICES ASSUME NEW v \in Requests
                 PROVE  /\ pc'[v] \in {"encoded", "synced"} =>
                              inode[tmp'].whole /\ inode[tmp'].data = snap'[v]
                        /\ pc'[v] = "synced" => inode[tmp'].synced
      BY DEF Ready
    <2>1. CASE v = w
      BY <2>1, <1>4
    <2>2. CASE v # w /\ pc[v] \in {"encoded", "synced"}
      <3>1. writeMu = v
        BY <2>2 DEF IInv, Exclusive, Holding
      <3>2. tmp' = tmp
        BY <3>1, <2>2
      <3>3. QED BY <3>2, <2>2, <1>3 DEF IInv, Ready
    <2>3. CASE v # w /\ pc[v] \notin {"encoded", "synced"}
      BY <2>3, <1>3
    <2>4. QED BY <2>1, <2>2, <2>3
  <1>7. QED BY <1>2, <1>5, <1>6

\* Mutate and FlushAll start a save and touch neither lock nor disk.
LEMMA StartKeeps ==
    ASSUME NoResets, IInv, NEW w \in Requests,
           Goto(w, "idle", "saving"),
           mem' \in SUBSET Mutations, issued' \in 0..MaxMutations,
           snap' = [snap EXCEPT ![w] = mem'],
           UNCHANGED <<locks, disk, fd>>
    PROVE  IInv'
  <1>1. Types'
    BY DEF IInv, Types, Goto, locks, disk
  <1>2. \A v \in Requests : /\ pc'[v] = IF v = w THEN "saving" ELSE pc[v]
                            /\ v # w => snap'[v] = snap[v]
    BY DEF IInv, Types, Goto
  <1>3. pc[w] = "idle" /\ UNCHANGED <<writeMu, inode, file, tmp, fd>>
    BY DEF Goto, locks, disk
  <1>4. Exclusive' /\ Apart' /\ Ready' /\ FileNeverTorn'
    BY <1>2, <1>3 DEF IInv, Exclusive, Apart, Ready, FileNeverTorn, Holding
  <1>5. QED BY <1>1, <1>4 DEF IInv

\* The inductive step.
LEMMA IInvInductive == ASSUME NoResets, IInv, [Next]_vars PROVE IInv'
  <1>1. ASSUME NEW w \in Requests, Mutate(w) PROVE IInv'
    <2>1. issued' \in 0..MaxMutations /\ issued' \in Mutations
      BY <1>1, RequestsAssumption DEF Mutate, IInv, Types, Mutations
    <2>2. mem' \in SUBSET Mutations
      BY <1>1, <2>1 DEF Mutate, IInv, Types
    <2>3. Goto(w, "idle", "saving") /\ snap' = [snap EXCEPT ![w] = mem']
          /\ UNCHANGED <<locks, disk, fd>>
      BY <1>1 DEF Mutate
    <2>4. QED BY <2>1, <2>2, <2>3, StartKeeps
  <1>2. ASSUME NEW w \in Requests, FlushAll(w) PROVE IInv'
    <2>1. mem' \in SUBSET Mutations /\ issued' \in 0..MaxMutations /\ mem' = mem
      BY <1>2 DEF FlushAll, memory, IInv, Types
    <2>2. Goto(w, "idle", "saving") /\ snap' = [snap EXCEPT ![w] = mem']
          /\ UNCHANGED <<locks, disk, fd>>
      BY <1>2, <2>1 DEF FlushAll
    <2>3. QED BY <2>1, <2>2, StartKeeps
  <1>3. ASSUME NEW w \in Requests, OpenTmp(w) PROVE IInv'
    <2>1. /\ writeMu = None /\ writeMu' = w /\ pc[w] = "saving"
          /\ tmp' \in Inodes /\ tmp' # file
      BY <1>3, OpenedInode
    <2>2. /\ pc' = [pc EXCEPT ![w] = "opened"]
          /\ fd' = [fd EXCEPT ![w] = tmp']
          /\ inode' = [inode EXCEPT ![tmp'] = Truncated]
          /\ UNCHANGED <<mem, issued, snap, file>>
      BY <1>3 DEF OpenTmp, Goto, memory
    <2>3. Types'
      BY <2>1, <2>2 DEF IInv, Types, Content, Truncated, Holding
    <2>4. \A v \in Requests : v # w => pc[v] \notin Holding /\ fd[v] = None
      BY <2>1, OnlyRequests DEF IInv, Exclusive
    <2>5. \A v \in Requests : /\ pc'[v] = IF v = w THEN "opened" ELSE pc[v]
                              /\ fd'[v] = IF v = w THEN tmp' ELSE fd[v]
      BY <2>2 DEF IInv, Types
    <2>6. Exclusive' /\ Ready'
      BY <2>1, <2>4, <2>5, OnlyRequests DEF Exclusive, Ready, Holding
    <2>7. Apart' /\ FileNeverTorn'
      BY <2>1, <2>2 DEF IInv, Types, Apart, FileNeverTorn
    <2>8. QED BY <2>3, <2>6, <2>7 DEF IInv
  <1>4. ASSUME NEW w \in Requests, Encode(w) \/ Sync(w) PROVE IInv'
    <2>1. /\ writeMu = w /\ fd[w] = tmp /\ tmp \in Inodes /\ tmp # file
          /\ UNCHANGED <<mem, issued, snap, file, tmp, fd, writeMu>>
      <3>1. pc[w] \in Holding
        BY <1>4 DEF Encode, Sync, Goto, Holding
      <3>2. writeMu = w /\ fd[w] = tmp /\ tmp \in Inodes
        BY <3>1 DEF IInv, Exclusive, Types
      <3>3. tmp # file
        BY <3>2, OnlyRequests DEF IInv, Apart
      <3>4. QED BY <1>4, <3>2, <3>3 DEF Encode, Sync, memory, locks
    <2>2. inode' \in [Inodes -> Content] /\ (file # None => inode'[file] = inode[file])
      <3>1. CASE Encode(w)
        BY <3>1, <2>1 DEF Encode, IInv, Types, Content
      <3>2. CASE Sync(w)
        BY <3>2, <2>1 DEF Sync, IInv, Types, Content
      <3>3. QED BY <3>1, <3>2, <1>4
    <2>3. /\ pc' \in [Requests -> {"idle", "saving"} \cup Holding]
          /\ \A v \in Requests : v # w => pc'[v] = pc[v]
          /\ pc[w] \in Holding /\ pc'[w] \in Holding
      BY <1>4 DEF Encode, Sync, Goto, IInv, Types, Holding
    <2>4. Types' /\ Apart' /\ FileNeverTorn'
      BY <2>1, <2>2, <2>3 DEF IInv, Types, Apart, FileNeverTorn
    <2>5. Exclusive'
      BY <2>1, <2>3 DEF IInv, Exclusive
    <2>6. \A v \in Requests : v # w => pc'[v] \notin Holding
      BY <2>1, <2>3 DEF IInv, Exclusive
    <2>7. /\ inode'[tmp].whole /\ inode'[tmp].data = snap[w]
          /\ pc'[w] = "synced" => inode'[tmp].synced
      <3>1. CASE Encode(w)
        <4>1. pc'[w] = "encoded"
          BY <3>1 DEF Encode, Goto, IInv, Types
        <4>2. inode'[tmp] = [data |-> snap[w], whole |-> TRUE, synced |-> FALSE]
          BY <3>1, <2>1 DEF Encode, IInv, Types
        <4>3. QED BY <4>1, <4>2
      <3>2. CASE Sync(w)
        <4>1. pc[w] = "encoded"
          BY <3>2 DEF Sync, Goto
        <4>2. inode[tmp] \in Content
          BY <2>1 DEF IInv, Types
        <4>3. inode'[tmp] = [inode[tmp] EXCEPT !.synced = TRUE]
          BY <3>2, <2>1 DEF Sync, IInv, Types
        <4>4. QED BY <4>1, <4>2, <4>3 DEF IInv, Ready, Content
      <3>3. QED BY <3>1, <3>2, <1>4
    <2>8. Ready'
      BY <2>1, <2>6, <2>7 DEF Ready, Holding
    <2>9. QED BY <2>4, <2>5, <2>8 DEF IInv
  <1>5. ASSUME NEW w \in Requests, Rename(w) PROVE IInv'
    <2>1. /\ pc[w] = "synced" /\ writeMu = w /\ tmp # None /\ tmp \in Inodes
          /\ file' = tmp /\ tmp' = None /\ Return(w) /\ UNCHANGED <<mem, issued, inode>>
      BY <1>5 DEF Rename, memory, IInv, Exclusive, Types, Holding
    <2>2. Types' /\ Exclusive' /\ Ready'
      BY <2>1, ReturnKeeps
    <2>3. Apart' /\ FileNeverTorn'
      BY <2>1 DEF IInv, Ready, Apart, FileNeverTorn
    <2>4. QED BY <2>2, <2>3 DEF IInv
  <1>6. ASSUME NEW w \in Requests, FailSave(w) PROVE IInv'
    <2>1. /\ Return(w) /\ UNCHANGED <<mem, issued, inode, file>>
          /\ tmp' = IF pc[w] \in {"opened", "encoded"} THEN None ELSE tmp
      BY <1>6 DEF FailSave, memory
    <2>2. writeMu # w => tmp' = tmp
      BY <2>1 DEF IInv, Exclusive, Holding
    <2>3. Types' /\ Exclusive' /\ Ready'
      <3>1. file' \in Inodes \cup {None} /\ tmp' \in Inodes \cup {None}
        BY <2>1 DEF IInv, Types
      <3>2. QED BY <2>1, <2>2, <3>1, ReturnKeeps
    <2>4. Apart' /\ FileNeverTorn'
      BY <2>1 DEF IInv, Apart, FileNeverTorn
    <2>5. QED BY <2>3, <2>4 DEF IInv
  <1>7. ASSUME NEW lost \in SUBSET Inodes, Crash(lost) PROVE IInv'
    <2>1. /\ inode' = [i \in Inodes |-> IF i \in lost THEN Truncated ELSE inode[i]]
          /\ mem' = IF file = None THEN {} ELSE inode'[file].data
          /\ pc' = [v \in Requests |-> "idle"]
          /\ snap' = [v \in Requests |-> {}]
          /\ fd' = [v \in Requests |-> None]
          /\ writeMu' = None
          /\ UNCHANGED <<issued, file, tmp>>
          /\ \A i \in lost : ~inode[i].synced
      BY <1>7, OnlyRequests DEF Crash
    <2>2. inode' \in [Inodes -> Content]
      BY <2>1 DEF IInv, Types, Content, Truncated
    <2>3. file # None => inode'[file] = inode[file]
      BY <2>1 DEF IInv, Types, FileNeverTorn
    <2>4. mem' \in SUBSET Mutations
      BY <2>1, <2>2 DEF IInv, Types, Content
    <2>5. Types'
      BY <2>1, <2>2, <2>4 DEF IInv, Types
    <2>6. Exclusive' /\ Ready' /\ Apart' /\ FileNeverTorn'
      BY <2>1, <2>3, OnlyRequests DEF IInv, Exclusive, Ready, Apart, FileNeverTorn, Holding
    <2>7. QED BY <2>5, <2>6 DEF IInv
  <1>8. CASE UNCHANGED vars
    <2>1. UNCHANGED <<mem, issued, pc, snap, writeMu, inode, file, tmp, fd>>
      BY <1>8 DEF vars, memory, locks, disk
    <2>2. QED BY <2>1 DEF IInv, Types, Exclusive, Apart, Ready, FileNeverTorn
  <1>9. QED
    BY <1>1, <1>2, <1>3, <1>4, <1>5, <1>6, <1>7, <1>8, OnlyRequests
    DEF Next, Save, NoResets

\* Every reachable state satisfies the strengthened invariant.
THEOREM AlwaysIInv == ASSUME NoResets PROVE Spec => []IInv
  <1>1. Init => IInv
    BY InitIInv
  <1>2. IInv /\ [Next]_vars => IInv'
    BY IInvInductive
  <1>3. QED BY <1>1, <1>2, PTL DEF Spec

\* Without a reset, a crash at any moment leaves a file that loads (saveFile).
THEOREM NeverTorn == ASSUME NoResets PROVE Spec => []FileNeverTorn
  <1>1. IInv => FileNeverTorn
    BY DEF IInv
  <1>2. QED BY <1>1, AlwaysIInv, PTL

(***************************************************************************)
(* The refinement.                                                           *)
(***************************************************************************)
Copies == {snap[w] : w \in Active}

\* What each kind of step means for the pair memory and file.
LEMMA StepIsCellStep ==
    ASSUME NoResets, IInv, [Next]_vars
    PROVE  [Cell!Next]_(Cell!vars)
  <1> USE DEF Copies
  <1>0. Active = {w \in Requests : pc[w] # "idle"} /\ Active' = {w \in Requests : pc'[w] # "idle"}
    BY OnlyRequests DEF Active
  <1>1. ASSUME NEW w \in Requests, Mutate(w) PROVE Cell!Change
    <2>1. /\ mem' \in SUBSET Mutations
          /\ snap' = [snap EXCEPT ![w] = mem'] /\ pc' = [pc EXCEPT ![w] = "saving"]
          /\ pc[w] = "idle" /\ UNCHANGED <<file, inode>>
      BY <1>1, RequestsAssumption DEF Mutate, Goto, disk, IInv, Types, Mutations
    <2>2. Copies' = Copies \cup {mem'}
      BY <1>0, <2>1 DEF IInv, Types
    <2>3. Loadable' = Loadable
      BY <2>1 DEF Loadable
    <2>4. QED BY <2>1, <2>2, <2>3 DEF Cell!Change
  <1>2. ASSUME NEW w \in Requests, FlushAll(w) PROVE Cell!Copy
    <2>1. /\ mem' = mem
          /\ snap' = [snap EXCEPT ![w] = mem] /\ pc' = [pc EXCEPT ![w] = "saving"]
          /\ pc[w] = "idle" /\ UNCHANGED <<file, inode>>
      BY <1>2 DEF FlushAll, Goto, memory, disk
    <2>2. Copies' = Copies \cup {mem}
      BY <1>0, <2>1 DEF IInv, Types
    <2>3. Loadable' = Loadable
      BY <2>1 DEF Loadable
    <2>4. QED BY <2>1, <2>2, <2>3 DEF Cell!Copy
  <1>3. ASSUME NEW w \in Requests, OpenTmp(w) \/ Encode(w) \/ Sync(w)
        PROVE  UNCHANGED Cell!vars
    <2>1. UNCHANGED <<mem, snap, file>>
      BY <1>3 DEF OpenTmp, Encode, Sync, memory
    <2>2. Active' = Active
      BY <1>0, <1>3 DEF OpenTmp, Encode, Sync, Goto, IInv, Types
    <2>3. \E i \in Inodes : i # file /\ \E c : inode' = [inode EXCEPT ![i] = c]
      <3>1. CASE OpenTmp(w)
        BY <3>1, OpenedInode DEF OpenTmp
      <3>2. CASE Encode(w) \/ Sync(w)
        <4>1. pc[w] \in Holding
          BY <3>2 DEF Encode, Sync, Goto, Holding
        <4>2. fd[w] = tmp /\ tmp \in Inodes /\ tmp # file
          BY <4>1, OnlyRequests DEF IInv, Exclusive, Apart, Types
        <4>3. CASE Encode(w)
          BY <4>2, <4>3 DEF Encode
        <4>4. CASE Sync(w)
          BY <4>2, <4>4 DEF Sync
        <4>5. QED BY <3>2, <4>3, <4>4
      <3>3. QED BY <1>3, <3>1, <3>2
    <2>4. Loadable' = Loadable
      BY <2>1, <2>3 DEF Loadable, IInv, Types
    <2>5. QED BY <2>1, <2>2, <2>4 DEF Cell!vars
  <1>4. ASSUME NEW w \in Requests, Rename(w) PROVE Cell!Store
    <2>1. /\ pc[w] = "synced" /\ tmp # None /\ file' = tmp
          /\ pc' = [pc EXCEPT ![w] = "idle"] /\ snap' = [snap EXCEPT ![w] = {}]
          /\ UNCHANGED <<mem, inode>>
      BY <1>4 DEF Rename, Return, memory
    <2>2. Loadable' = snap[w]
      BY <2>1 DEF Loadable, IInv, Ready
    <2>3. snap[w] \in Copies
      BY <1>0, <2>1
    <2>4. Copies' \subseteq Copies
      BY <1>0, <2>1 DEF IInv, Types
    <2>5. QED BY <2>1, <2>2, <2>3, <2>4 DEF Cell!Store
  <1>5. ASSUME NEW w \in Requests, FailSave(w) PROVE Cell!Abandon
    <2>1. /\ pc' = [pc EXCEPT ![w] = "idle"] /\ snap' = [snap EXCEPT ![w] = {}]
          /\ UNCHANGED <<mem, inode, file>>
      BY <1>5 DEF FailSave, Return, memory
    <2>2. Copies' \subseteq Copies
      BY <1>0, <2>1 DEF IInv, Types
    <2>3. QED BY <2>1, <2>2 DEF Cell!Abandon, Loadable
  <1>6. ASSUME NEW lost \in SUBSET Inodes, Crash(lost) PROVE Cell!Restart
    <2>1. /\ inode' = [i \in Inodes |-> IF i \in lost THEN Truncated ELSE inode[i]]
          /\ mem' = IF file = None THEN {} ELSE inode'[file].data
          /\ pc' = [v \in Requests |-> "idle"] /\ file' = file
          /\ \A i \in lost : ~inode[i].synced
      BY <1>6, OnlyRequests DEF Crash
    <2>2. file # None => inode'[file] = inode[file]
      BY <2>1 DEF IInv, Types, FileNeverTorn
    <2>3. mem' = Loadable /\ Loadable' = Loadable
      BY <2>1, <2>2 DEF Loadable
    <2>4. Copies' = {}
      BY <1>0, <2>1
    <2>5. QED BY <2>3, <2>4 DEF Cell!Restart
  <1>7. CASE UNCHANGED vars
    BY <1>7 DEF vars, memory, disk, Cell!vars, Loadable, Active
  <1>8. QED
    BY <1>1, <1>2, <1>3, <1>4, <1>5, <1>6, <1>7, OnlyRequests
    DEF Next, Save, Cell!Next, NoResets

\* Memory and file behave as DurableCell promises: the file changes in one step,
\* only to a copy of the whole collection, and a restart continues from it.
THEOREM ImplementsCell == ASSUME NoResets PROVE Spec => CellSpec
  <1>1. Init => Cell!Init
    BY OnlyRequests DEF Init, Cell!Init, Loadable, Active
  <1>2. IInv /\ [Next]_vars => [Cell!Next]_(Cell!vars)
    BY StepIsCellStep
  <1>3. QED BY <1>1, <1>2, AlwaysIInv, PTL DEF Spec, CellSpec, Cell!Spec

\* Memory only grows, but for a crash, which takes it back to the file.
LEMMA MemoryGrows ==
    ASSUME NoResets, IInv, [Next]_vars
    PROVE  mem \subseteq mem' \/ Cell!Restart
  <1>1. ASSUME NEW w \in Requests, Mutate(w) \/ FlushAll(w) \/ Save(w) \/ FailSave(w)
        PROVE  mem \subseteq mem'
    BY <1>1 DEF Mutate, FlushAll, Save, OpenTmp, Encode, Sync, Rename, FailSave, memory
  <1>2. ASSUME NEW lost \in SUBSET Inodes, Crash(lost) PROVE Cell!Restart
    BY <1>2, OnlyRequests DEF Crash, Cell!Restart, Loadable, Active,
       IInv, Types, FileNeverTorn
  <1>3. CASE UNCHANGED vars
    BY <1>3 DEF vars, memory
  <1>4. QED BY <1>1, <1>2, <1>3, OnlyRequests DEF Next, NoResets

\* No save in flight or to come, no failure and no crash loses a mutation that
\* is in memory, in the file and in every copy on its way (persist).
THEOREM SettledNeverLost == ASSUME NoResets PROVE Spec => SettledStays
  <1>1. ASSUME IInv, [Next]_vars PROVE \A m \in Settled : m \in Settled'
    <2> SUFFICES ASSUME NEW m \in mem, m \in Loadable, \A c \in Copies : m \in c
                 PROVE  m \in mem' /\ m \in Loadable' /\ \A c \in Copies' : m \in c
      BY DEF Settled, Copies
    <2>1. [Cell!Next]_(Cell!vars) /\ (mem \subseteq mem' \/ Cell!Restart)
      BY <1>1, StepIsCellStep, MemoryGrows
    <2>2. CASE Cell!Restart
      BY <2>2 DEF Cell!Restart, Copies
    <2>3. CASE mem \subseteq mem'
      BY <2>1, <2>3 DEF Cell!Next, Cell!vars, Cell!Change, Cell!Copy, Cell!Store,
         Cell!Abandon, Cell!Restart, Copies
    <2>4. QED BY <2>1, <2>2, <2>3
  <1>2. IInv /\ [Next]_vars => [\A m \in Settled : m \in Settled']_vars
    BY <1>1
  <1>3. QED BY <1>2, AlwaysIInv, PTL DEF Spec, SettledStays

(***************************************************************************)
(* Types, with resets.                                                       *)
(***************************************************************************)
\* A goroutine has a descriptor while it is between opening and renaming.
Descriptors == \A w \in Savers : /\ pc[w] \in Holding => fd[w] \in Inodes
                                 /\ pc[w] \notin Holding => fd[w] = None

\* An inode is free for whoever opens a temporary file that is not there: the others have
\* one each at most, and the file has one.
LEMMA AnInodeIsLeft ==
    ASSUME TypeOK, Descriptors, NEW w \in Savers, pc[w] = "saving", tmp = None
    PROVE  \E i \in Inodes : i \notin InUse
  <1> DEFINE g == [v \in Savers |-> IF v = w THEN file ELSE fd[v]]
             I == {g[v] : v \in Savers}
  <1>1. IsFiniteSet(Savers)
    BY RequestsAssumption DEF Savers
  <1>2. IsFiniteSet(I) /\ Cardinality(I) <= Cardinality(Savers)
    <2>1. g \in Surjection(Savers, I)
      BY DEF Surjection
    <2> HIDE DEF g, I
    <2> QED BY <1>1, <2>1, FS_Surjection
  <1>3. fd[w] = None
    BY DEF Descriptors, Holding
  <1>4. InUse \subseteq I \cup {None}
    <2>1. \A v \in Savers : g[v] = IF v = w THEN file ELSE fd[v]
      OBVIOUS
    <2>2. file \in I
      BY <2>1
    <2>3. \A v \in Savers : fd[v] \in I \cup {None}
      BY <1>3, <2>1
    <2> HIDE DEF g, I
    <2> QED BY <2>2, <2>3 DEF InUse
  <1> HIDE DEF g, I
  <1>5. ~(Inodes \subseteq I)
    <2>1. Cardinality(Savers) \in Nat
      BY <1>1, FS_CardinalityType
    <2>2. Cardinality(Inodes) = Cardinality(Savers) + 1
      <3> DEFINE n == Cardinality(Savers) + 1
      <3>1. n \in Nat
        BY <2>1
      <3> HIDE DEF n
      <3>2. Cardinality(1..n) = n
        BY <3>1, FS_Interval
      <3> QED BY <3>2 DEF n, Inodes
    <2>3. Cardinality(I) \in Nat
      BY <1>2, FS_CardinalityType
    <2> SUFFICES ASSUME Inodes \subseteq I PROVE FALSE
      OBVIOUS
    <2>4. Cardinality(Inodes) <= Cardinality(I)
      BY <1>2, FS_Subset
    <2> QED BY <1>2, <2>1, <2>2, <2>3, <2>4
  <1> QED BY <1>4, <1>5 DEF Inodes, None

TypesInv == TypeOK /\ Descriptors

\* A save begins: Mutate, FlushAll, Reset.
LEMMA StartTyped ==
    ASSUME TypesInv, NEW w \in Savers, Goto(w, "idle", "saving"), NEW c \in SUBSET Mutations,
           snap' = [snap EXCEPT ![w] = c], req' \in [Savers -> Mutations \cup {None}],
           mem' \in SUBSET Mutations, issued' \in 0..MaxMutations, acked' \in SUBSET Mutations,
           mu' \in Resetters \cup {None}, UNCHANGED <<writeMu, disk, fd>>
    PROVE  TypesInv'
  <1>1. TypeOK'
    BY DEF TypesInv, TypeOK, Goto, disk
  <1>2. \A v \in Savers : pc'[v] = IF v = w THEN "saving" ELSE pc[v]
    BY DEF TypesInv, TypeOK, Goto
  <1>3. Descriptors'
    BY <1>2 DEF TypesInv, Descriptors, Goto, Holding
  <1> QED BY <1>1, <1>3 DEF TypesInv

\* A save ends: Rename, FailSave.
LEMMA ReturnTyped ==
    ASSUME TypesInv, NEW w \in Savers, Return(w), UNCHANGED <<memory, inode>>,
           file' \in Inodes \cup {None}, tmp' \in Inodes \cup {None},
           acked' \in SUBSET Mutations
    PROVE  TypesInv'
  <1>1. TypeOK'
    BY DEF TypesInv, TypeOK, Return, memory
  <1>2. \A v \in Savers : /\ pc'[v] = IF v = w THEN "idle" ELSE pc[v]
                          /\ fd'[v] = IF v = w THEN None ELSE fd[v]
    BY DEF TypesInv, TypeOK, Return
  <1>3. Descriptors'
    BY <1>2 DEF TypesInv, Descriptors, Holding
  <1> QED BY <1>1, <1>3 DEF TypesInv

\* A step between opening and renaming: Encode, Sync.
LEMMA WriteTyped ==
    ASSUME TypesInv, NEW w \in Savers, Encode(w) \/ Sync(w)
    PROVE  TypesInv'
  <1>1. pc[w] \in Holding /\ fd[w] \in Inodes
    BY DEF TypesInv, Descriptors, Encode, Sync, Goto, Holding
  <1>2. inode[fd[w]] \in Content /\ snap[w] \in SUBSET Mutations
    BY <1>1 DEF TypesInv, TypeOK
  <1>3. \E c \in Content : inode' = [inode EXCEPT ![fd[w]] = c]
    <2>1. CASE Encode(w)
      <3>1. [data |-> snap[w], whole |-> TRUE, synced |-> FALSE] \in Content
        BY <1>2 DEF Content
      <3> QED BY <2>1, <3>1 DEF Encode
    <2>2. CASE Sync(w)
      <3>1. [inode[fd[w]] EXCEPT !.synced = TRUE] \in Content
        BY <1>2 DEF Content
      <3> QED BY <2>2, <3>1 DEF Sync
    <2> QED BY <2>1, <2>2
  <1>4. inode' \in [Inodes -> Content]
    BY <1>1, <1>3 DEF TypesInv, TypeOK
  <1>5. /\ \E p \in {"encoded", "synced"} : pc' = [pc EXCEPT ![w] = p]
        /\ UNCHANGED <<memory, snap, req, locks, file, tmp, fd, acked>>
    BY DEF Encode, Sync, Goto
  <1>6. TypeOK'
    BY <1>4, <1>5 DEF TypesInv, TypeOK, memory, locks
  <1>7. \A v \in Savers : pc'[v] \in Holding <=> pc[v] \in Holding
    BY <1>1, <1>5 DEF TypesInv, TypeOK, Holding
  <1>8. Descriptors'
    BY <1>5, <1>7 DEF TypesInv, Descriptors
  <1> QED BY <1>6, <1>8 DEF TypesInv

\* The temporary file is opened, by a reset without writeMu.
LEMMA OpenTyped ==
    ASSUME TypesInv, NEW w \in Savers, OpenTmp(w)
    PROVE  TypesInv'
  <1>1. pc[w] = "saving" /\ pc' = [pc EXCEPT ![w] = "opened"]
    BY DEF OpenTmp, Goto
  <1>2. tmp' \in Inodes
    <2>1. CASE tmp # None
      BY <2>1 DEF OpenTmp, TypesInv, TypeOK
    <2>2. CASE tmp = None
      <3>1. tmp' = CHOOSE i \in Inodes : i \notin InUse
        BY <2>2 DEF OpenTmp
      <3>2. \E i \in Inodes : i \notin InUse
        BY <1>1, <2>2, AnInodeIsLeft DEF TypesInv
      <3> QED BY <3>1, <3>2
    <2> QED BY <2>1, <2>2
  <1>3. /\ fd' = [fd EXCEPT ![w] = tmp'] /\ inode' = [inode EXCEPT ![tmp'] = Truncated]
        /\ UNCHANGED <<memory, snap, req, mu, file, acked>>
    BY DEF OpenTmp
  <1>4. writeMu' \in Requests \cup {None}
    BY DEF OpenTmp, Acquire, TypesInv, TypeOK
  <1>5. Truncated \in Content
    BY DEF Truncated, Content
  <1>6. inode' \in [Inodes -> Content]
    BY <1>3, <1>5 DEF TypesInv, TypeOK
  <1>7. TypeOK'
    BY <1>1, <1>2, <1>3, <1>4, <1>6 DEF TypesInv, TypeOK, memory
  <1>8. \A v \in Savers : /\ pc'[v] = IF v = w THEN "opened" ELSE pc[v]
                          /\ fd'[v] = IF v = w THEN tmp' ELSE fd[v]
    BY <1>1, <1>3 DEF TypesInv, TypeOK
  <1>9. Descriptors'
    BY <1>2, <1>8 DEF TypesInv, Descriptors, Holding
  <1> QED BY <1>7, <1>9 DEF TypesInv

LEMMA TypesInductive == ASSUME TypesInv, [Next]_vars PROVE TypesInv'
  <1>1. ASSUME NEW w \in Requests, Mutate(w) PROVE TypesInv'
    <2>1. issued' \in 0..MaxMutations /\ issued' \in Mutations
      BY <1>1, RequestsAssumption DEF Mutate, TypesInv, TypeOK, Mutations
    <2>2. mem' \in SUBSET Mutations
      BY <1>1, <2>1 DEF Mutate, TypesInv, TypeOK
    <2>3. /\ w \in Savers /\ Goto(w, "idle", "saving") /\ snap' = [snap EXCEPT ![w] = mem']
          /\ req' = [req EXCEPT ![w] = issued'] /\ UNCHANGED <<mu, writeMu, disk, fd, acked>>
      BY <1>1 DEF Mutate, Savers, locks
    <2>4. req' \in [Savers -> Mutations \cup {None}] /\ mu' \in Resetters \cup {None}
          /\ acked' \in SUBSET Mutations
      BY <2>1, <2>3 DEF TypesInv, TypeOK
    <2> QED BY <2>1, <2>2, <2>3, <2>4, StartTyped
  <1>2. ASSUME NEW w \in Requests, FlushAll(w) PROVE TypesInv'
    <2>1. /\ w \in Savers /\ Goto(w, "idle", "saving") /\ snap' = [snap EXCEPT ![w] = mem]
          /\ req' = [req EXCEPT ![w] = None]
          /\ UNCHANGED <<mem, issued, mu, writeMu, disk, fd, acked>>
      BY <1>2 DEF FlushAll, Savers, locks, memory
    <2>2. /\ req' \in [Savers -> Mutations \cup {None}] /\ mu' \in Resetters \cup {None}
          /\ acked' \in SUBSET Mutations /\ mem \in SUBSET Mutations
          /\ mem' \in SUBSET Mutations /\ issued' \in 0..MaxMutations
      BY <2>1 DEF TypesInv, TypeOK
    <2> QED BY <2>1, <2>2, StartTyped
  <1>3. ASSUME NEW r \in Resetters, Reset(r) PROVE TypesInv'
    <2>1. /\ r \in Savers /\ Goto(r, "idle", "saving") /\ snap' = [snap EXCEPT ![r] = {}]
          /\ mem' = {} /\ mu' = r /\ acked' = {}
          /\ UNCHANGED <<issued, req, writeMu, disk, fd>>
      BY <1>3 DEF Reset, Savers
    <2>2. /\ req' \in [Savers -> Mutations \cup {None}] /\ mu' \in Resetters \cup {None}
          /\ acked' \in SUBSET Mutations /\ {} \in SUBSET Mutations
          /\ mem' \in SUBSET Mutations /\ issued' \in 0..MaxMutations
      BY <2>1 DEF TypesInv, TypeOK
    <2> QED BY <2>1, <2>2, StartTyped
  <1>4. ASSUME NEW w \in Savers, OpenTmp(w) \/ Encode(w) \/ Sync(w) PROVE TypesInv'
    BY <1>4, OpenTyped, WriteTyped
  <1>5. ASSUME NEW w \in Savers, Rename(w) \/ FailSave(w) PROVE TypesInv'
    <2>1. /\ Return(w) /\ UNCHANGED <<memory, inode>>
          /\ file' \in {file, tmp} /\ tmp' \in {tmp, None}
          /\ acked' \subseteq acked \cup mem
      BY <1>5 DEF Rename, FailSave
    <2>2. /\ file' \in Inodes \cup {None} /\ tmp' \in Inodes \cup {None}
          /\ acked' \in SUBSET Mutations
      BY <2>1 DEF TypesInv, TypeOK
    <2> QED BY <2>1, <2>2, ReturnTyped
  <1>6. ASSUME NEW lost \in SUBSET Inodes, Crash(lost) PROVE TypesInv'
    <2>1. /\ inode' = [i \in Inodes |-> IF i \in lost THEN Truncated ELSE inode[i]]
          /\ mem' = IF file = None THEN {} ELSE inode'[file].data
          /\ pc' = [v \in Savers |-> "idle"]
          /\ snap' = [v \in Savers |-> {}]
          /\ req' = [v \in Savers |-> None]
          /\ fd' = [v \in Savers |-> None]
          /\ mu' = None /\ writeMu' = None
          /\ UNCHANGED <<issued, file, tmp, acked>>
      BY <1>6 DEF Crash
    <2>2. inode' \in [Inodes -> Content]
      BY <2>1 DEF TypesInv, TypeOK, Content, Truncated
    <2>3. mem' \subseteq Mutations
      BY <2>1, <2>2 DEF TypesInv, TypeOK, Content
    <2>4. TypeOK'
      BY <2>1, <2>2, <2>3 DEF TypesInv, TypeOK
    <2>5. Descriptors'
      BY <2>1 DEF Descriptors, Holding
    <2> QED BY <2>4, <2>5 DEF TypesInv
  <1>7. CASE UNCHANGED vars
    <2>1. /\ UNCHANGED <<mem, issued, pc, snap, req, mu, writeMu, inode, file, tmp, fd>>
          /\ acked' = acked
      BY <1>7 DEF vars, memory, locks, disk
    <2> QED BY <2>1 DEF TypesInv, TypeOK, Descriptors
  <1> QED BY <1>1, <1>2, <1>3, <1>4, <1>5, <1>6, <1>7 DEF Next, Save

\* The variables keep their types, with any number of resets and requests at a time, and
\* an inode is free whenever saveFile opens its temporary file (store.go).
THEOREM TypesHold == Spec => []TypeOK
  <1>1. Init => TypesInv
    <2>1. ASSUME Init PROVE TypeOK
      BY <2>1, RequestsAssumption DEF Init, TypeOK, Content, Truncated, None
    <2>2. ASSUME Init PROVE Descriptors
      BY <2>2 DEF Init, Descriptors, Holding
    <2> QED BY <2>1, <2>2 DEF TypesInv
  <1>2. TypesInv /\ [Next]_vars => TypesInv'
    BY TypesInductive
  <1>3. TypesInv => TypeOK
    BY DEF TypesInv
  <1> QED BY <1>1, <1>2, <1>3, PTL DEF Spec

=============================================================================
