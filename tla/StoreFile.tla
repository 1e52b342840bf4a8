----------------------------- MODULE StoreFile ------------------------------
(***************************************************************************)
(* How one collection of the store reaches its JSON file.                    *)
(*                                                                           *)
(* A mutating method of Store changes the collection under s.mu, copies it    *)
(* and releases s.mu; then persist takes s.writeMu and saveFile writes the    *)
(* copy to <file>.tmp, syncs it and renames it over the file.  Requests run   *)
(* concurrently, so several copies may be waiting for writeMu at once.        *)
(* The two reset methods keep s.mu and call saveFile without writeMu.         *)
(*                                                                           *)
(* A mutation is a number and the collection is the set of the mutations it    *)
(* reflects, so "the file holds what was acknowledged" is set inclusion.      *)
(* Files are inodes reached through two names, because a rename moves         *)
(* whatever inode the name <file>.tmp has at that moment.                     *)
(***************************************************************************)
EXTENDS Naturals, FiniteSets

CONSTANTS Requests,     \* goroutines that run mutating methods
          Resetters,    \* goroutines that run ResetToEmpty or ResetDatabase
          MaxMutations  \* bound on the mutations of a behaviour

\* No goroutine, no inode, no mutation.
None == 0

ASSUME RequestsAssumption == /\ IsFiniteSet(Requests \cup Resetters)
                             /\ None \notin Requests \cup Resetters
                             /\ Requests \cap Resetters = {}
                             /\ MaxMutations \in Nat

Savers == Requests \cup Resetters

\* One inode more than there are processes is always enough: each process has
\* at most one open, and the file has one.
Inodes == 1..(Cardinality(Savers) + 1)

VARIABLES mem,      \* the collection in memory
          issued,   \* number of the last mutation
          pc,       \* where each goroutine is
          snap,     \* the copy it took under s.mu
          req,      \* the mutation it has to acknowledge, None for a flush
          mu,       \* the resetter that holds s.mu, or None
          writeMu,  \* the goroutine that holds s.writeMu, or None
          inode,    \* content of each inode
          file,     \* the inode named <file>, or None
          tmp,      \* the inode named <file>.tmp, or None
          fd,       \* the inode a goroutine has open
          acked     \* mutations whose caller was told they succeeded

memory == <<mem, issued>>
disk == <<inode, file, tmp>>
locks == <<mu, writeMu>>
vars == <<memory, pc, snap, req, locks, disk, fd, acked>>

Mutations == 1..MaxMutations

\* An inode holds a whole encoding (json.Encoder writes once) or nothing.
Content == [data : SUBSET Mutations, whole : BOOLEAN, synced : BOOLEAN]
Truncated == [data |-> {}, whole |-> FALSE, synced |-> FALSE]

\* What loadFile makes of the file: nothing when it is missing or undecodable.
Loadable == IF file = None THEN {} ELSE inode[file].data

Goto(w, from, to) == pc[w] = from /\ pc' = [pc EXCEPT ![w] = to]

Active == {w \in Savers : pc[w] # "idle"}
InUse == {file, tmp} \cup {fd[w] : w \in Savers}

Init == /\ mem = {}
        /\ issued = 0
        /\ pc = [w \in Savers |-> "idle"]
        /\ snap = [w \in Savers |-> {}]
        /\ req = [w \in Savers |-> None]
        /\ mu = None
        /\ writeMu = None
        /\ inode = [i \in Inodes |-> Truncated]
        /\ file = None
        /\ tmp = None
        /\ fd = [w \in Savers |-> None]
        /\ acked = {}

(***************************************************************************)
(* Under s.mu.                                                               *)
(***************************************************************************)
\* Mutant: the number is used before it is incremented.
MutateOldNumber(w) ==
    /\ mu = None
    /\ issued < MaxMutations
    /\ Goto(w, "idle", "saving")
    /\ issued' = issued + 1
    /\ mem' = mem \cup {issued}
    /\ snap' = [snap EXCEPT ![w] = mem']
    /\ req' = [req EXCEPT ![w] = issued]
    /\ UNCHANGED <<locks, disk, fd, acked>>

\* A Create, Update or Delete method: change, copy, unlock.
Mutate(w) ==
    /\ mu = None
    /\ issued < MaxMutations
    /\ Goto(w, "idle", "saving")
    /\ issued' = issued + 1
    /\ mem' = mem \cup {issued'}
    /\ snap' = [snap EXCEPT ![w] = mem']
    /\ req' = [req EXCEPT ![w] = issued']
    /\ UNCHANGED <<locks, disk, fd, acked>>

\* FlushAll: copy under the read lock.
FlushAll(w) ==
    /\ mu = None
    /\ Goto(w, "idle", "saving")
    /\ snap' = [snap EXCEPT ![w] = mem]
    /\ req' = [req EXCEPT ![w] = None]
    /\ UNCHANGED <<memory, locks, disk, fd, acked>>

\* A reset empties the collection and keeps s.mu until the file is written.
\* What was acknowledged before is meant to be gone.
Reset(r) ==
    /\ mu = None
    /\ Goto(r, "idle", "saving")
    /\ mu' = r
    /\ mem' = {}
    /\ snap' = [snap EXCEPT ![r] = {}]
    /\ acked' = {}
    /\ UNCHANGED <<issued, req, writeMu, disk, fd>>

(***************************************************************************)
(* persist and saveFile.                                                     *)
(***************************************************************************)
\* persist takes writeMu; a reset calls saveFile directly.
Acquire(w) == IF w \in Requests THEN writeMu = None /\ writeMu' = w
                                ELSE UNCHANGED writeMu

\* Mutant: an unlock of writeMu is missing.
ReturnLocked(w) == /\ pc' = [pc EXCEPT ![w] = "idle"]
                   /\ mu' = IF mu = w THEN None ELSE mu
                   /\ snap' = [snap EXCEPT ![w] = {}]
                   /\ req' = [req EXCEPT ![w] = None]
                   /\ fd' = [fd EXCEPT ![w] = None]
                   /\ UNCHANGED writeMu

\* saveFile returns: the deferred unlock of persist, or of s.mu at the end of
\* a reset, and the copy and the descriptor are gone.
Return(w) == /\ pc' = [pc EXCEPT ![w] = "idle"]
             /\ writeMu' = IF writeMu = w THEN None ELSE writeMu
             /\ mu' = IF mu = w THEN None ELSE mu
             /\ snap' = [snap EXCEPT ![w] = {}]
             /\ req' = [req EXCEPT ![w] = None]
             /\ fd' = [fd EXCEPT ![w] = None]

\* os.OpenFile(tmp, O_CREATE|O_TRUNC): an existing inode is truncated in place.
OpenTmp(w) ==
    /\ Goto(w, "saving", "opened")
    /\ Acquire(w)
    /\ tmp' = IF tmp # None THEN tmp
              ELSE CHOOSE i \in Inodes : i \notin InUse
    /\ fd' = [fd EXCEPT ![w] = tmp']
    /\ inode' = [inode EXCEPT ![tmp'] = Truncated]
    /\ UNCHANGED <<memory, snap, req, mu, file, acked>>

\* Mutant: the file is renamed without having been synced.
EncodeUnsynced(w) ==
    /\ Goto(w, "opened", "synced")
    /\ inode' = [inode EXCEPT ![fd[w]] =
                    [data |-> snap[w], whole |-> TRUE, synced |-> FALSE]]
    /\ UNCHANGED <<memory, snap, req, locks, file, tmp, fd, acked>>

\* Mutant: no copy is used, the encoder reads the live collection.
EncodeLive(w) ==
    /\ Goto(w, "opened", "encoded")
    /\ inode' = [inode EXCEPT ![fd[w]] =
                    [data |-> mem, whole |-> TRUE, synced |-> FALSE]]
    /\ UNCHANGED <<memory, snap, req, locks, file, tmp, fd, acked>>

Encode(w) ==
    /\ Goto(w, "opened", "encoded")
    /\ inode' = [inode EXCEPT ![fd[w]] =
                    [data |-> snap[w], whole |-> TRUE, synced |-> FALSE]]
    /\ UNCHANGED <<memory, snap, req, locks, file, tmp, fd, acked>>

Sync(w) ==
    /\ Goto(w, "encoded", "synced")
    /\ inode' = [inode EXCEPT ![fd[w]].synced = TRUE]
    /\ UNCHANGED <<memory, snap, req, locks, file, tmp, fd, acked>>

\* os.Rename moves the inode that has the name now; then the caller learns.
\* A mutation that a reset erased meanwhile is owed to nobody.
Rename(w) ==
    /\ tmp # None
    /\ pc[w] = "synced"
    /\ file' = tmp
    /\ tmp' = None
    /\ acked' = acked \cup ({req[w]} \cap mem)
    /\ Return(w)
    /\ UNCHANGED <<memory, inode>>

(***************************************************************************)
(* Failures.                                                                 *)
(***************************************************************************)
\* The save fails and the caller is told so; the mutation stays in memory.
\* A failed encode or sync removes the temporary name, a failed open or rename
\* leaves it; a rename also fails when another rename took the name away.
FailSave(w) ==
    /\ pc[w] # "idle"
    /\ pc[w] = "saving" /\ w \in Requests => writeMu = None
    /\ tmp' = IF pc[w] \in {"opened", "encoded"} THEN None ELSE tmp
    /\ Return(w)
    /\ UNCHANGED <<memory, inode, file, acked>>

\* Mutant: the new process does not load the file.
CrashForgets(lost) ==
    /\ lost \subseteq {i \in InUse \ {None} : ~inode[i].synced}
    /\ inode' = [i \in Inodes |-> IF i \in lost THEN Truncated ELSE inode[i]]
    /\ mem' = {}
    /\ pc' = [w \in Savers |-> "idle"]
    /\ snap' = [w \in Savers |-> {}]
    /\ req' = [w \in Savers |-> None]
    /\ fd' = [w \in Savers |-> None]
    /\ mu' = None
    /\ writeMu' = None
    /\ UNCHANGED <<issued, file, tmp, acked>>

\* The process dies and a new one loads the file.  When the machine loses
\* power, inodes that were not synced may come back empty.
Crash(lost) ==
    /\ lost \subseteq {i \in InUse \ {None} : ~inode[i].synced}
    /\ inode' = [i \in Inodes |-> IF i \in lost THEN Truncated ELSE inode[i]]
    /\ mem' = IF file = None THEN {} ELSE inode'[file].data
    /\ pc' = [w \in Savers |-> "idle"]
    /\ snap' = [w \in Savers |-> {}]
    /\ req' = [w \in Savers |-> None]
    /\ fd' = [w \in Savers |-> None]
    /\ mu' = None
    /\ writeMu' = None
    /\ UNCHANGED <<issued, file, tmp, acked>>

Save(w) == OpenTmp(w) \/ Encode(w) \/ Sync(w) \/ Rename(w)

Next == \/ \E w \in Requests : Mutate(w) \/ FlushAll(w)
        \/ \E r \in Resetters : Reset(r)
        \/ \E w \in Savers : Save(w) \/ FailSave(w)
        \/ \E lost \in SUBSET Inodes : Crash(lost)

Spec == Init /\ [][Next]_vars

\* A goroutine runs until it blocks, and sync.Mutex hands a starving waiter the
\* lock, so a save that is waiting gets writeMu in the end.
Fairness == \A w \in Savers : /\ WF_vars(Encode(w) \/ Sync(w))
                               /\ WF_vars(Rename(w) \/ FailSave(w))
                               /\ SF_vars(OpenTmp(w))

FairSpec == Spec /\ Fairness

(***************************************************************************)
(* Properties.                                                               *)
(***************************************************************************)

\* The variables keep their types (store.go: persist, saveFile and callers).
TypeOK == /\ mem \subseteq Mutations
          /\ issued \in 0..MaxMutations
          /\ pc \in [Savers -> {"idle", "saving", "opened", "encoded", "synced"}]
          /\ snap \in [Savers -> SUBSET Mutations]
          /\ req \in [Savers -> Mutations \cup {None}]
          /\ mu \in Resetters \cup {None}
          /\ writeMu \in Requests \cup {None}
          /\ inode \in [Inodes -> Content]
          /\ file \in Inodes \cup {None}
          /\ tmp \in Inodes \cup {None}
          /\ fd \in [Savers -> Inodes \cup {None}]
          /\ acked \subseteq Mutations

\* The file under its final name is always a whole encoding that has reached
\* the disk: a crash or a power failure at any moment leaves a loadable file
\* (saveFile: write, sync, then rename, one writer of <file>.tmp at a time).
FileNeverTorn == file # None => inode[file].whole /\ inode[file].synced

\* What a caller was told is saved can be loaded again, unless a reset erased
\* it.  Holds when one request runs at a time; with two, the older copy may be
\* written last (persist takes writeMu after s.mu is released).
AckedDurable == acked \subseteq Loadable

\* A mutation is settled when it is in memory, in the file and in every copy
\* still on its way to the file.
Settled == {m \in mem : m \in Loadable /\ \A w \in Active : m \in snap[w]}

\* Nothing that happens later loses a settled mutation: not the saves in
\* flight, not those still to come, not a failure, not a crash.
SettledStays == [][\A m \in Settled : m \in Settled']_vars

\* Every save ends: a goroutine that has its copy gets writeMu and returns to
\* its caller (or the process dies).
EverySaveEnds == \A w \in Savers : pc[w] = "saving" ~> pc[w] = "idle"

\* The promise of the pair memory and file, without copies in progress,
\* descriptors, names or locks: see DurableCell.
Cell == INSTANCE DurableCell WITH
            Contents <- SUBSET Mutations, Empty <- {},
            cell <- mem, disk <- Loadable,
            copies <- {snap[w] : w \in Active}
CellSpec == Cell!Spec

=============================================================================
