----------------------- MODULE StateDirectoryProofs -----------------------
(***************************************************************************)
(* Proofs about StateDirectory for any number of processes that all take   *)
(* the lock, any keys and any number of records.  The three properties the *)
(* runs check are not inductive: DirectoryInv adds what is true of the     *)
(* disk at each place of the process inside.                               *)
(***************************************************************************)
EXTENDS StateDirectory, TLAPS

\* Every opener takes the lock.
AllLock == Exclusive = Processes

\* The process inside is the one that holds the lock.
OneInside == \A p \in Processes : Inside(p) <=> lock = p

\* What the files on disk say of each other, whoever is inside.
DiskAgrees ==
    /\ file["key"] \in Keys \cup {NoFile}
    /\ file["manifest"] # NoFile => file["manifest"] = file["key"] /\ file["key"] \in Keys
    /\ segment => file["manifest"] # NoFile
    /\ journal # <<>> \/ tail # Nobody => segment

\* While a store is being created there is nothing but, perhaps, a key.
Blank == file["manifest"] = NoFile /\ ~segment

\* The store is complete and p works under its key.
Holds(p) == file["manifest"] # NoFile /\ key[p] = file["key"]

PlaceAgrees(p) ==
    /\ pc[p] = "Keying" => Blank
    /\ pc[p] \in {"Filling", "Replacing"} =>
          /\ Blank /\ key[p] \in Keys
          /\ target[p] = "key" => file["key"] = NoFile
          /\ target[p] = "manifest" => file["key"] = key[p]
    /\ pc[p] = "Replacing" => temp[target[p]] = key[p]
    /\ pc[p] = "Sealing" => Blank /\ key[p] \in Keys /\ file["key"] = key[p]
    /\ pc[p] = "Starting" => Holds(p) /\ ~segment /\ tail = Nobody
    /\ pc[p] = "Reading" => file["manifest"] # NoFile
    /\ pc[p] = "Replaying" => Holds(p)
    /\ pc[p] = "Resuming" => /\ Holds(p) /\ next[p] = Len(journal) + 1
                             /\ trailing[p] <=> tail # Nobody
    /\ pc[p] = "Serving" => Holds(p) /\ next[p] = Len(journal) + 1 /\ tail = Nobody
    /\ pc[p] = "Appending" => Holds(p) /\ next[p] = Len(journal) + 1 /\ tail = p
    /\ pc[p] \in {"Serving", "Appending"} => segment
    /\ pc[p] # "Degraded"

\* The inductive invariant.
DirectoryInv ==
    /\ DirectoryTypeOK
    /\ OneInside
    /\ DiskAgrees
    /\ WritersNeverInterleave
    /\ \A p \in Processes : PlaceAgrees(p)

\* While one process acts every other one is out, before and after.
LEMMA OthersOut ==
    ASSUME AllLock, DirectoryInv, NEW p \in Processes, Step(p)
    PROVE  \A q \in Processes \ {p} : pc[q] = "Out" /\ pc'[q] = "Out"
<1>1. Inside(p) \/ Acquire(p)
  BY DEF Step, Inside, Probe, ReadStoreKey, CreateStoreKey, FillTemporary, AtomicReplace,
         WriteManifest, StartSegment, Replay, Resume, BeginAppend, FinishAppend,
         Refuse, NotFound, Damaged, Fail, Opening, Close, Crash
<1>2. \A q \in Processes \ {p} : pc[q] = "Out"
  BY <1>1, DirectoryConstants DEF AllLock, DirectoryInv, OneInside, Inside, Acquire
<1>3. \E place : pc' = [pc EXCEPT ![p] = place]
  BY DEF Step, Acquire, Probe, ReadStoreKey, CreateStoreKey, FillTemporary, AtomicReplace,
         WriteManifest, StartSegment, Replay, Resume, BeginAppend, FinishAppend,
         Refuse, Fail, Close, Crash, Go, OpenTemporary
<1> QED
  BY <1>2, <1>3 DEF DirectoryInv, DirectoryTypeOK

\* A process that leaves without writing to a file of the store takes nothing along but its
\* lock: refusals, failures, close() and death all keep the invariant.
LEMMA LeavingKeeps ==
    ASSUME AllLock, DirectoryInv, NEW p \in Processes, Inside(p),
           Release(p), Forget(p), Go(p, "Out"),
           temp' \in [Files -> Keys \cup {NoFile, Torn}],
           UNCHANGED <<file, segment, journal, tail, acknowledged>>
    PROVE  DirectoryInv'
<1>1. \A q \in Processes : pc'[q] = "Out"
  BY DEF DirectoryInv, DirectoryTypeOK, OneInside, Inside, Go
<1>2. lock' = Nobody
  BY DEF DirectoryInv, OneInside, Release
<1>3. DirectoryTypeOK'
  BY <1>2 DEF DirectoryInv, DirectoryTypeOK, Forget, Go, Places, Files
<1>4. OneInside'
  BY <1>1, <1>2, DirectoryConstants DEF OneInside, Inside
<1>5. DiskAgrees' /\ WritersNeverInterleave'
  BY DEF DirectoryInv, DiskAgrees, WritersNeverInterleave
<1>6. \A q \in Processes : PlaceAgrees(q)'
  BY <1>1 DEF PlaceAgrees
<1> QED
  BY <1>3, <1>4, <1>5, <1>6 DEF DirectoryInv

\* Every step keeps the invariant.
LEMMA StepKeeps ==
    ASSUME AllLock, DirectoryInv, NEW p \in Processes, Step(p)
    PROVE  DirectoryInv'
<1>0. \A q \in Processes \ {p} : PlaceAgrees(q)'
  BY OthersOut DEF PlaceAgrees
<1>1. CASE Acquire(p)
  <2>1. DirectoryTypeOK'
    BY <1>1 DEF Acquire, DirectoryInv, DirectoryTypeOK, Files, Places, Go, disk, memory
  <2>2. OneInside'
    BY <1>1, DirectoryConstants DEF Acquire, DirectoryInv, DirectoryTypeOK, OneInside,
       Inside, Go, AllLock
  <2>3. DiskAgrees' /\ WritersNeverInterleave'
    BY <1>1 DEF Acquire, DirectoryInv, DiskAgrees, WritersNeverInterleave, disk
  <2>4. PlaceAgrees(p)'
    BY <1>1 DEF Acquire, DirectoryInv, DirectoryTypeOK, PlaceAgrees, Go
  <2> QED
    BY <1>0, <2>1, <2>2, <2>3, <2>4 DEF DirectoryInv
<1>2. CASE Probe(p)
  <2>1. DirectoryTypeOK'
    BY <1>2, Zenon DEF Probe, DirectoryInv, DirectoryTypeOK, Files, Places, Go, disk, memory
  <2>2. OneInside'
    BY <1>2 DEF Probe, DirectoryInv, DirectoryTypeOK, OneInside, Inside, Go
  <2>3. DiskAgrees' /\ WritersNeverInterleave'
    BY <1>2 DEF Probe, DirectoryInv, DiskAgrees, WritersNeverInterleave, disk
  <2>4. PlaceAgrees(p)'
    BY <1>2 DEF Probe, DirectoryInv, DirectoryTypeOK, PlaceAgrees, Go, Blank, disk
  <2> QED
    BY <1>0, <2>1, <2>2, <2>3, <2>4 DEF DirectoryInv
<1>3. CASE ReadStoreKey(p)
  <2>1. DirectoryTypeOK'
    BY <1>3 DEF ReadStoreKey, DirectoryInv, DirectoryTypeOK, Files, Places, Go, disk
  <2>2. OneInside'
    BY <1>3 DEF ReadStoreKey, DirectoryInv, DirectoryTypeOK, OneInside, Inside, Go
  <2>3. DiskAgrees' /\ WritersNeverInterleave'
    BY <1>3 DEF ReadStoreKey, DirectoryInv, DiskAgrees, WritersNeverInterleave, disk
  <2>4. PlaceAgrees(p)'
    BY <1>3 DEF ReadStoreKey, DirectoryInv, DirectoryTypeOK, PlaceAgrees, Go, DiskAgrees,
       Blank, Holds, disk
  <2> QED
    BY <1>0, <2>1, <2>2, <2>3, <2>4 DEF DirectoryInv
<1>4. CASE CreateStoreKey(p)
  <2>1. DirectoryTypeOK'
    BY <1>4 DEF CreateStoreKey, DirectoryInv, DirectoryTypeOK, Files, Places, Go,
       OpenTemporary
  <2>2. OneInside'
    BY <1>4 DEF CreateStoreKey, DirectoryInv, DirectoryTypeOK, OneInside, Inside, Go,
       OpenTemporary
  <2>3. DiskAgrees' /\ WritersNeverInterleave'
    BY <1>4 DEF CreateStoreKey, DirectoryInv, DiskAgrees, WritersNeverInterleave,
       OpenTemporary
  <2>4. PlaceAgrees(p)'
    BY <1>4 DEF CreateStoreKey, DirectoryInv, DirectoryTypeOK, PlaceAgrees, Go, Blank,
       OpenTemporary, Files
  <2> QED
    BY <1>0, <2>1, <2>2, <2>3, <2>4 DEF DirectoryInv
<1>5. CASE FillTemporary(p)
  <2>1. DirectoryTypeOK'
    BY <1>5 DEF FillTemporary, DirectoryInv, DirectoryTypeOK, Files, Places, Go, memory
  <2>2. OneInside'
    BY <1>5 DEF FillTemporary, DirectoryInv, DirectoryTypeOK, OneInside, Inside, Go
  <2>3. DiskAgrees' /\ WritersNeverInterleave'
    BY <1>5 DEF FillTemporary, DirectoryInv, DiskAgrees, WritersNeverInterleave
  <2>4. PlaceAgrees(p)'
    BY <1>5, DirectoryConstants DEF FillTemporary, DirectoryInv, DirectoryTypeOK,
       PlaceAgrees, Go, Blank, memory, Files
  <2> QED
    BY <1>0, <2>1, <2>2, <2>3, <2>4 DEF DirectoryInv
<1>6. CASE AtomicReplace(p)
  <2>1. DirectoryTypeOK'
    BY <1>6 DEF AtomicReplace, DirectoryInv, DirectoryTypeOK, Files, Places, Go, memory
  <2>2. OneInside'
    BY <1>6 DEF AtomicReplace, DirectoryInv, DirectoryTypeOK, OneInside, Inside, Go
  <2>3. DiskAgrees' /\ WritersNeverInterleave'
    <3>1. Blank /\ key[p] \in Keys /\ temp[target[p]] = key[p] /\ target[p] \in Files
      BY <1>6 DEF AtomicReplace, DirectoryInv, DirectoryTypeOK, PlaceAgrees
    <3>2. journal = <<>> /\ journal' = <<>> /\ tail' = Nobody
      BY <1>6, <3>1 DEF AtomicReplace, DirectoryInv, DiskAgrees, Blank
    <3>3. DiskAgrees'
      BY <1>6, <3>1, <3>2, DirectoryConstants DEF AtomicReplace, DirectoryInv,
         DirectoryTypeOK, DiskAgrees, PlaceAgrees, Blank, Files
    <3>4. WritersNeverInterleave'
      BY <1>6, <3>2 DEF AtomicReplace, DirectoryInv, WritersNeverInterleave
    <3> QED
      BY <3>3, <3>4
  <2>4. PlaceAgrees(p)'
    BY <1>6, DirectoryConstants DEF AtomicReplace, DirectoryInv, DirectoryTypeOK,
       PlaceAgrees, Go, DiskAgrees, Blank, Holds, memory, Files
  <2> QED
    BY <1>0, <2>1, <2>2, <2>3, <2>4 DEF DirectoryInv
<1>7. CASE WriteManifest(p)
  <2>1. DirectoryTypeOK'
    BY <1>7 DEF WriteManifest, DirectoryInv, DirectoryTypeOK, Files, Places, Go,
       OpenTemporary
  <2>2. OneInside'
    BY <1>7 DEF WriteManifest, DirectoryInv, DirectoryTypeOK, OneInside, Inside, Go,
       OpenTemporary
  <2>3. DiskAgrees' /\ WritersNeverInterleave'
    BY <1>7 DEF WriteManifest, DirectoryInv, DiskAgrees, WritersNeverInterleave,
       OpenTemporary
  <2>4. PlaceAgrees(p)'
    BY <1>7 DEF WriteManifest, DirectoryInv, DirectoryTypeOK, PlaceAgrees, Go, Blank,
       OpenTemporary, Files
  <2> QED
    BY <1>0, <2>1, <2>2, <2>3, <2>4 DEF DirectoryInv
<1>8. CASE StartSegment(p)
  <2>1. DirectoryTypeOK'
    BY <1>8 DEF StartSegment, DirectoryInv, DirectoryTypeOK, Files, Places, Go
  <2>2. OneInside'
    BY <1>8 DEF StartSegment, DirectoryInv, DirectoryTypeOK, OneInside, Inside, Go
  <2>3. DiskAgrees' /\ WritersNeverInterleave'
    BY <1>8 DEF StartSegment, DirectoryInv, DiskAgrees, PlaceAgrees, Holds,
       WritersNeverInterleave
  <2>4. PlaceAgrees(p)'
    BY <1>8 DEF StartSegment, DirectoryInv, DirectoryTypeOK, PlaceAgrees, Go, DiskAgrees,
       Holds
  <2> QED
    BY <1>0, <2>1, <2>2, <2>3, <2>4 DEF DirectoryInv
<1>9. CASE Replay(p)
  <2>1. DirectoryTypeOK'
    BY <1>9 DEF Replay, DirectoryInv, DirectoryTypeOK, Files, Places, Go, disk
  <2>2. OneInside'
    BY <1>9 DEF Replay, DirectoryInv, DirectoryTypeOK, OneInside, Inside, Go
  <2>0. Sound(p)
    BY <1>9 DEF Replay, Sound, DirectoryInv, WritersNeverInterleave, PlaceAgrees, Holds
  <2>3. DiskAgrees' /\ WritersNeverInterleave'
    BY <1>9 DEF Replay, DirectoryInv, DiskAgrees, WritersNeverInterleave, disk
  <2>4. PlaceAgrees(p)'
    BY <1>9, <2>0, Zenon DEF Replay, DirectoryInv, DirectoryTypeOK, PlaceAgrees, Go, Holds, disk
  <2> QED
    BY <1>0, <2>1, <2>2, <2>3, <2>4 DEF DirectoryInv
<1>10. CASE Resume(p)
  <2>1. DirectoryTypeOK'
    BY <1>10 DEF Resume, DirectoryInv, DirectoryTypeOK, Files, Places, Go, memory
  <2>2. OneInside'
    BY <1>10 DEF Resume, DirectoryInv, DirectoryTypeOK, OneInside, Inside, Go
  <2>0. ~(trailing[p] /\ tail = Nobody)
    BY <1>10 DEF Resume, DirectoryInv, PlaceAgrees
  <2>3. DiskAgrees' /\ WritersNeverInterleave'
    BY <1>10, <2>0 DEF Resume, DirectoryInv, DiskAgrees, PlaceAgrees, Holds,
       WritersNeverInterleave
  <2>4. PlaceAgrees(p)'
    BY <1>10, <2>0 DEF Resume, DirectoryInv, DirectoryTypeOK, PlaceAgrees, Go, Holds, memory
  <2> QED
    BY <1>0, <2>1, <2>2, <2>3, <2>4 DEF DirectoryInv
<1>11. CASE BeginAppend(p)
  <2>1. DirectoryTypeOK'
    BY <1>11 DEF BeginAppend, DirectoryInv, DirectoryTypeOK, Files, Places, Go, memory
  <2>2. OneInside'
    BY <1>11 DEF BeginAppend, DirectoryInv, DirectoryTypeOK, OneInside, Inside, Go
  <2>3. DiskAgrees' /\ WritersNeverInterleave'
    BY <1>11 DEF BeginAppend, DirectoryInv, DiskAgrees, PlaceAgrees, WritersNeverInterleave
  <2>4. PlaceAgrees(p)'
    BY <1>11 DEF BeginAppend, DirectoryInv, DirectoryTypeOK, PlaceAgrees, Go, Holds, memory
  <2> QED
    BY <1>0, <2>1, <2>2, <2>3, <2>4 DEF DirectoryInv
<1>12. CASE FinishAppend(p)
  <2> DEFINE record == [sequence |-> Len(journal) + 1, key |-> file["key"]]
  <2>0. /\ journal' = Append(journal, record) /\ record \in [sequence : Nat, key : Keys]
        /\ journal \in Seq([sequence : Nat, key : Keys]) /\ tail' = Nobody
    BY <1>12 DEF FinishAppend, DirectoryInv, DirectoryTypeOK, DiskAgrees, PlaceAgrees, Holds
  <2> HIDE DEF record
  <2>1. DirectoryTypeOK'
    <3>1. journal' \in Seq([sequence : Nat, key : Keys])
      BY <2>0
    <3>2. next' \in [Processes -> Nat] /\ acknowledged' \in Nat
      BY <1>12 DEF FinishAppend, DirectoryInv, DirectoryTypeOK
    <3> QED
      BY <1>12, <2>0, <3>1, <3>2 DEF FinishAppend, DirectoryInv, DirectoryTypeOK, Places, Go
  <2>2. OneInside'
    BY <1>12 DEF FinishAppend, DirectoryInv, DirectoryTypeOK, OneInside, Inside, Go
  <2>3. DiskAgrees' /\ WritersNeverInterleave'
    <3>1. DiskAgrees'
      BY <1>12 DEF FinishAppend, DirectoryInv, DiskAgrees, PlaceAgrees
    <3>2. Len(journal') = Len(journal) + 1 /\ acknowledged' <= Len(journal')
      BY <1>12, <2>0 DEF FinishAppend, DirectoryInv, DirectoryTypeOK, WritersNeverInterleave
    <3>3. ASSUME NEW i \in 1..Len(journal')
          PROVE  journal'[i] = [sequence |-> i, key |-> file["key"]]
      <4>1. CASE i = Len(journal) + 1
        BY <4>1, <2>0 DEF record
      <4>2. CASE i # Len(journal) + 1
        <5>1. i \in 1..Len(journal) /\ journal'[i] = journal[i]
          BY <4>2, <3>2, <2>0
        <5> QED
          BY <5>1 DEF DirectoryInv, WritersNeverInterleave
      <4> QED
        BY <4>1, <4>2
    <3> QED
      BY <1>12, <3>1, <3>2, <3>3 DEF FinishAppend, WritersNeverInterleave
  <2>4. PlaceAgrees(p)'
    BY <1>12, <2>0 DEF FinishAppend, DirectoryInv, DirectoryTypeOK, PlaceAgrees, Holds, Go
  <2> QED
    BY <1>0, <2>1, <2>2, <2>3, <2>4 DEF DirectoryInv
<1>13. CASE Refuse(p) \/ Fail(p) \/ Close(p) \/ Crash(p)
  <2>1. Inside(p) /\ Release(p) /\ Forget(p) /\ Go(p, "Out")
    BY <1>13 DEF Refuse, NotFound, Damaged, Fail, Opening, Close, Crash, Inside
  <2>2. UNCHANGED <<file, segment, journal, tail, acknowledged>>
    BY <1>13 DEF Refuse, Fail, Close, Crash, disk
  <2>3. temp' \in [Files -> Keys \cup {NoFile, Torn}]
    BY <1>13, Zenon DEF Refuse, Fail, Close, Crash, disk, DirectoryInv, DirectoryTypeOK
  <2> QED
    BY <2>1, <2>2, <2>3, LeavingKeeps
<1> QED
  BY <1>1, <1>2, <1>3, <1>4, <1>5, <1>6, <1>7, <1>8, <1>9, <1>10, <1>11, <1>12, <1>13 DEF Step

\* The invariant of a directory whose openers all take the lock, for any number of them.
THEOREM DirectoryInvariance ==
    ASSUME AllLock
    PROVE  Spec => []DirectoryInv
<1>1. ASSUME Init
      PROVE  DirectoryInv
  <2>1. DirectoryTypeOK
    <3>1. journal \in Seq([sequence : Nat, key : Keys])
      BY <1>1 DEF Init
    <3>2. pc \in [Processes -> Places] /\ target \in [Processes -> Files]
      BY <1>1 DEF Init, Files, Places
    <3>3. next \in [Processes -> Nat] /\ acknowledged \in Nat
      BY <1>1 DEF Init
    <3> QED
      BY <1>1, <3>1, <3>2, <3>3, Zenon DEF Init, DirectoryTypeOK
  <2>2. OneInside
    BY <1>1, DirectoryConstants, Zenon DEF Init, OneInside, Inside
  <2>3. DiskAgrees
    BY <1>1 DEF Init, DiskAgrees, Files
  <2>4. WritersNeverInterleave
    BY <1>1 DEF Init, WritersNeverInterleave
  <2>5. \A p \in Processes : PlaceAgrees(p)
    BY <1>1, Zenon DEF Init, PlaceAgrees
  <2> QED
    BY <2>1, <2>2, <2>3, <2>4, <2>5 DEF DirectoryInv
<1>2. ASSUME DirectoryInv, [Next]_vars
      PROVE  DirectoryInv'
  <2>1. CASE UNCHANGED vars
    BY <1>2, <2>1 DEF vars, disk, memory, DirectoryInv, DirectoryTypeOK, OneInside, Inside,
       DiskAgrees, WritersNeverInterleave, PlaceAgrees, Blank, Holds
  <2>2. CASE Next
    BY <1>2, <2>2, StepKeeps DEF Next
  <2> QED
    BY <1>2, <2>1, <2>2
<1> QED
  BY <1>1, <1>2, PTL DEF Spec

\* Processes may die at any step of creating, opening or extending a store: no later open()
\* of it meets damage or a degraded store.
THEOREM CrashesNeverDamage ==
    ASSUME AllLock
    PROVE  Spec => []NeverDamaged
<1>1. ASSUME DirectoryInv
      PROVE  NeverDamaged
  BY <1>1, Zenon DEF DirectoryInv, DiskAgrees, PlaceAgrees, Blank, Holds, NeverDamaged, Damaged
<1> QED
  BY <1>1, DirectoryInvariance, PTL

\* DurableStore::open takes the lock before anything is read or written, so writers follow
\* one another: records stay numbered in order, under one key, and none acknowledged is lost.
THEOREM WritersTakeTurns ==
    ASSUME AllLock
    PROVE  Spec => []WritersNeverInterleave
<1>1. DirectoryInv => WritersNeverInterleave
  BY DEF DirectoryInv
<1> QED
  BY <1>1, DirectoryInvariance, PTL

\* The lock is held exactly by the process that is past FileLock::acquire.
THEOREM LockIsNeverLeaked ==
    ASSUME AllLock
    PROVE  Spec => []LockMeansPresence
<1>1. ASSUME DirectoryInv
      PROVE  LockMeansPresence
  BY <1>1, Zenon DEF AllLock, DirectoryInv, OneInside, LockMeansPresence
<1> QED
  BY <1>1, DirectoryInvariance, PTL
=============================================================================
