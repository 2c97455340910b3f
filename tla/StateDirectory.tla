-------------------------- MODULE StateDirectory --------------------------
(***************************************************************************)
(* One state directory and the processes that open it.  DurableStore       *)
(* follows one process through its journal; this module follows several    *)
(* processes, each started, refused, closed or killed at any step, through *)
(* DurableStore::open: the lock, the key file, the manifest and the first  *)
(* segment of a new store, or the replay of an existing one.  A commit is  *)
(* one record here, written in two pieces.                                 *)
(***************************************************************************)
EXTENDS Naturals, Sequences

CONSTANTS Processes,
          Exclusive,   \* those that open with exclusive_lock (pfctl without --shared, pf_node)
          Creators,    \* those that open with create_if_missing
          Keys,        \* store keys the entropy source may give
          MaxRecords,  \* bound on the records of the journal
          Nobody, NoFile, Torn, Junk

ASSUME DirectoryConstants ==
    /\ Exclusive \subseteq Processes /\ Creators \subseteq Processes
    /\ MaxRecords \in Nat
    /\ Nobody \notin Processes /\ Junk \notin Processes \cup {Nobody}
    /\ NoFile \notin Keys /\ Torn \notin Keys \cup {NoFile}

VARIABLES lock,          \* who holds the lock on lock.pfk, or Nobody
          file,          \* key file and manifest: absent, or the key they hold or are sealed with
          temp,          \* their temporary siblings; Torn is a file written in part
          segment,       \* whether a journal segment exists
          journal,       \* its whole records
          tail,          \* bytes behind them: whose record has begun, Junk, or Nobody
          pc, target,    \* where each process is, and the file it is replacing
          key, next,     \* its store key and next_sequence_
          trailing,      \* whether its replay found bytes behind the last record
          acknowledged   \* commits answered with success

disk == <<file, temp, segment, journal, tail>>
memory == <<target, key, next, trailing>>
vars == <<lock, disk, pc, memory, acknowledged>>

Files == {"key", "manifest"}

Init == /\ lock = Nobody
        /\ file = [f \in Files |-> NoFile]
        /\ temp = [f \in Files |-> NoFile]
        /\ segment = FALSE /\ journal = <<>> /\ tail = Nobody
        /\ pc = [p \in Processes |-> "Out"]
        /\ target = [p \in Processes |-> "key"]
        /\ key = [p \in Processes |-> NoFile]
        /\ next = [p \in Processes |-> 0]
        /\ trailing = [p \in Processes |-> FALSE]
        /\ acknowledged = 0

Go(p, place) == pc' = [pc EXCEPT ![p] = place]

\* Past the lock: from here on a process reads and writes the directory.
Inside(p) == pc[p] # "Out"

Opening(p) == pc[p] \notin {"Out", "Serving", "Appending", "Degraded"}

-----------------------------------------------------------------------------
(* The lock.                                                               *)

\* FileLock::acquire does not wait: a held lock fails the open before it touched anything.
Acquire(p) == /\ pc[p] = "Out"
              /\ p \in Exclusive => lock = Nobody
              /\ lock' = IF p \in Exclusive THEN p ELSE lock
              /\ Go(p, "Probing")
              /\ UNCHANGED <<disk, memory, acknowledged>>

\* The handle goes, by a destructor or with its process; the lock file stays.
Release(p) == lock' = IF lock = p THEN Nobody ELSE lock

Forget(p) == /\ target' = [target EXCEPT ![p] = "key"]
             /\ key' = [key EXCEPT ![p] = NoFile]
             /\ next' = [next EXCEPT ![p] = 0]
             /\ trailing' = [trailing EXCEPT ![p] = FALSE]

-----------------------------------------------------------------------------
(* write_atomic: a temporary sibling, then a rename.                       *)

OpenTemporary(p, f) == /\ temp' = [temp EXCEPT ![f] = Torn]
                       /\ target' = [target EXCEPT ![p] = f]
                       /\ Go(p, "Filling")

FillTemporary(p) == /\ pc[p] = "Filling"
                    /\ temp' = [temp EXCEPT ![target[p]] = key[p]]
                    /\ Go(p, "Replacing")
                    /\ UNCHANGED <<lock, file, segment, journal, tail, memory, acknowledged>>

\* Mutant: the file is replaced before its content is written.
ReplaceEarly(p) == /\ pc[p] \in {"Filling", "Replacing"}
                   /\ file' = [file EXCEPT ![target[p]] = temp[target[p]]]
                   /\ temp' = [temp EXCEPT ![target[p]] = NoFile]
                   /\ Go(p, IF target[p] = "key" THEN "Sealing" ELSE "Starting")
                   /\ UNCHANGED <<lock, segment, journal, tail, memory, acknowledged>>

AtomicReplace(p) == /\ pc[p] = "Replacing"
                    /\ file' = [file EXCEPT ![target[p]] = temp[target[p]]]
                    /\ temp' = [temp EXCEPT ![target[p]] = NoFile]
                    /\ Go(p, IF target[p] = "key" THEN "Sealing" ELSE "Starting")
                    /\ UNCHANGED <<lock, segment, journal, tail, memory, acknowledged>>

-----------------------------------------------------------------------------
(* DurableStore::open.                                                     *)

\* Without a manifest a store is created, unless a segment shows that one was lost.
Probe(p) == /\ pc[p] = "Probing"
            /\ IF file["manifest"] = NoFile
               THEN p \in Creators /\ ~segment /\ Go(p, "Keying")
               ELSE Go(p, "Reading")
            /\ UNCHANGED <<lock, disk, memory, acknowledged>>

\* read_store_key
ReadStoreKey(p) == /\ pc[p] \in {"Keying", "Reading"}
                   /\ file["key"] \in Keys
                   /\ key' = [key EXCEPT ![p] = file["key"]]
                   /\ Go(p, IF pc[p] = "Keying" THEN "Sealing" ELSE "Replaying")
                   /\ UNCHANGED <<lock, disk, target, next, trailing, acknowledged>>

\* create_store_key: a store a process died creating keeps the key it got.
CreateStoreKey(p) == /\ pc[p] = "Keying"
                     /\ file["key"] = NoFile
                     /\ \E k \in Keys : key' = [key EXCEPT ![p] = k]
                     /\ OpenTemporary(p, "key")
                     /\ UNCHANGED <<lock, file, segment, journal, tail,
                                    next, trailing, acknowledged>>

\* write_manifest seals the manifest with the key.
WriteManifest(p) == /\ pc[p] = "Sealing"
                    /\ OpenTemporary(p, "manifest")
                    /\ UNCHANGED <<lock, file, segment, journal, tail,
                                   key, next, trailing, acknowledged>>

StartSegment(p) == /\ pc[p] = "Starting"
                   /\ segment' = TRUE
                   /\ next' = [next EXCEPT ![p] = 1]
                   /\ Go(p, "Serving")
                   /\ UNCHANGED <<lock, file, temp, journal, tail,
                                  target, key, trailing, acknowledged>>

\* Every record is sealed with the key p read, and they are numbered without gap or repetition.
Sound(p) == \A i \in 1..Len(journal) : journal[i] = [sequence |-> i, key |-> key[p]]

\* replay: an unsound journal degrades the store and leaves its end alone.
Replay(p) == /\ pc[p] = "Replaying"
             /\ file["manifest"] = key[p]
             /\ next' = [next EXCEPT ![p] = Len(journal) + 1]
             /\ trailing' = [trailing EXCEPT ![p] = tail # Nobody]
             /\ Go(p, IF Sound(p) THEN "Resuming" ELSE "Degraded")
             /\ UNCHANGED <<lock, disk, target, key, acknowledged>>

\* Mutant: the unusable end stays in front of what is appended next.
ResumeBehindTail(p) == /\ pc[p] = "Resuming"
                       /\ segment' = TRUE
                       /\ Go(p, "Serving")
                       /\ UNCHANGED <<lock, file, temp, journal, tail, memory, acknowledged>>

\* As many bytes are cut from the end as the scan found unusable there; then appending
\* resumes.  Another writer may have finished its record in between.
Resume(p) == /\ pc[p] = "Resuming"
             /\ LET cut == trailing[p] /\ tail = Nobody /\ journal # <<>>
                IN  /\ journal' = IF cut THEN SubSeq(journal, 1, Len(journal) - 1) ELSE journal
                    /\ tail' = IF cut THEN Junk
                               ELSE IF trailing[p] THEN Nobody ELSE tail
             /\ segment' = TRUE
             /\ Go(p, "Serving")
             /\ UNCHANGED <<lock, file, temp, memory, acknowledged>>

-----------------------------------------------------------------------------
(* Leaving: refused, failed, closed or killed.                             *)

NotFound(p) == pc[p] = "Probing" /\ file["manifest"] = NoFile /\ p \notin Creators

\* What open() takes for damage: a segment without a manifest, no readable key, a manifest
\* sealed with another key.
Damaged(p) ==
    \/ pc[p] = "Probing" /\ file["manifest"] = NoFile /\ p \in Creators /\ segment
    \/ pc[p] = "Keying" /\ file["key"] \notin Keys \cup {NoFile}
    \/ pc[p] = "Reading" /\ file["key"] \notin Keys
    \/ pc[p] = "Replaying" /\ file["manifest"] # key[p]

\* An early return of open(): the store under construction goes, and its lock with it.
Refuse(p) == /\ NotFound(p) \/ Damaged(p)
             /\ Release(p) /\ Forget(p) /\ Go(p, "Out")
             /\ UNCHANGED <<disk, acknowledged>>

\* Mutant: a file operation failed and the lock stays with a store nobody holds.
FailHoldingLock(p) == /\ Opening(p)
                      /\ temp' = IF pc[p] \in {"Filling", "Replacing"}
                                 THEN [temp EXCEPT ![target[p]] = NoFile] ELSE temp
                      /\ Forget(p) /\ Go(p, "Out")
                      /\ UNCHANGED <<lock, file, segment, journal, tail, acknowledged>>

\* A file operation of open() fails; write_atomic removes its temporary file first.
Fail(p) == /\ Opening(p)
           /\ temp' = IF pc[p] \in {"Filling", "Replacing"}
                      THEN [temp EXCEPT ![target[p]] = NoFile] ELSE temp
           /\ Release(p) /\ Forget(p) /\ Go(p, "Out")
           /\ UNCHANGED <<file, segment, journal, tail, acknowledged>>

\* FabricRuntime::close, or an open() that fails because the store is degraded.
Close(p) == /\ pc[p] \in {"Serving", "Degraded"}
            /\ Release(p) /\ Forget(p) /\ Go(p, "Out")
            /\ UNCHANGED <<disk, acknowledged>>

\* The process dies; the platform drops its lock and nothing else is cleaned up.
Crash(p) == /\ Inside(p)
            /\ Release(p) /\ Forget(p) /\ Go(p, "Out")
            /\ UNCHANGED <<disk, acknowledged>>

-----------------------------------------------------------------------------
(* append_record: one record in two writes, as write_all may split it.     *)

BeginAppend(p) == /\ pc[p] = "Serving" /\ Len(journal) < MaxRecords
                  /\ tail' = IF tail = Nobody THEN p ELSE Junk
                  /\ Go(p, "Appending")
                  /\ UNCHANGED <<lock, file, temp, segment, journal, memory, acknowledged>>

\* The commit is acknowledged whatever became of the first piece meanwhile.
FinishAppend(p) == /\ pc[p] = "Appending"
                   /\ LET whole == tail = p
                      IN  /\ journal' = IF whole
                                        THEN Append(journal, [sequence |-> next[p], key |-> key[p]])
                                        ELSE journal
                          /\ tail' = IF whole THEN Nobody ELSE Junk
                   /\ next' = [next EXCEPT ![p] = @ + 1]
                   /\ acknowledged' = acknowledged + 1
                   /\ Go(p, "Serving")
                   /\ UNCHANGED <<lock, file, temp, segment, target, key, trailing>>

Step(p) == \/ Acquire(p) \/ Probe(p)
           \/ ReadStoreKey(p) \/ CreateStoreKey(p) \/ FillTemporary(p) \/ AtomicReplace(p)
           \/ WriteManifest(p) \/ StartSegment(p) \/ Replay(p) \/ Resume(p)
           \/ BeginAppend(p) \/ FinishAppend(p)
           \/ Refuse(p) \/ Fail(p) \/ Close(p) \/ Crash(p)

Next == \E p \in Processes : Step(p)

Spec == Init /\ [][Next]_vars

-----------------------------------------------------------------------------
(* Properties.                                                             *)

Places == {"Out", "Probing", "Keying", "Reading", "Filling", "Replacing", "Sealing", "Starting",
           "Replaying", "Resuming", "Serving", "Appending", "Degraded"}

\* Every variable keeps its type: nothing but an absent file, a partly written one, a key.
DirectoryTypeOK ==
    /\ lock \in Processes \cup {Nobody}
    /\ file \in [Files -> Keys \cup {NoFile, Torn}]
    /\ temp \in [Files -> Keys \cup {NoFile, Torn}]
    /\ segment \in BOOLEAN
    /\ journal \in Seq([sequence : Nat, key : Keys])
    /\ tail \in Processes \cup {Nobody, Junk}
    /\ pc \in [Processes -> Places]
    /\ target \in [Processes -> Files]
    /\ key \in [Processes -> Keys \cup {NoFile}]
    /\ next \in [Processes -> Nat]
    /\ trailing \in [Processes -> BOOLEAN]
    /\ acknowledged \in Nat

\* Wherever processes die while they create, open or extend a store, nobody who opens the
\* directory later meets what open() takes for damage (a segment without its manifest, a torn
\* or foreign key, store.cpp:575-600) or is left with a degraded store.
NeverDamaged == \A p \in Processes : ~Damaged(p) /\ pc[p] # "Degraded"

\* "two live writers can never interleave on one state directory" (store.cpp:551): records
\* are numbered in order under the one key of the directory, and every acknowledged one is
\* still there, whoever wrote it.
WritersNeverInterleave ==
    /\ \A i \in 1..Len(journal) : journal[i] = [sequence |-> i, key |-> file["key"]]
    /\ acknowledged <= Len(journal)

\* The lock is held by the process that is past it and by no other: an open() that failed,
\* a store that closed and a process that died leave the directory to the next (fsutil.cpp:401).
LockMeansPresence == \A p \in Exclusive : lock = p <=> Inside(p)
=============================================================================
