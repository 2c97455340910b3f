---------------------------- MODULE DurableStore ----------------------------
(***************************************************************************)
(* The crash-safe store behind a fabric runtime (src/src/store.cpp, with   *)
(* the record scan of durability.cpp): journal segments, manifest,         *)
(* snapshot, the commit protocol, checkpoints, recovery and verification.  *)
(*                                                                         *)
(* An image is abstracted to the log of mutations applied to it; its       *)
(* generation is the length of that log.  The caller holds the runtime's   *)
(* state lock, so one commit or checkpoint runs at a time; what interleaves*)
(* with its steps is the process dying, and I/O calls failing.  A step     *)
(* here ends with each durable write.                                      *)
(***************************************************************************)
EXTENDS Naturals, Sequences, FiniteSets, SequencesExt, TLC

CONSTANTS MaxOps,       \* bound on the number of mutations submitted
          RollAt,       \* records that fill a segment (kSegmentRollBytes)
          MaxSegments,  \* Limits::max_journal_segments
          CheckpointBelow, \* bound: a checkpoint starts only in a segment below this one
          Refusals,     \* mutations may be refused by the authority check
          CrashPoints,  \* program points at which the process may die
          Faults,       \* ways an append may fail: subset of {"nothing", "torn", "unsynced"}
          Damages       \* ways a stored record may rot: subset of {"BadHeader", "BadPayload"}

ASSUME StoreBounds ==
    /\ MaxOps \in Nat
    /\ RollAt \in Nat \ {0}
    /\ MaxSegments \in Nat \ {0}
    /\ CheckpointBelow \in 0..MaxSegments
    /\ Refusals \in BOOLEAN
    /\ Faults \subseteq {"nothing", "torn", "unsynced"}
    /\ Damages \subseteq {"BadHeader", "BadPayload"}

VARIABLES files,     \* journal segment files: index -> sequence of records
          manifest,  \* the manifest file
          snapshot,  \* the snapshot file: an image
          damaged,   \* a record was damaged on disk
          pc,        \* where the store's owner is
          live,      \* the live image; kept after a stop as what had been reached
          health,    \* live.health
          segment,   \* segment_index_
          fd,        \* segment_fd_ >= 0
          filled,    \* segment_bytes_, in records
          next_sequence,
          submitted, \* mutations submitted so far; the last one is the current one
          acked,     \* the log callers know of: served by recovery or acknowledged since
          stable,    \* the log the store stood for when its process last stopped
          verdict    \* what the last verify() reported

disk == <<files, manifest, snapshot, damaged>>
memory == <<live, health, segment, fd, filled, next_sequence>>
vars == <<disk, memory, pc, submitted, acked, stable, verdict>>

-----------------------------------------------------------------------------
Ops == 1..MaxOps

\* last is last_sequence, audit counts audit entries, accepted and refused.
EmptyImage == [log |-> <<>>, last |-> 0, audit |-> 0]

NoManifest == [present |-> FALSE, first |-> 0, last |-> 0, image |-> EmptyImage, snap |-> FALSE]

\* A Pending record carries the mutation and the generation it must produce.
Pending(seq, op, gen) == [kind |-> "Pending", seq |-> seq, op |-> op, gen |-> gen]

\* A Commit record names the sequence and the digest of the pending payload.
CommitOf(seq, op) == [kind |-> "Commit", seq |-> seq, op |-> op, gen |-> 0]

\* The leading part of a record whose append was cut short.
Torn == [kind |-> "Torn", seq |-> 0, op |-> 0, gen |-> 0]

Apply(image, op) == [image EXCEPT !.log = Append(image.log, op), !.audit = image.audit + 1]

RecordRejection(image) == [image EXCEPT !.audit = image.audit + 1]

-----------------------------------------------------------------------------
(* Scanning a segment and replaying the journal *)

Readable(r) == r.kind \in {"Pending", "Commit"}

\* The scan stops at the first record it cannot verify; `good' counts those before it.
\* Unreadable framing is trailing bytes; a bad checksum or tag is an integrity failure.  A
\* torn record that later appends followed reads as one or the other, depending on the bytes
\* (`noticed').
Scan(records, noticed) ==
    LET bad == {k \in DOMAIN records : ~Readable(records[k])}
        stop == IF bad = {} THEN Len(records) + 1 ELSE CHOOSE k \in bad : \A j \in bad : k <= j
    IN  [good |-> stop - 1,
         trailing |-> bad # {},
         failure |-> bad # {} /\ \/ records[stop].kind = "BadPayload"
                                 \/ records[stop].kind = "Torn" /\ stop < Len(records) /\ noticed]

\* State of a replay: the image so far, open Pending records, and whether it is sound.
Degrade(acc) == [acc EXCEPT !.ok = FALSE]

\* Mutant: a mutation is replayed from its Pending record, committed or not.
ReplayUncommitted(acc, r) ==
    [acc EXCEPT !.pending = acc.pending \cup {r},
                !.image = [Apply(acc.image, r.op) EXCEPT !.last = r.seq]]

ReplayPending(acc, r) ==
    IF r.seq <= acc.image.last \/ \E q \in acc.pending : q.seq = r.seq
    THEN Degrade(acc)
    ELSE [acc EXCEPT !.pending = acc.pending \cup {r}]

ReplayCommit(acc, r) ==
    LET match == {q \in acc.pending : /\ q.seq = r.seq
                                      /\ q.seq = acc.image.last + 1
                                      /\ q.op = r.op
                                      /\ q.gen = Len(acc.image.log) + 1}
    IN  IF match = {} THEN Degrade(acc)
        ELSE [acc EXCEPT !.pending = acc.pending \ match,
                         !.image = [Apply(acc.image, r.op) EXCEPT !.last = r.seq]]

ReplayRecord(acc, r) ==
    IF ~acc.ok THEN acc
    ELSE IF r.kind = "Pending" THEN ReplayPending(acc, r) ELSE ReplayCommit(acc, r)

\* Records are replayed one after the other: the state after each number of them.
ReplayRecords(acc, records) ==
    LET after[k \in 0 .. Len(records)] ==
            IF k = 0 THEN acc ELSE ReplayRecord(after[k - 1], records[k])
    IN  after

\* Mutant: a failed checksum ends the segment and nothing else.
ReplayIgnoringFailures(acc, records, isLast, noticed) ==
    IF ~acc.ok THEN acc ELSE ReplayRecords(acc, records)[Scan(records, noticed).good]

\* Records in front of a failed one are still applied; unusable bytes are forgiven only at
\* the end of the last segment.
ReplaySegment(acc, records, isLast, noticed) ==
    IF ~acc.ok THEN acc
    ELSE LET scan == Scan(records, noticed)
             done == ReplayRecords(acc, records)[scan.good]
         IN  IF scan.failure \/ (scan.trailing /\ ~isLast) THEN Degrade(done) ELSE done

\* The segments that replay reads, and the last of them.
SegmentsFrom(journal, first) == {n \in DOMAIN journal : n >= first}
LastOf(segments) == CHOOSE n \in segments : \A m \in segments : m <= n

\* Segments are replayed in the order of their numbers: the state below each number, which
\* supposes that it is not the last.
ReplayBelow(journal, first, base, noticed) ==
    LET below[n \in 0 .. MaxSegments] ==
            IF n = 0 THEN [image |-> base, pending |-> {}, ok |-> TRUE]
            ELSE IF n - 1 \in SegmentsFrom(journal, first)
                 THEN ReplaySegment(below[n - 1], journal[n - 1], FALSE, noticed)
                 ELSE below[n - 1]
    IN  below

ReplayJournal(journal, first, base, noticed) ==
    LET segments == SegmentsFrom(journal, first)
        below == ReplayBelow(journal, first, base, noticed)
        last == LastOf(segments)
    IN  IF segments = {} THEN below[0]
        ELSE ReplaySegment(below[last], journal[last], TRUE, noticed)

ReplayBase == [(IF manifest.snap THEN snapshot ELSE EmptyImage) EXCEPT !.last = manifest.last]

Replay(noticed) == ReplayJournal(files, manifest.first, ReplayBase, noticed)

\* Mutant: the last good record goes with the tail.
TruncatedTooFar(noticed) ==
    LET segments == SegmentsFrom(files, manifest.first)
    IN  IF segments = {} \/ ~Replay(noticed).ok THEN files
        ELSE [files EXCEPT ![LastOf(segments)] =
                 IF Scan(@, noticed).good = 0 THEN <<>> ELSE SubSeq(@, 1, Scan(@, noticed).good - 1)]

\* Replay drops the unusable tail of the last segment it reads, if it got that far.
Truncated(noticed) ==
    LET segments == SegmentsFrom(files, manifest.first)
    IN  IF segments = {} \/ ~Replay(noticed).ok THEN files
        ELSE [files EXCEPT ![LastOf(segments)] = SubSeq(@, 1, Scan(@, noticed).good)]

\* The snapshot on disk is the one the manifest names.
SnapshotMatches == manifest.snap => snapshot = manifest.image

\* The bound on the number of segments to be replayed.
SegmentsWithinLimit == Cardinality(SegmentsFrom(files, manifest.first)) <= MaxSegments

CanOpen == SnapshotMatches /\ SegmentsWithinLimit

\* The process stops.  Until the store is opened again it stands for the log its files
\* replay to; if they do not replay, at least for the one that was acknowledged.
Stopped ==
    /\ pc' = "Closed"
    /\ stable' = IF CanOpen /\ (Replay(FALSE).ok \/ Len(Replay(FALSE).image.log) > Len(acked))
                 THEN Replay(FALSE).image.log ELSE acked
-----------------------------------------------------------------------------
(* Opening *)

Init ==
    /\ files = <<>>
    /\ manifest = NoManifest
    /\ snapshot = EmptyImage
    /\ damaged = FALSE
    /\ pc = "Closed"
    /\ live = EmptyImage
    /\ health = "Healthy"
    /\ segment = 0
    /\ fd = FALSE
    /\ filled = 0
    /\ next_sequence = 1
    /\ submitted = 0
    /\ acked = <<>>
    /\ stable = <<>>
    /\ verdict = "none"

\* open() on an empty directory writes a manifest that names segment 0 ...
CreateManifest ==
    /\ pc = "Closed"
    /\ ~manifest.present
    /\ manifest' = [NoManifest EXCEPT !.present = TRUE]
    /\ pc' = "Creating"
    /\ UNCHANGED <<files, snapshot, damaged, memory, submitted, acked, stable, verdict>>

\* ... and then creates the segment.
CreateSegment ==
    /\ pc = "Creating"
    /\ files' = 0 :> <<>>
    /\ live' = EmptyImage
    /\ health' = "Healthy"
    /\ segment' = 0
    /\ fd' = TRUE
    /\ filled' = 0
    /\ next_sequence' = 1
    /\ pc' = "Idle"
    /\ UNCHANGED <<manifest, snapshot, damaged, submitted, acked, stable, verdict>>

\* Appending resumes in the highest segment that exists, whatever the manifest names.
ResumeSegment == IF DOMAIN files = {} THEN 0 ELSE LastOf(DOMAIN files)

\* open() on an existing store: replay, then resume appending.
Open(noticed) ==
    /\ pc = "Closed"
    /\ manifest.present
    /\ CanOpen
    /\ LET replay == Replay(noticed)
           kept == Truncated(noticed)
       IN  /\ live' = replay.image
           /\ health' = IF replay.ok THEN "Healthy" ELSE "Degraded"
           /\ files' = IF ResumeSegment \in DOMAIN kept THEN kept
                       ELSE kept @@ (ResumeSegment :> <<>>)
           /\ next_sequence' = replay.image.last + 1
           /\ acked' = replay.image.log
    /\ segment' = ResumeSegment
    /\ filled' = Len(files'[segment'])
    /\ fd' = TRUE
    /\ pc' = "Idle"
    /\ UNCHANGED <<manifest, snapshot, damaged, submitted, stable, verdict>>

\* open() fails and leaves everything as it is.
OpenFails ==
    /\ pc = "Closed"
    /\ manifest.present
    /\ ~CanOpen
    /\ UNCHANGED vars

\* close(), with nothing in progress.
Close ==
    /\ pc = "Idle"
    /\ Stopped
    /\ UNCHANGED <<disk, memory, submitted, acked, verdict>>

-----------------------------------------------------------------------------
(* commit *)

\* Bound: at most MaxOps mutations are submitted.
Submits == pc = "Idle" /\ submitted < MaxOps
Accepts == Submits /\ health = "Healthy"

\* The current segment is full and another one may not be started.
RollRefused == filled >= RollAt /\ segment + 1 >= MaxSegments

\* Where roll_segment_if_needed leaves the store.
RolledSegment == IF filled >= RollAt THEN segment + 1 ELSE segment
RolledFiles == IF filled >= RollAt /\ segment + 1 \notin DOMAIN files
               THEN files @@ (segment + 1 :> <<>>) ELSE files
RolledFill == IF filled >= RollAt THEN Len(RolledFiles[RolledSegment]) ELSE filled
RolledFd == fd \/ filled >= RollAt

\* Refused before anything is written: a degraded store, validation, the segment limit or
\* a closed segment.
CommitRefused ==
    /\ Submits
    /\ health = "Degraded" \/ Refusals \/ RollRefused \/ ~RolledFd
    /\ live' = RecordRejection(live)
    /\ submitted' = submitted + 1
    /\ UNCHANGED <<disk, health, segment, fd, filled, next_sequence, pc, acked, stable, verdict>>

\* validate, plan, reserve and journal: the Pending record is durable.
Journal ==
    /\ Accepts
    /\ ~RollRefused
    /\ RolledFd
    /\ submitted' = submitted + 1
    /\ segment' = RolledSegment
    /\ fd' = TRUE
    /\ files' = [RolledFiles EXCEPT ![RolledSegment] =
                    Append(@, Pending(next_sequence, submitted', Len(live.log) + 1))]
    /\ filled' = RolledFill + 1
    /\ pc' = "Journaled"
    /\ UNCHANGED <<manifest, snapshot, damaged, live, health, next_sequence, acked, stable, verdict>>

\* perform: the mutation is applied to the live image ...
Perform ==
    /\ pc = "Journaled"
    /\ live' = Apply(live, submitted)
    /\ pc' = "Performed"
    /\ UNCHANGED <<disk, health, segment, fd, filled, next_sequence, submitted, acked, stable, verdict>>

\* ... or refused by the authority check, which runs only now.
PerformRefused ==
    /\ pc = "Journaled"
    /\ Refusals
    /\ live' = RecordRejection(live)
    /\ pc' = "Idle"
    /\ UNCHANGED <<disk, health, segment, fd, filled, next_sequence, submitted, acked, stable, verdict>>

\* commit: the Commit record is durable.
CommitRecord ==
    /\ pc = "Performed"
    /\ files' = [files EXCEPT ![segment] = Append(@, CommitOf(next_sequence, submitted))]
    /\ filled' = filled + 1
    /\ pc' = "Committed"
    /\ UNCHANGED <<manifest, snapshot, damaged, live, health, segment, fd, next_sequence,
                   submitted, acked, stable, verdict>>

\* The sequence advances and the caller gets its answer.
Acknowledge ==
    /\ pc = "Committed"
    /\ next_sequence' = next_sequence + 1
    /\ live' = [live EXCEPT !.last = next_sequence]
    /\ acked' = live.log
    /\ pc' = "Idle"
    /\ UNCHANGED <<disk, health, segment, fd, filled, submitted, stable, verdict>>

\* What a failed append of record r may leave at the end of a segment.
AfterFault(records, r, fault) ==
    CASE fault = "nothing" -> records
      [] fault = "torn" -> Append(records, Torn)
      [] fault = "unsynced" -> Append(records, r)

\* Appending the Pending record fails with an I/O error and the process goes on.
JournalFault(fault) ==
    /\ Accepts
    /\ ~RollRefused
    /\ RolledFd
    /\ submitted' = submitted + 1
    /\ segment' = RolledSegment
    /\ fd' = TRUE
    /\ files' = [RolledFiles EXCEPT ![RolledSegment] =
                    AfterFault(@, Pending(next_sequence, submitted', Len(live.log) + 1), fault)]
    /\ filled' = RolledFill
    /\ live' = RecordRejection(live)
    /\ UNCHANGED <<manifest, snapshot, damaged, health, next_sequence, pc, acked, stable, verdict>>

\* Appending the Commit record fails: the live image keeps the mutation it applied.
CommitFault(fault) ==
    /\ pc = "Performed"
    /\ files' = [files EXCEPT ![segment] =
                    AfterFault(@, CommitOf(next_sequence, submitted), fault)]
    /\ live' = RecordRejection(live)
    /\ pc' = "Idle"
    /\ UNCHANGED <<manifest, snapshot, damaged, health, segment, fd, filled, next_sequence,
                   submitted, acked, stable, verdict>>

-----------------------------------------------------------------------------
(* checkpoint *)

\* Bound: checkpoints are taken while the segment number is below CheckpointBelow.
WriteSnapshot ==
    /\ pc = "Idle"
    /\ health = "Healthy"
    /\ segment < CheckpointBelow
    /\ snapshot' = live
    /\ pc' = "Snapshotted"
    /\ UNCHANGED <<files, manifest, damaged, memory, submitted, acked, stable, verdict>>

\* The manifest names the snapshot and the segment that comes next; the old one is closed.
\* At the segment limit the call fails here and leaves no segment open.
WriteManifest ==
    /\ pc = "Snapshotted"
    /\ manifest' = [present |-> TRUE, first |-> segment + 1, last |-> live.last,
                    image |-> snapshot, snap |-> TRUE]
    /\ segment' = segment + 1
    /\ fd' = FALSE
    /\ pc' = IF segment' + 1 >= MaxSegments THEN "Idle" ELSE "Manifested"
    /\ UNCHANGED <<files, snapshot, damaged, live, health, filled, next_sequence, submitted,
                   acked, stable, verdict>>

OpenSegment ==
    /\ pc = "Manifested"
    /\ files' = IF segment \in DOMAIN files THEN files ELSE files @@ (segment :> <<>>)
    /\ fd' = TRUE
    /\ filled' = Len(files'[segment])
    /\ pc' = "Switched"
    /\ UNCHANGED <<manifest, snapshot, damaged, live, health, segment, next_sequence, submitted,
                   acked, stable, verdict>>

\* Old segments are removed one by one, lowest first.
RetireSegment ==
    /\ pc = "Switched"
    /\ \E n \in DOMAIN files :
          /\ n < manifest.first
          /\ \A m \in DOMAIN files : n <= m
          /\ files' = [m \in DOMAIN files \ {n} |-> files[m]]
    /\ UNCHANGED <<manifest, snapshot, damaged, memory, pc, submitted, acked, stable, verdict>>

CheckpointDone ==
    /\ pc = "Switched"
    /\ \A n \in DOMAIN files : n >= manifest.first
    /\ pc' = "Idle"
    /\ UNCHANGED <<disk, memory, submitted, acked, stable, verdict>>

-----------------------------------------------------------------------------
(* verify, and what happens to the process and to the disk *)

\* verify() replays the files, tail truncation included, and compares with the live image.
Verify(noticed) ==
    /\ pc = "Idle"
    /\ verdict' = IF ~CanOpen THEN "error"
                  ELSE IF Replay(noticed).ok /\ Replay(noticed).image = live
                       THEN "match" ELSE "mismatch"
    /\ files' = IF CanOpen THEN Truncated(noticed) ELSE files
    /\ UNCHANGED <<manifest, snapshot, damaged, memory, pc, submitted, acked, stable>>

\* The process dies between two durable writes.
Crash ==
    /\ pc \in CrashPoints
    /\ Stopped
    /\ UNCHANGED <<disk, memory, submitted, acked, verdict>>

\* The process dies while it appends a record.
CrashInAppend ==
    /\ "Append" \in CrashPoints
    /\ \/ /\ Accepts
          /\ ~RollRefused
          /\ RolledFd
          /\ files' = [RolledFiles EXCEPT ![RolledSegment] = Append(@, Torn)]
       \/ /\ pc = "Performed"
          /\ files' = [files EXCEPT ![segment] = Append(@, Torn)]
    /\ Stopped
    /\ UNCHANGED <<manifest, snapshot, damaged, memory, submitted, acked, verdict>>

\* A stored record rots while the store is closed.
Damage(how) ==
    /\ pc = "Closed"
    /\ ~damaged
    /\ damaged' = TRUE
    /\ \E n \in DOMAIN files : \E k \in DOMAIN files[n] :
          /\ Readable(files[n][k])
          /\ files' = [files EXCEPT ![n][k].kind = how]
    /\ UNCHANGED <<manifest, snapshot, memory, pc, submitted, acked, stable, verdict>>

Next ==
    \/ CreateManifest \/ CreateSegment
    \/ \E noticed \in BOOLEAN : Open(noticed) \/ Verify(noticed)
    \/ OpenFails \/ Close
    \/ CommitRefused \/ Journal \/ Perform \/ PerformRefused \/ CommitRecord \/ Acknowledge
    \/ \E fault \in Faults : JournalFault(fault) \/ CommitFault(fault)
    \/ WriteSnapshot \/ WriteManifest \/ OpenSegment \/ RetireSegment \/ CheckpointDone
    \/ Crash \/ CrashInAppend
    \/ \E how \in Damages : Damage(how)

Spec == Init /\ [][Next]_vars
-----------------------------------------------------------------------------
(* Properties *)

Records == [kind : {"Pending", "Commit", "Torn", "BadHeader", "BadPayload"},
            seq : 0..MaxOps, op : 0..MaxOps, gen : 0..MaxOps]

IsImage(image) == /\ image.log \in Seq(Ops)
                  /\ image.last \in 0..MaxOps
                  /\ image.audit \in 0..2 * MaxOps

\* Type invariant; in particular segment_index_ stays within the limit and one past it.
StoreTypeOK ==
    /\ DOMAIN files \subseteq 0..MaxSegments - 1
    /\ \A n \in DOMAIN files : files[n] \in Seq(Records)
    /\ manifest.present \in BOOLEAN /\ manifest.snap \in BOOLEAN
    /\ manifest.first \in 0..MaxSegments /\ manifest.last \in 0..MaxOps
    /\ IsImage(manifest.image) /\ IsImage(snapshot) /\ IsImage(live)
    /\ pc \in {"Closed", "Creating", "Idle", "Journaled", "Performed", "Committed",
               "Snapshotted", "Manifested", "Switched"}
    /\ health \in {"Healthy", "Degraded"}
    /\ segment \in 0..MaxSegments
    /\ filled \in Nat
    /\ next_sequence \in 1..MaxOps + 1
    /\ submitted \in 0..MaxOps
    /\ acked \in Seq(Ops) /\ stable \in Seq(Ops)
    /\ damaged \in BOOLEAN /\ fd \in BOOLEAN
    /\ verdict \in {"none", "match", "mismatch", "error"}

Recovers == pc = "Closed" /\ pc' = "Idle"

\* A recovery that reports a healthy store serves every mutation that was acknowledged,
\* wherever the previous process died and whatever was refused or failed before.
RecoveryKeepsAcknowledged ==
    [][Recovers /\ health' = "Healthy" => IsPrefix(acked, live'.log)]_vars

\* Recovery, healthy or degraded, serves a state the live image went through: a mutation
\* that was refused, or rolled back, is never resurrected.
RecoveryInventsNothing == [][Recovers => IsPrefix(live'.log, live.log)]_vars

Down == pc \in {"Closed", "Creating"}

\* Mutations in the live image that are neither acknowledged nor in flight.
Limbo == SubSeq(live.log, Len(acked) + 1,
                Len(live.log) - (IF pc \in {"Performed", "Committed"} THEN 1 ELSE 0))

\* The abstraction of the store.
Promise ==
    INSTANCE AcknowledgedLog WITH
        status <- IF Down THEN "Down" ELSE IF health = "Healthy" THEN "Serving" ELSE "Degraded",
        log <- IF Down THEN stable ELSE acked,
        limbo <- IF Down THEN <<>> ELSE Limbo

\* Commits, failures, checkpoints, crashes and recoveries of the store are steps of
\* AcknowledgedLog: the log only grows, and what was reported as failed is either in it, in
\* its place, or gone for good.
ImplementsAcknowledgedLog == Promise!Spec

-----------------------------------------------------------------------------
(* For TLC *)

\* No action reads the verdict, a running process does not read stable, and no action reads
\* what a stopped process had in memory: states that differ only there are one state.
View == IF pc = "Closed" THEN <<disk, pc, submitted, acked, stable, live.log>>
        ELSE <<disk, memory, pc, submitted, acked>>

-----------------------------------------------------------------------------
(* What comments and documents promise and the code does not keep *)

\* DURABILITY.md: a Pending record with no Commit "is rolled back and counted".
UndamagedStoreIsHealthy == [][Recovers /\ ~damaged => health' = "Healthy"]_vars

\* DURABILITY.md: "A crash at any point leaves a store that recovers".
StoreOpens == pc = "Closed" /\ manifest.present => CanOpen

\* README.md: "A torn tail is discarded to the last good boundary; a damaged record anywhere
\* else degrades the store": a store that opens healthy misses at most the last mutation.
DamageElsewhereDegrades ==
    [][Recovers /\ health' = "Healthy" => Len(acked) <= Len(live'.log) + 1]_vars

\* store.hpp: verify() "Does not modify \p live or the files".  Of the steps that end where
\* they started, with nothing submitted, only verify() is not a refusal to write.
VerifyLeavesFiles ==
    [][pc = "Idle" /\ pc' = "Idle" /\ submitted' = submitted => files' = files]_vars

\* store.cpp: at the segment limit, "run a checkpoint to compact the store".
CheckpointKeepsJournalOpen == [][pc = "Snapshotted" /\ pc' = "Idle" => fd']_vars

\* DURABILITY.md: "A mismatch means the state being served is not the state the bytes
\* describe".
VerifyMatchesServedState == ~damaged /\ live.log = acked => verdict # "mismatch"
=============================================================================
