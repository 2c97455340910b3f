----------------------------- MODULE Authority -----------------------------
(***************************************************************************)
(* Publisher authority in a fabric runtime: the fabric epoch, the table of *)
(* publisher incarnations, the fencing-token counter, and the evidence     *)
(* that publishers bind to them (src/src/runtime.cpp, state.cpp).          *)
(*                                                                         *)
(* One runtime owns the state directory.  Every operation below holds the  *)
(* runtime's exclusive state lock for its whole body, so it is one action; *)
(* the only thing that can cut one in two is the process dying between the *)
(* two commits of a grant, which is the action CrashInGrant.  The image is *)
(* kept twice: `image' is the live one, `durable' is what the committed    *)
(* records say.  They are changed by the same Apply operators and differ   *)
(* exactly where recovery rewrites the live one.  Replay yields `durable'  *)
(* unless a committed record does not decode: then it stops in front of    *)
(* that record, at `prefix', and the runtime opens degraded.               *)
(***************************************************************************)
EXTENDS Naturals, FiniteSets

CONSTANTS Publishers,     \* publisher ids
          Boots,          \* boot ids a publisher process may come back with
          Assignments,    \* ids of the priority assignments published
          MaxEpoch,       \* largest FabricEpoch (2^64 - 1 in the code)
          MaxToken,       \* largest fencing token counter value
          MaxBoots,       \* Limits::max_boots_per_publisher
          MaxPublishers   \* Limits::max_publishers

ASSUME BoundsAssumption ==
    /\ MaxEpoch \in Nat \ {0}
    /\ MaxToken \in Nat \ {0}
    /\ MaxBoots \in Nat
    /\ MaxPublishers \in Nat

\* The authority table is a finite map.
ASSUME FiniteIds == IsFiniteSet(Publishers) /\ IsFiniteSet(Boots)

VARIABLES image,      \* the live StateImage, as far as authority is concerned
          durable,    \* the image that the committed records, all applied, describe
          unreadable, \* the journal holds a committed record that does not decode
          prefix,     \* the image in front of the first such record
          degraded,   \* health of the live image: what replay refused stands behind it
          running,    \* the runtime is open (closed or dead otherwise)
          acceptNew,  \* Options::allow_new_publishers of the current open
          snapshot,   \* number of authority records in the snapshot file
          issued,     \* every session grant_authority has handed out
          reply       \* status code of the last operation

vars == <<image, durable, unreadable, prefix, degraded, running, acceptNew, snapshot,
          issued, reply>>

\* What the durable store holds.
journal == <<durable, unreadable, prefix>>

-----------------------------------------------------------------------------
AuthorityState == {"Absent", "Granted", "Superseded", "Fenced", "Expired"}

AuthorityEntry == [state : AuthorityState, epoch : 0..MaxEpoch, token : 0..MaxToken]

\* A Session whose shape is valid: an established epoch and a real token.
Session == [publisher : Publishers, boot : Boots, epoch : 1..MaxEpoch, token : 1..MaxToken]

\* An assignment: the authority binding in its provenance, and whether it is active.
Evidence == [assignment : Assignments, publisher : Publishers, boot : Boots,
             epoch : 0..MaxEpoch, active : BOOLEAN]

StateImage == [epoch : 0..MaxEpoch,
               next_fencing_token : 1..MaxToken,
               authority : [Publishers -> [Boots -> AuthorityEntry]],
               evidence : SUBSET Evidence]

NoAuthority == [state |-> "Absent", epoch |-> 0, token |-> 0]

EmptyImage == [epoch |-> 0, next_fencing_token |-> 1,
               authority |-> [p \in Publishers |-> [b \in Boots |-> NoAuthority]],
               evidence |-> {}]

StatusCode == {"Ok", "NotReady", "NotFound", "Unauthorized", "StaleEpoch", "Fenced",
               "LimitExceeded", "Overflow", "Degraded"}

-----------------------------------------------------------------------------
(* The authority table *)

\* Incarnations of p the table has a record of.
KnownBoots(i, p) == {b \in Boots : i.authority[p][b].state # "Absent"}

\* Mutant: takeovers go unnoticed.
LiveOthersMissed(i, p, b) == {}

\* Other incarnations of p that hold live authority.
LiveOthers(i, p, b) == {c \in Boots \ {b} : i.authority[p][c].state = "Granted"}

AuthorityRecords(i) == {k \in Publishers \X Boots : i.authority[k[1]][k[2]].state # "Absent"}

\* Mutant: the lifecycle state of the incarnation is not looked at.
CheckAuthorityStateless(i, s) ==
    LET e == i.authority[s.publisher][s.boot] IN
    IF i.epoch = 0              THEN "NotReady"
    ELSE IF s.epoch # i.epoch   THEN "StaleEpoch"
    ELSE IF e.state = "Absent"  THEN "Unauthorized"
    ELSE IF e.token # s.token   THEN "Fenced"
    ELSE "Ok"

\* Why check_authority lets a mutation carrying session s through, or refuses it.
CheckAuthority(i, s) ==
    LET e == i.authority[s.publisher][s.boot] IN
    IF i.epoch = 0              THEN "NotReady"
    ELSE IF s.epoch # i.epoch   THEN "StaleEpoch"
    ELSE IF e.state = "Absent"  THEN "Unauthorized"
    ELSE IF e.state # "Granted" THEN "Fenced"
    ELSE IF e.epoch # i.epoch   THEN "StaleEpoch"
    ELSE IF e.token # s.token   THEN "Fenced"
    ELSE "Ok"

\* Mutants: the incarnation, or the epoch, of the evidence is not checked.
UsableFromAnyIncarnation(i, e) == e.active /\ e.epoch = i.epoch
UsableFromAnyEpoch(i, e) == e.active /\ i.authority[e.publisher][e.boot].state = "Granted"

\* Evidence that evaluation may use: not retired, its incarnation live, its epoch current.
Usable(i, e) == /\ e.active
                /\ i.authority[e.publisher][e.boot].state = "Granted"
                /\ e.epoch = i.epoch

-----------------------------------------------------------------------------
(* What apply_mutation does to an image, live or replayed. *)

\* Mutant: every entry of another epoch expires, fenced ones included.
ExpireAny(entry, epoch) ==
    IF entry.state # "Absent" /\ entry.epoch # epoch
    THEN [entry EXCEPT !.state = "Expired"] ELSE entry

Expire(entry, epoch) ==
    IF entry.state = "Granted" /\ entry.epoch # epoch
    THEN [entry EXCEPT !.state = "Expired"] ELSE entry

ApplyAdvanceEpoch(i) ==
    [i EXCEPT !.epoch = i.epoch + 1,
              !.authority = [p \in Publishers |-> [b \in Boots |->
                                Expire(i.authority[p][b], i.epoch + 1)]]]

\* Mutant: the token counter does not move.
GrantSameToken(i, p, b) ==
    [i EXCEPT !.authority[p] = [c \in Boots |->
                  IF c = b
                  THEN [state |-> "Granted", epoch |-> i.epoch, token |-> i.next_fencing_token]
                  ELSE IF c \in LiveOthers(i, p, b)
                       THEN [i.authority[p][c] EXCEPT !.state = "Superseded"]
                       ELSE i.authority[p][c]]]

ApplyGrantAuthority(i, p, b) ==
    [i EXCEPT !.next_fencing_token = i.next_fencing_token + 1,
              !.authority = [i.authority EXCEPT ![p] = [c \in Boots |->
                  IF c = b
                  THEN [state |-> "Granted", epoch |-> i.epoch, token |-> i.next_fencing_token]
                  ELSE IF c \in LiveOthers(i, p, b)
                       THEN [i.authority[p][c] EXCEPT !.state = "Superseded"]
                       ELSE i.authority[p][c]]]]

ApplyFenceAuthority(i, p, b) ==
    [i EXCEPT !.authority = [i.authority EXCEPT ![p] = [c \in Boots |->
                  IF c = b THEN [i.authority[p][b] EXCEPT !.state = "Fenced"]
                  ELSE i.authority[p][c]]]]

ApplyAssign(i, s, a) ==
    [i EXCEPT !.evidence = {e \in i.evidence : e.assignment # a} \cup
                  {[assignment |-> a, publisher |-> s.publisher, boot |-> s.boot,
                    epoch |-> s.epoch, active |-> TRUE]}]

ApplyRetireAssignment(i, a) ==
    [i EXCEPT !.evidence = {[e EXCEPT !.active = (e.active /\ e.assignment # a)] : e \in i.evidence}]

\* Mutants: opening keeps live grants; opening expires every incarnation.
NormalizeNothing(i) == i
NormalizeAll(i) ==
    [i EXCEPT !.authority = [p \in Publishers |-> [b \in Boots |->
        IF i.authority[p][b].state # "Absent"
        THEN [i.authority[p][b] EXCEPT !.state = "Expired"]
        ELSE i.authority[p][b]]]]

\* Opening restores no authority: a grant that was live comes back expired.
Normalize(i) ==
    [i EXCEPT !.authority = [p \in Publishers |-> [b \in Boots |->
        IF i.authority[p][b].state = "Granted"
        THEN [i.authority[p][b] EXCEPT !.state = "Expired"]
        ELSE i.authority[p][b]]]]
-----------------------------------------------------------------------------
(* Validation: the structural checks that precede the authority check. *)

AdvanceEpochStatus(i) == IF i.epoch = MaxEpoch THEN "Overflow" ELSE "Ok"

\* Mutant: no check of the token counter.
GrantStatusNoOverflow(i, p, b) ==
    IF i.authority[p][b].state = "Fenced" THEN "Fenced"
    ELSE IF /\ i.authority[p][b].state # "Granted"
            /\ Cardinality(KnownBoots(i, p)) >= MaxBoots THEN "LimitExceeded"
    ELSE "Ok"

\* A re-registration of an expired incarnation counts against the limit as well.
GrantAuthorityStatus(i, p, b) ==
    IF i.authority[p][b].state = "Fenced" THEN "Fenced"
    ELSE IF /\ i.authority[p][b].state # "Granted"
            /\ Cardinality(KnownBoots(i, p)) >= MaxBoots THEN "LimitExceeded"
    ELSE IF i.next_fencing_token = MaxToken THEN "Overflow"
    ELSE "Ok"

RetireStatus(i, a) == IF \E e \in i.evidence : e.assignment = a THEN "Ok" ELSE "NotFound"

\* commit: the health of the store, then validation, then the authority of the session.
MutationStatus(structural, i, s) ==
    IF degraded THEN "Degraded"
    ELSE IF structural # "Ok" THEN structural
    ELSE CheckAuthority(i, s)

\* A committed record that decode_mutation refuses: replay will stop in front of it.
JournalUnreadable ==
    /\ unreadable' = TRUE
    /\ prefix' = IF unreadable THEN prefix ELSE durable

\* decode_mutation refuses a reason longer than max_note_length, which validation does not
\* bound for fences and epoch advances.
JournalReason(long) == IF long THEN JournalUnreadable ELSE UNCHANGED <<unreadable, prefix>>

-----------------------------------------------------------------------------
(* grant_authority *)

\* The epoch is established by the first grant and advanced by a takeover.
MovesEpoch(i, p, b) == i.epoch = 0 \/ LiveOthers(i, p, b) # {}

\* Mutant: the store accepts grants whatever its health.
GrantRefusalAnyHealth(i, p, b) ==
    IF i.authority[p][b].state = "Fenced"              THEN "Fenced"
    ELSE IF KnownBoots(i, p) = {} /\ ~acceptNew        THEN "Unauthorized"
    ELSE IF MovesEpoch(i, p, b)                        THEN AdvanceEpochStatus(i)
    ELSE "Ok"

\* The answer grant_authority gives before it commits anything; "Ok" when it goes on.
GrantRefusal(i, p, b) ==
    IF i.authority[p][b].state = "Fenced"              THEN "Fenced"
    ELSE IF KnownBoots(i, p) = {} /\ ~acceptNew        THEN "Unauthorized"
    ELSE IF degraded                                   THEN "Degraded"
    ELSE IF MovesEpoch(i, p, b)                        THEN AdvanceEpochStatus(i)
    ELSE "Ok"

HoldsCurrentGrant(i, p, b) == /\ i.authority[p][b].state = "Granted"
                              /\ i.authority[p][b].epoch = i.epoch

\* Mutant: the epoch transition of a takeover already takes the token of the new grant.
BeforeGrantTakesToken(i, moved) ==
    IF moved THEN [ApplyAdvanceEpoch(i) EXCEPT !.next_fencing_token =
                       IF @ = MaxToken THEN @ ELSE @ + 1]
    ELSE i

\* The image once grant_authority's own epoch transition, if any, is committed.
BeforeGrant(i, moved) == IF moved THEN ApplyAdvanceEpoch(i) ELSE i

SessionOf(i, p, b) == [publisher |-> p, boot |-> b, epoch |-> i.authority[p][b].epoch,
                       token |-> i.authority[p][b].token]

Init ==
    /\ image = EmptyImage
    /\ durable = EmptyImage
    /\ unreadable = FALSE
    /\ prefix = EmptyImage
    /\ degraded = FALSE
    /\ running = FALSE
    /\ acceptNew = TRUE
    /\ snapshot = 0
    /\ issued = {}
    /\ reply = "Ok"

\* The incarnation already holds the current grant: the same session is returned.
ReturnGrant(p, b) ==
    /\ running
    /\ HoldsCurrentGrant(image, p, b)
    /\ reply' = "Ok"
    /\ issued' = issued \cup {SessionOf(image, p, b)}
    /\ UNCHANGED <<image, journal, degraded, running, acceptNew, snapshot>>

\* Refused before anything is committed.
RefuseGrant(p, b) ==
    /\ running
    /\ ~HoldsCurrentGrant(image, p, b)
    /\ GrantRefusal(image, p, b) # "Ok"
    /\ reply' = GrantRefusal(image, p, b)
    /\ UNCHANGED <<image, journal, degraded, running, acceptNew, snapshot, issued>>

\* Commits the epoch transition it needs, then the grant, which may still be refused.
GrantAuthority(p, b) ==
    /\ running
    /\ ~HoldsCurrentGrant(image, p, b)
    /\ GrantRefusal(image, p, b) = "Ok"
    /\ LET moved == MovesEpoch(image, p, b)
           i == BeforeGrant(image, moved)
           d == BeforeGrant(durable, moved)
           status == GrantAuthorityStatus(i, p, b)
       IN  /\ reply' = status
           /\ image' = IF status = "Ok" THEN ApplyGrantAuthority(i, p, b) ELSE i
           /\ durable' = IF status = "Ok" THEN ApplyGrantAuthority(d, p, b) ELSE d
           /\ issued' = IF status = "Ok"
                        THEN issued \cup {[publisher |-> p, boot |-> b, epoch |-> i.epoch,
                                           token |-> i.next_fencing_token]}
                        ELSE issued
    /\ UNCHANGED <<unreadable, prefix, degraded, running, acceptNew, snapshot>>

\* The process dies between the two commits of a grant: only the epoch moved.
CrashInGrant(p, b) ==
    /\ running
    /\ ~HoldsCurrentGrant(image, p, b)
    /\ GrantRefusal(image, p, b) = "Ok"
    /\ MovesEpoch(image, p, b)
    /\ durable' = ApplyAdvanceEpoch(durable)
    /\ image' = EmptyImage
    /\ running' = FALSE
    /\ UNCHANGED <<unreadable, prefix, degraded, acceptNew, snapshot, issued, reply>>

-----------------------------------------------------------------------------
(* Mutations a publisher makes under a session, current or not. *)

AdvanceEpoch(s, long) ==
    /\ running
    /\ reply' = MutationStatus(AdvanceEpochStatus(image), image, s)
    /\ image' = IF reply' = "Ok" THEN ApplyAdvanceEpoch(image) ELSE image
    /\ durable' = IF reply' = "Ok" THEN ApplyAdvanceEpoch(durable) ELSE durable
    /\ JournalReason(long /\ reply' = "Ok")
    /\ UNCHANGED <<degraded, running, acceptNew, snapshot, issued>>

Fence(s, p, b, long) ==
    /\ running
    /\ reply' = MutationStatus("Ok", image, s)
    /\ image' = IF reply' = "Ok" THEN ApplyFenceAuthority(image, p, b) ELSE image
    /\ durable' = IF reply' = "Ok" THEN ApplyFenceAuthority(durable, p, b) ELSE durable
    /\ JournalReason(long /\ reply' = "Ok")
    /\ UNCHANGED <<degraded, running, acceptNew, snapshot, issued>>

Assign(s, a) ==
    /\ running
    /\ reply' = MutationStatus("Ok", image, s)
    /\ image' = IF reply' = "Ok" THEN ApplyAssign(image, s, a) ELSE image
    /\ durable' = IF reply' = "Ok" THEN ApplyAssign(durable, s, a) ELSE durable
    /\ UNCHANGED <<unreadable, prefix, degraded, running, acceptNew, snapshot, issued>>

RetireAssignment(s, a) ==
    /\ running
    /\ reply' = MutationStatus(RetireStatus(image, a), image, s)
    /\ image' = IF reply' = "Ok" THEN ApplyRetireAssignment(image, a) ELSE image
    /\ durable' = IF reply' = "Ok" THEN ApplyRetireAssignment(durable, a) ELSE durable
    /\ UNCHANGED <<unreadable, prefix, degraded, running, acceptNew, snapshot, issued>>

-----------------------------------------------------------------------------
(* Lifecycle *)

\* The snapshot is the live image, so from here on replay starts from what was live and no
\* longer meets the records before it.
Checkpoint ==
    /\ running
    /\ ~degraded
    /\ durable' = image
    /\ unreadable' = FALSE
    /\ prefix' = EmptyImage
    /\ snapshot' = Cardinality(AuthorityRecords(image))
    /\ reply' = "Ok"
    /\ UNCHANGED <<image, degraded, running, acceptNew, issued>>

\* A degraded image is not snapshotted.
RefuseCheckpoint ==
    /\ running
    /\ degraded
    /\ reply' = "Degraded"
    /\ UNCHANGED <<image, journal, degraded, running, acceptNew, snapshot, issued>>

\* close(), or the process dies between two operations: the live image is gone.
Stop ==
    /\ running
    /\ image' = EmptyImage
    /\ running' = FALSE
    /\ UNCHANGED <<journal, degraded, acceptNew, snapshot, issued, reply>>

\* decode_state bounds the authority records of a snapshot by max_publishers.
Decodable == snapshot <= MaxPublishers

\* Where replay ends.
Replayed == IF unreadable THEN prefix ELSE durable

\* open() without advance_epoch_on_open, or of a store that replays degraded.
Open(allow) ==
    /\ ~running
    /\ Decodable
    /\ image' = Normalize(Replayed)
    /\ degraded' = unreadable
    /\ running' = TRUE
    /\ acceptNew' = allow
    /\ reply' = "Ok"
    /\ UNCHANGED <<journal, snapshot, issued>>

\* open() with advance_epoch_on_open on a healthy store whose epoch is established.  The
\* record of this advance names no publisher, and decode_mutation refuses an empty
\* publisher id, so the record cannot be replayed.
OpenAdvancing(allow) ==
    /\ ~running
    /\ Decodable
    /\ ~unreadable
    /\ durable.epoch # 0
    /\ AdvanceEpochStatus(Normalize(durable)) = "Ok"
    /\ image' = ApplyAdvanceEpoch(Normalize(durable))
    /\ durable' = ApplyAdvanceEpoch(durable)
    /\ JournalUnreadable
    /\ degraded' = FALSE
    /\ running' = TRUE
    /\ acceptNew' = allow
    /\ reply' = "Ok"
    /\ UNCHANGED <<snapshot, issued>>

\* open() fails: the snapshot does not decode, or the epoch it must advance is the last.
OpenFails(advance) ==
    /\ ~running
    /\ reply' = IF ~Decodable THEN "LimitExceeded" ELSE AdvanceEpochStatus(durable)
    /\ Decodable => advance /\ durable.epoch = MaxEpoch /\ ~unreadable
    /\ UNCHANGED <<image, journal, degraded, running, acceptNew, snapshot, issued>>

Next ==
    \/ \E p \in Publishers, b \in Boots :
          \/ ReturnGrant(p, b)
          \/ RefuseGrant(p, b)
          \/ GrantAuthority(p, b)
          \/ CrashInGrant(p, b)
    \/ \E s \in Session :
          \/ \E long \in BOOLEAN : AdvanceEpoch(s, long)
          \/ \E p \in Publishers, b \in Boots, long \in BOOLEAN : Fence(s, p, b, long)
          \/ \E a \in Assignments : Assign(s, a) \/ RetireAssignment(s, a)
    \/ Checkpoint
    \/ RefuseCheckpoint
    \/ Stop
    \/ \E allow \in BOOLEAN : Open(allow) \/ OpenAdvancing(allow)
    \/ \E advance \in BOOLEAN : OpenFails(advance)

Spec == Init /\ [][Next]_vars
-----------------------------------------------------------------------------
(* Properties *)

\* Type invariant of the runtime's authority state (StateImage, AuthorityEntry, Session).
TypeOK ==
    /\ image \in StateImage
    /\ durable \in StateImage
    /\ unreadable \in BOOLEAN
    /\ prefix \in StateImage
    /\ degraded \in BOOLEAN
    /\ running \in BOOLEAN
    /\ acceptNew \in BOOLEAN
    /\ snapshot \in Nat
    /\ issued \subseteq Session
    /\ reply \in StatusCode

LiveGrantsSound(i) ==
    \A p \in Publishers : \A b \in Boots :
        i.authority[p][b].state = "Granted" =>
            /\ i.authority[p][b].epoch = i.epoch
            /\ \A c \in Boots : i.authority[p][c].state = "Granted" => c = b

\* A publisher has at most one live incarnation, and its grant belongs to the current
\* epoch: grant_authority and AdvanceEpoch retire every other grant, in the live image
\* and in what the records describe.
OneLiveIncarnation == LiveGrantsSound(image) /\ LiveGrantsSound(durable)

\* The session is the last one grant_authority handed to its publisher.
Newest(s) == s \in issued /\ \A t \in issued : t.publisher = s.publisher => t.token <= s.token

\* check_authority accepts only the newest session of a publisher: a session cached before
\* a takeover, an epoch advance or a restart is refused however the calls interleave.
OnlyNewestSessionAccepted ==
    running => \A s \in Session : CheckAuthority(image, s) = "Ok" => Newest(s)

\* Evaluation uses only evidence published by its publisher's newest incarnation, under
\* the epoch in which that incarnation holds authority.
UsableEvidenceIsNewest ==
    running => \A e \in image.evidence : Usable(image, e) =>
        \E s \in issued : /\ Newest(s)
                          /\ <<s.publisher, s.boot, s.epoch>> = <<e.publisher, e.boot, e.epoch>>

\* No fencing token is handed out twice, across takeovers, crashes, checkpoints and
\* restarts, degraded ones included: the recorded token counter is past every issued token.
TokensNeverReused ==
    /\ \A s, t \in issued : s.token = t.token => s = t
    /\ \A s \in issued : s.token < durable.next_fencing_token

\* Same incarnations, with the same grants and the same fencing; the live side may only
\* hold less authority than the replayed one.
SameHistory(i, d) ==
    \A p \in Publishers : \A b \in Boots :
        LET e == i.authority[p][b]
            f == d.authority[p][b]
        IN  /\ e.epoch = f.epoch
            /\ e.token = f.token
            /\ e.state = "Absent" <=> f.state = "Absent"
            /\ e.state = "Fenced" <=> f.state = "Fenced"
            /\ e.state = "Granted" => f.state = "Granted"

Healthy == running /\ ~degraded

\* Applying the committed records gives back the epoch, the token counter, the evidence and
\* every incarnation of a healthy image, although open() rewrites the live image and no
\* record.
ReplayAgrees ==
    Healthy => /\ image.epoch = durable.epoch
               /\ image.next_fencing_token = durable.next_fencing_token
               /\ image.evidence = durable.evidence
               /\ SameHistory(image, durable)

\* validate_mutation accepts at replay every grant it accepts live, so a committed grant
\* cannot degrade the store when it is replayed.
ReplayAcceptsGrants ==
    Healthy => \A p \in Publishers : \A b \in Boots :
        GrantAuthorityStatus(image, p, b) = "Ok" => GrantAuthorityStatus(durable, p, b) = "Ok"

\* Fencing is final: no operation, checkpoint or restart records another state for a fenced
\* incarnation.
FencedIsFinal ==
    [][\A p \in Publishers, b \in Boots :
          durable.authority[p][b].state = "Fenced" =>
              durable'.authority[p][b].state = "Fenced"]_vars

\* A runtime that opened degraded, whose epoch and token counter may have gone back, lends
\* them to nobody: no session is accepted and no evidence is usable until it is replaced.
DegradedIsPowerless ==
    running /\ degraded =>
        /\ \A s \in Session : CheckAuthority(image, s) # "Ok"
        /\ \A e \in image.evidence : ~Usable(image, e)

\* A refused operation gives nobody anything, even where grant_authority has committed the
\* epoch transition before the grant is refused: no session is handed out, no token is
\* consumed, no incarnation becomes live and the epoch moves by one at most.
RefusalGivesNothing ==
    [][running /\ running' /\ reply' # "Ok" =>
          /\ issued' = issued
          /\ image'.next_fencing_token = image.next_fencing_token
          /\ image'.epoch \in {image.epoch, image.epoch + 1}
          /\ \A p \in Publishers, b \in Boots :
                image'.authority[p][b].state = "Granted" =>
                    image.authority[p][b].state = "Granted"]_vars

\* open() restores no authority: right after it no session is accepted and no evidence is
\* usable, whatever was live when the previous process stopped.
OpenRestoresNoAuthority ==
    [][~running /\ running' =>
          /\ \A s \in Session : CheckAuthority(image', s) # "Ok"
          /\ \A e \in image'.evidence : ~Usable(image', e)]_vars

\* Evidence that evaluation refuses becomes usable again, without being published again,
\* only when its own incarnation is granted anew in the epoch it was published in.
EvidenceNeverRevives ==
    [][running /\ running' =>
          \A e \in image.evidence \cap image'.evidence :
              ~Usable(image, e) /\ Usable(image', e) =>
                  LET f == image'.authority[e.publisher][e.boot] IN
                      f.token = image.next_fencing_token /\ f.epoch = e.epoch]_vars

-----------------------------------------------------------------------------
(* The inductive invariant of the proofs *)

NoLiveGrant(i) == \A p \in Publishers : \A b \in Boots : i.authority[p][b].state # "Granted"

\* Every live grant was handed out, and nothing newer was handed to its publisher.
LiveGrantIsNewest ==
    \A p \in Publishers : \A b \in Boots :
        image.authority[p][b].state = "Granted" => Newest(SessionOf(image, p, b))

AuthorityInv ==
    /\ TypeOK
    /\ ~Healthy => NoLiveGrant(image)
    /\ OneLiveIncarnation
    /\ ReplayAgrees
    /\ TokensNeverReused
    /\ LiveGrantIsNewest

-----------------------------------------------------------------------------
(* What comments and documents promise and the code does not keep *)

\* runtime.cpp: "a refused registration cannot move the epoch as a side effect".
RefusedGrantKeepsEpoch ==
    [][running /\ running' /\ reply' # "Ok" => image'.epoch = image.epoch]_vars

\* runtime.hpp: "Fencing an already-fenced or unknown boot is an idempotent no-op".
FencingUnknownBootIsNoOp ==
    [][running /\ running' => \A p \in Publishers, b \in Boots :
          image.authority[p][b].state = "Absent" => image'.authority[p][b].state # "Fenced"]_vars

\* runtime.hpp: a takeover "marks every other boot of that publisher Superseded".
TakeoverSupersedes ==
    [][running /\ running' => \A p \in Publishers, b \in Boots :
          \A c \in LiveOthers(image, p, b) :
              image'.authority[p][b].token = image.next_fencing_token =>
                  image'.authority[p][c].state = "Superseded"]_vars

\* checked.hpp: the fabric epoch is a "Node-scoped monotonic authority fence": a runtime is
\* never behind an epoch in which a session was handed out.
EpochNeverBehind == running => \A s \in issued : s.epoch <= image.epoch

\* ARCHITECTURE.md: "replaying the durable records reproduces the same image byte for
\* byte"; verify() compares the two sides after the recovery normalisation.
VerifyMatches == running => Normalize(image) = Normalize(durable)

\* DURABILITY.md: "A crash at any point leaves a store that recovers".
StoreReopens == Decodable
=============================================================================
