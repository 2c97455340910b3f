-------------------------- MODULE AuthorityProofs --------------------------
(***************************************************************************)
(* Proofs about Authority, for any sets of publishers, boots and           *)
(* assignments and any limits.                                             *)
(***************************************************************************)
EXTENDS Authority, FiniteSetTheorems, TLAPS

-----------------------------------------------------------------------------
(* What each Apply operator does to the fields of an image. *)

\* Advancing the epoch moves the epoch by one and expires the grants of older epochs.
LEMMA AdvanceFields ==
    ASSUME NEW i \in StateImage
    PROVE  LET j == ApplyAdvanceEpoch(i) IN
           /\ j.epoch = i.epoch + 1
           /\ j.next_fencing_token = i.next_fencing_token
           /\ j.evidence = i.evidence
           /\ \A p \in Publishers : \A b \in Boots :
                 j.authority[p][b] = Expire(i.authority[p][b], i.epoch + 1)
  BY DEF ApplyAdvanceEpoch, StateImage

\* Expiring an entry changes only a state of Granted, to Expired.
LEMMA ExpireFacts ==
    ASSUME NEW e \in AuthorityEntry, NEW n \in Nat
    PROVE  /\ Expire(e, n) \in AuthorityEntry
           /\ Expire(e, n).epoch = e.epoch
           /\ Expire(e, n).token = e.token
           /\ Expire(e, n).state = IF e.state = "Granted" /\ e.epoch # n
                                   THEN "Expired" ELSE e.state
  BY DEF Expire, AuthorityEntry, AuthorityState

\* Advancing an epoch that is not the last one yields an image.
LEMMA AdvanceType ==
    ASSUME NEW i \in StateImage, i.epoch # MaxEpoch
    PROVE  ApplyAdvanceEpoch(i) \in StateImage
  <1> DEFINE table == [p \in Publishers |-> [b \in Boots |->
                          Expire(i.authority[p][b], i.epoch + 1)]]
  <1>1. i.epoch + 1 \in 0..MaxEpoch /\ i.epoch + 1 \in Nat
    BY BoundsAssumption DEF StateImage
  <1>2. \A p \in Publishers : \A b \in Boots :
           Expire(i.authority[p][b], i.epoch + 1) \in AuthorityEntry
    BY <1>1, ExpireFacts DEF StateImage
  <1>3. table \in [Publishers -> [Boots -> AuthorityEntry]]
    BY <1>2
  <1>. QED BY <1>1, <1>3, Zenon DEF ApplyAdvanceEpoch, StateImage

\* A grant takes the next token, retires the other live incarnations of the publisher and
\* leaves every other publisher alone.
LEMMA GrantFields ==
    ASSUME NEW i \in StateImage, NEW p \in Publishers, NEW b \in Boots
    PROVE  LET j == ApplyGrantAuthority(i, p, b) IN
           /\ j.epoch = i.epoch
           /\ j.next_fencing_token = i.next_fencing_token + 1
           /\ j.evidence = i.evidence
           /\ j.authority[p][b].state = "Granted"
           /\ j.authority[p][b].epoch = i.epoch
           /\ j.authority[p][b].token = i.next_fencing_token
           /\ \A c \in Boots \ {b} :
                 /\ j.authority[p][c].epoch = i.authority[p][c].epoch
                 /\ j.authority[p][c].token = i.authority[p][c].token
                 /\ j.authority[p][c].state = IF i.authority[p][c].state = "Granted"
                                              THEN "Superseded" ELSE i.authority[p][c].state
           /\ \A q \in Publishers \ {p} : j.authority[q] = i.authority[q]
  BY DEF ApplyGrantAuthority, StateImage, LiveOthers, AuthorityEntry

\* What a grant records for the incarnation it is made to.
LEMMA GrantHere ==
    ASSUME NEW i \in StateImage, NEW p \in Publishers, NEW b \in Boots
    PROVE  /\ ApplyGrantAuthority(i, p, b).authority[p][b].state = "Granted"
           /\ ApplyGrantAuthority(i, p, b).authority[p][b].epoch = i.epoch
           /\ ApplyGrantAuthority(i, p, b).authority[p][b].token = i.next_fencing_token
  BY GrantFields

\* What a grant records for another incarnation of the same publisher.
LEMMA GrantBeside ==
    ASSUME NEW i \in StateImage, NEW p \in Publishers, NEW b \in Boots, NEW c \in Boots, c # b
    PROVE  /\ ApplyGrantAuthority(i, p, b).authority[p][c].epoch = i.authority[p][c].epoch
           /\ ApplyGrantAuthority(i, p, b).authority[p][c].token = i.authority[p][c].token
           /\ ApplyGrantAuthority(i, p, b).authority[p][c].state =
                 IF i.authority[p][c].state = "Granted"
                 THEN "Superseded" ELSE i.authority[p][c].state
           /\ ApplyGrantAuthority(i, p, b).authority[p][c].state # "Granted"
  <1>1. c \in Boots \ {b}
    OBVIOUS
  <1>2. /\ ApplyGrantAuthority(i, p, b).authority[p][c].epoch = i.authority[p][c].epoch
        /\ ApplyGrantAuthority(i, p, b).authority[p][c].token = i.authority[p][c].token
        /\ ApplyGrantAuthority(i, p, b).authority[p][c].state =
              IF i.authority[p][c].state = "Granted"
              THEN "Superseded" ELSE i.authority[p][c].state
    BY <1>1, GrantFields
  <1>. QED BY <1>2

\* A grant leaves the records of every other publisher alone.
LEMMA GrantElsewhere ==
    ASSUME NEW i \in StateImage, NEW p \in Publishers, NEW b \in Boots,
           NEW q \in Publishers, q # p
    PROVE  ApplyGrantAuthority(i, p, b).authority[q] = i.authority[q]
  BY GrantFields

\* A grant to one incarnation leaves another one that is fenced in its state.
LEMMA GrantKeepsFenced ==
    ASSUME NEW i \in StateImage, NEW p \in Publishers, NEW b \in Boots,
           NEW q \in Publishers, NEW c \in Boots,
           p # q \/ b # c,
           i.authority[p][b].state = "Fenced"
    PROVE  ApplyGrantAuthority(i, q, c).authority[p][b].state = "Fenced"
  <1>1. CASE p # q
    <2>1. ApplyGrantAuthority(i, q, c).authority[p] = i.authority[p]
      BY <1>1, GrantElsewhere
    <2>. QED BY <2>1
  <1>2. CASE p = q /\ b # c
    <2>1. ApplyGrantAuthority(i, q, c).authority[q][b].state =
             IF i.authority[q][b].state = "Granted"
             THEN "Superseded" ELSE i.authority[q][b].state
      BY <1>2, GrantBeside
    <2>. QED BY <1>2, <2>1
  <1>. QED BY <1>1, <1>2

\* A grant made while a token is left yields an image.
LEMMA GrantType ==
    ASSUME NEW i \in StateImage, NEW p \in Publishers, NEW b \in Boots,
           i.next_fencing_token # MaxToken
    PROVE  ApplyGrantAuthority(i, p, b) \in StateImage
  <1> DEFINE row == [c \in Boots |->
                  IF c = b
                  THEN [state |-> "Granted", epoch |-> i.epoch, token |-> i.next_fencing_token]
                  ELSE IF c \in LiveOthers(i, p, b)
                       THEN [i.authority[p][c] EXCEPT !.state = "Superseded"]
                       ELSE i.authority[p][c]]
  <1>. HIDE DEF row
  <1>1. i.next_fencing_token + 1 \in 1..MaxToken
    <2>1. i.next_fencing_token \in 1..MaxToken
      BY DEF StateImage
    <2>. QED BY <2>1, BoundsAssumption
  <1>2. ASSUME NEW c \in Boots
        PROVE  row[c] \in AuthorityEntry
    <2>1. i.authority[p][c] \in AuthorityEntry
      BY DEF StateImage
    <2>2. [i.authority[p][c] EXCEPT !.state = "Superseded"] \in AuthorityEntry
      BY <2>1 DEF AuthorityEntry, AuthorityState
    <2>3. [state |-> "Granted", epoch |-> i.epoch, token |-> i.next_fencing_token]
             \in AuthorityEntry
      BY BoundsAssumption DEF AuthorityEntry, AuthorityState, StateImage
    <2>. QED BY <2>1, <2>2, <2>3 DEF row
  <1>3. row \in [Boots -> AuthorityEntry]
    BY <1>2 DEF row
  <1>4. ApplyGrantAuthority(i, p, b) =
           [i EXCEPT !.next_fencing_token = i.next_fencing_token + 1,
                     !.authority = [i.authority EXCEPT ![p] = row]]
    BY DEF ApplyGrantAuthority, row
  <1>. QED BY <1>1, <1>3, <1>4, ZenonT(60) DEF StateImage

\* Fencing changes the state of one entry to Fenced and nothing else.
LEMMA FenceFields ==
    ASSUME NEW i \in StateImage, NEW p \in Publishers, NEW b \in Boots
    PROVE  LET j == ApplyFenceAuthority(i, p, b) IN
           /\ j \in StateImage
           /\ j.epoch = i.epoch
           /\ j.next_fencing_token = i.next_fencing_token
           /\ j.evidence = i.evidence
           /\ j.authority[p][b].state = "Fenced"
           /\ j.authority[p][b].epoch = i.authority[p][b].epoch
           /\ j.authority[p][b].token = i.authority[p][b].token
           /\ \A c \in Boots \ {b} : j.authority[p][c] = i.authority[p][c]
           /\ \A q \in Publishers \ {p} : j.authority[q] = i.authority[q]
  <1> DEFINE row == [c \in Boots |->
                  IF c = b THEN [i.authority[p][b] EXCEPT !.state = "Fenced"]
                  ELSE i.authority[p][c]]
  <1>1. row \in [Boots -> AuthorityEntry]
    BY DEF StateImage, AuthorityEntry, AuthorityState
  <1>2. /\ row[b].state = "Fenced"
        /\ row[b].epoch = i.authority[p][b].epoch
        /\ row[b].token = i.authority[p][b].token
        /\ \A c \in Boots \ {b} : row[c] = i.authority[p][c]
    BY DEF StateImage, AuthorityEntry
  <1>. HIDE DEF row
  <1>3. ApplyFenceAuthority(i, p, b) = [i EXCEPT !.authority = [i.authority EXCEPT ![p] = row]]
    BY DEF ApplyFenceAuthority, row
  <1>4. /\ ApplyFenceAuthority(i, p, b) \in StateImage
        /\ ApplyFenceAuthority(i, p, b).authority = [i.authority EXCEPT ![p] = row]
        /\ ApplyFenceAuthority(i, p, b).epoch = i.epoch
        /\ ApplyFenceAuthority(i, p, b).next_fencing_token = i.next_fencing_token
        /\ ApplyFenceAuthority(i, p, b).evidence = i.evidence
    BY <1>1, <1>3, ZenonT(60) DEF StateImage
  <1>5. /\ [i.authority EXCEPT ![p] = row][p] = row
        /\ \A q \in Publishers \ {p} : [i.authority EXCEPT ![p] = row][q] = i.authority[q]
    BY DEF StateImage
  <1>. QED BY <1>2, <1>4, <1>5

\* Fencing one incarnation leaves the record of any other as it is.
LEMMA FenceElsewhere ==
    ASSUME NEW i \in StateImage, NEW p \in Publishers, NEW b \in Boots,
           NEW q \in Publishers, NEW c \in Boots,
           q # p \/ c # b
    PROVE  ApplyFenceAuthority(i, p, b).authority[q][c] = i.authority[q][c]
  <1> DEFINE j == ApplyFenceAuthority(i, p, b)
  <1>1. /\ \A cc \in Boots \ {b} : j.authority[p][cc] = i.authority[p][cc]
        /\ \A qq \in Publishers \ {p} : j.authority[qq] = i.authority[qq]
    BY FenceFields, ZenonT(60)
  <1> HIDE DEF j
  <1>2. CASE q # p
    <2>1. j.authority[q] = i.authority[q]
      BY <1>1, <1>2
    <2>. QED BY <2>1 DEF j
  <1>3. CASE q = p /\ c # b
    <2>1. j.authority[p][c] = i.authority[p][c]
      BY <1>1, <1>3
    <2>. QED BY <2>1, <1>3 DEF j
  <1>. QED BY <1>2, <1>3

\* Publishing and retiring evidence touch only the evidence.
LEMMA EvidenceFields ==
    ASSUME NEW i \in StateImage, NEW s \in Session, NEW a \in Assignments,
           NEW j \in {ApplyAssign(i, s, a), ApplyRetireAssignment(i, a)}
    PROVE  /\ j \in StateImage
           /\ j.epoch = i.epoch
           /\ j.next_fencing_token = i.next_fencing_token
           /\ j.authority = i.authority
  <1>1. CASE j = ApplyAssign(i, s, a)
    <2> DEFINE new == [assignment |-> a, publisher |-> s.publisher, boot |-> s.boot,
                       epoch |-> s.epoch, active |-> TRUE]
    <2>1. s.epoch \in 0..MaxEpoch /\ s.publisher \in Publishers /\ s.boot \in Boots
      BY BoundsAssumption DEF Session
    <2>2. new \in Evidence
      BY <2>1 DEF Evidence
    <2>3. {e \in i.evidence : e.assignment # a} \cup {new} \in SUBSET Evidence
      BY <2>2, Zenon DEF StateImage
    <2>. QED BY <1>1, <2>3 DEF ApplyAssign, StateImage
  <1>2. CASE j = ApplyRetireAssignment(i, a)
    <2>1. \A e \in i.evidence :
             [e EXCEPT !.active = (e.active /\ e.assignment # a)] \in Evidence
      BY ZenonT(60) DEF StateImage, Evidence
    <2>2. {[e EXCEPT !.active = (e.active /\ e.assignment # a)] : e \in i.evidence}
             \in SUBSET Evidence
      BY <2>1
    <2>. QED BY <1>2, <2>2 DEF ApplyRetireAssignment, StateImage
  <1>. QED BY <1>1, <1>2

\* Recovery turns live grants into expired ones and changes nothing else.
LEMMA NormalizeFields ==
    ASSUME NEW i \in StateImage
    PROVE  LET j == Normalize(i) IN
           /\ j \in StateImage
           /\ j.epoch = i.epoch
           /\ j.next_fencing_token = i.next_fencing_token
           /\ j.evidence = i.evidence
           /\ \A p \in Publishers : \A b \in Boots :
                 /\ j.authority[p][b].epoch = i.authority[p][b].epoch
                 /\ j.authority[p][b].token = i.authority[p][b].token
                 /\ j.authority[p][b].state = IF i.authority[p][b].state = "Granted"
                                              THEN "Expired" ELSE i.authority[p][b].state
  <1> DEFINE f(e) == IF e.state = "Granted" THEN [e EXCEPT !.state = "Expired"] ELSE e
             table == [p \in Publishers |-> [b \in Boots |-> f(i.authority[p][b])]]
  <1>1. \A e \in AuthorityEntry :
           /\ f(e) \in AuthorityEntry
           /\ f(e).epoch = e.epoch
           /\ f(e).token = e.token
           /\ f(e).state = IF e.state = "Granted" THEN "Expired" ELSE e.state
    BY DEF AuthorityEntry, AuthorityState
  <1>2. \A p \in Publishers : \A b \in Boots : i.authority[p][b] \in AuthorityEntry
    BY DEF StateImage
  <1>3. Normalize(i) = [i EXCEPT !.authority = table]
    BY DEF Normalize
  <1>. HIDE DEF f
  <1>4. table \in [Publishers -> [Boots -> AuthorityEntry]]
    BY <1>1, <1>2
  <1>5. \A p \in Publishers : \A b \in Boots : table[p][b] = f(i.authority[p][b])
    OBVIOUS
  <1>. HIDE DEF table
  <1>6. Normalize(i).authority = table /\ Normalize(i) \in StateImage
    BY <1>3, <1>4 DEF StateImage
  <1>. QED BY <1>1, <1>2, <1>3, <1>5, <1>6, SMTT(30) DEF StateImage
-----------------------------------------------------------------------------
(* How the Apply operators preserve the parts of the invariant. *)

\* After an epoch advance nobody holds authority.
LEMMA AdvanceLeavesNone ==
    ASSUME NEW i \in StateImage, LiveGrantsSound(i)
    PROVE  NoLiveGrant(ApplyAdvanceEpoch(i))
  <1> SUFFICES ASSUME NEW p \in Publishers, NEW b \in Boots
               PROVE  ApplyAdvanceEpoch(i).authority[p][b].state # "Granted"
    BY DEF NoLiveGrant
  <1>1. /\ i.authority[p][b] \in AuthorityEntry
        /\ i.epoch \in Nat
        /\ i.epoch + 1 \in Nat
        /\ i.epoch # i.epoch + 1
    BY BoundsAssumption DEF StateImage
  <1>2. i.authority[p][b].state = "Granted" => i.authority[p][b].epoch = i.epoch
    BY DEF LiveGrantsSound
  <1>3. ApplyAdvanceEpoch(i).authority[p][b] = Expire(i.authority[p][b], i.epoch + 1)
    BY AdvanceFields
  <1>4. Expire(i.authority[p][b], i.epoch + 1).state =
           IF i.authority[p][b].state = "Granted" /\ i.authority[p][b].epoch # i.epoch + 1
           THEN "Expired" ELSE i.authority[p][b].state
    BY <1>1, ExpireFacts, Zenon
  <1>. QED BY <1>1, <1>2, <1>3, <1>4

\* An image without live grants has at most one per publisher.
LEMMA NoneIsSound ==
    ASSUME NEW i, NoLiveGrant(i)
    PROVE  LiveGrantsSound(i)
  BY DEF NoLiveGrant, LiveGrantsSound

\* Live and replayed image stay in step when both advance the epoch.
LEMMA AdvanceHistory ==
    ASSUME NEW i \in StateImage, NEW d \in StateImage, SameHistory(i, d), i.epoch = d.epoch
    PROVE  SameHistory(ApplyAdvanceEpoch(i), ApplyAdvanceEpoch(d))
  <1> SUFFICES ASSUME NEW p \in Publishers, NEW b \in Boots
               PROVE  LET e == ApplyAdvanceEpoch(i).authority[p][b]
                          f == ApplyAdvanceEpoch(d).authority[p][b]
                      IN  /\ e.epoch = f.epoch
                          /\ e.token = f.token
                          /\ e.state = "Absent" <=> f.state = "Absent"
                          /\ e.state = "Fenced" <=> f.state = "Fenced"
                          /\ e.state = "Granted" => f.state = "Granted"
    BY DEF SameHistory
  <1> DEFINE e0 == i.authority[p][b]
             f0 == d.authority[p][b]
             n == i.epoch + 1
  <1>1. e0 \in AuthorityEntry /\ f0 \in AuthorityEntry /\ n \in Nat
    BY BoundsAssumption DEF StateImage
  <1>2. /\ ApplyAdvanceEpoch(i).authority[p][b] = Expire(e0, n)
        /\ ApplyAdvanceEpoch(d).authority[p][b] = Expire(f0, n)
    BY AdvanceFields
  <1>3. /\ e0.epoch = f0.epoch
        /\ e0.token = f0.token
        /\ e0.state = "Absent" <=> f0.state = "Absent"
        /\ e0.state = "Fenced" <=> f0.state = "Fenced"
        /\ e0.state = "Granted" => f0.state = "Granted"
    BY DEF SameHistory
  <1>. HIDE DEF e0, f0, n
  <1>. QED BY <1>1, <1>2, <1>3, ExpireFacts

\* A grant leaves at most one live incarnation of each publisher.
LEMMA GrantSound ==
    ASSUME NEW i \in StateImage, NEW p \in Publishers, NEW b \in Boots, LiveGrantsSound(i)
    PROVE  LiveGrantsSound(ApplyGrantAuthority(i, p, b))
  <1> DEFINE j == ApplyGrantAuthority(i, p, b)
  <1> HIDE DEF j
  <1>1. /\ j.epoch = i.epoch
        /\ j.authority[p][b].epoch = i.epoch
        /\ \A c \in Boots \ {b} : j.authority[p][c].state # "Granted"
        /\ \A q \in Publishers \ {p} : j.authority[q] = i.authority[q]
    BY GrantFields DEF j
  <1>2. \A q \in Publishers : \A c \in Boots : j.authority[q][c].state = "Granted" =>
            /\ j.authority[q][c].epoch = j.epoch
            /\ \A c2 \in Boots : j.authority[q][c2].state = "Granted" => c2 = c
    <2> TAKE q \in Publishers
    <2>1. CASE q = p
      BY <1>1, <2>1
    <2>2. CASE q # p
      BY <1>1, <2>2 DEF LiveGrantsSound
    <2>. QED BY <2>1, <2>2
  <1>. QED BY <1>2 DEF LiveGrantsSound, j

\* Live and replayed image stay in step when both record a grant.
LEMMA GrantHistory ==
    ASSUME NEW i \in StateImage, NEW d \in StateImage, NEW p \in Publishers, NEW b \in Boots,
           SameHistory(i, d), i.epoch = d.epoch, i.next_fencing_token = d.next_fencing_token
    PROVE  SameHistory(ApplyGrantAuthority(i, p, b), ApplyGrantAuthority(d, p, b))
  <1> DEFINE ii == ApplyGrantAuthority(i, p, b)
             dd == ApplyGrantAuthority(d, p, b)
  <1> SUFFICES ASSUME NEW q \in Publishers, NEW c \in Boots
               PROVE  LET e == ii.authority[q][c]
                          f == dd.authority[q][c]
                      IN  /\ e.epoch = f.epoch
                          /\ e.token = f.token
                          /\ e.state = "Absent" <=> f.state = "Absent"
                          /\ e.state = "Fenced" <=> f.state = "Fenced"
                          /\ e.state = "Granted" => f.state = "Granted"
    BY DEF SameHistory
  <1> HIDE DEF ii, dd
  <1>1. CASE q # p
    <2>1. ii.authority[q] = i.authority[q] /\ dd.authority[q] = d.authority[q]
      BY <1>1, GrantElsewhere DEF ii, dd
    <2>. QED BY <2>1 DEF SameHistory
  <1>2. CASE q = p /\ c = b
    BY <1>2, GrantHere DEF ii, dd
  <1>3. CASE q = p /\ c # b
    <2>1. /\ ii.authority[p][c].epoch = i.authority[p][c].epoch
          /\ ii.authority[p][c].token = i.authority[p][c].token
          /\ ii.authority[p][c].state = IF i.authority[p][c].state = "Granted"
                                        THEN "Superseded" ELSE i.authority[p][c].state
      BY <1>3, GrantBeside DEF ii
    <2>2. /\ dd.authority[p][c].epoch = d.authority[p][c].epoch
          /\ dd.authority[p][c].token = d.authority[p][c].token
          /\ dd.authority[p][c].state = IF d.authority[p][c].state = "Granted"
                                        THEN "Superseded" ELSE d.authority[p][c].state
      BY <1>3, GrantBeside DEF dd
    <2>3. /\ i.authority[p][c].epoch = d.authority[p][c].epoch
          /\ i.authority[p][c].token = d.authority[p][c].token
          /\ i.authority[p][c].state = "Absent" <=> d.authority[p][c].state = "Absent"
          /\ i.authority[p][c].state = "Fenced" <=> d.authority[p][c].state = "Fenced"
          /\ i.authority[p][c].state = "Granted" => d.authority[p][c].state = "Granted"
      BY DEF SameHistory
    <2>. QED BY <1>3, <2>1, <2>2, <2>3
  <1>. QED BY <1>1, <1>2, <1>3

\* Fencing keeps at most one live incarnation of each publisher.
LEMMA FenceSound ==
    ASSUME NEW i \in StateImage, NEW p \in Publishers, NEW b \in Boots, LiveGrantsSound(i)
    PROVE  LiveGrantsSound(ApplyFenceAuthority(i, p, b))
  <1> DEFINE j == ApplyFenceAuthority(i, p, b)
  <1> HIDE DEF j
  <1>1. j.epoch = i.epoch /\ j.authority[p][b].state = "Fenced"
    BY FenceFields DEF j
  <1>2. ASSUME NEW q \in Publishers, NEW c \in Boots, j.authority[q][c].state = "Granted"
        PROVE  j.authority[q][c] = i.authority[q][c]
    <2>1. q # p \/ c # b
      BY <1>1, <1>2
    <2>. QED BY <2>1, FenceElsewhere DEF j
  <1>. QED BY <1>1, <1>2 DEF LiveGrantsSound, j

\* Live and replayed image stay in step when both record a fence.
LEMMA FenceHistory ==
    ASSUME NEW i \in StateImage, NEW d \in StateImage, NEW p \in Publishers, NEW b \in Boots,
           SameHistory(i, d)
    PROVE  SameHistory(ApplyFenceAuthority(i, p, b), ApplyFenceAuthority(d, p, b))
  <1> DEFINE ii == ApplyFenceAuthority(i, p, b)
             dd == ApplyFenceAuthority(d, p, b)
  <1> SUFFICES ASSUME NEW q \in Publishers, NEW c \in Boots
               PROVE  LET e == ii.authority[q][c]
                          f == dd.authority[q][c]
                      IN  /\ e.epoch = f.epoch
                          /\ e.token = f.token
                          /\ e.state = "Absent" <=> f.state = "Absent"
                          /\ e.state = "Fenced" <=> f.state = "Fenced"
                          /\ e.state = "Granted" => f.state = "Granted"
    BY DEF SameHistory
  <1> HIDE DEF ii, dd
  <1>1. CASE q = p /\ c = b
    BY <1>1, FenceFields DEF ii, dd, SameHistory
  <1>2. CASE q # p \/ c # b
    <2>1. ii.authority[q][c] = i.authority[q][c] /\ dd.authority[q][c] = d.authority[q][c]
      BY <1>2, FenceElsewhere DEF ii, dd
    <2>. QED BY <2>1 DEF SameHistory
  <1>. QED BY <1>1, <1>2

\* What open() serves agrees with the replayed image and holds no authority.
LEMMA NormalizeHistory ==
    ASSUME NEW d \in StateImage
    PROVE  SameHistory(Normalize(d), d) /\ NoLiveGrant(Normalize(d))
  <1>1. \A p \in Publishers : \A b \in Boots :
           /\ Normalize(d).authority[p][b].epoch = d.authority[p][b].epoch
           /\ Normalize(d).authority[p][b].token = d.authority[p][b].token
           /\ Normalize(d).authority[p][b].state = IF d.authority[p][b].state = "Granted"
                                              THEN "Expired" ELSE d.authority[p][b].state
    BY NormalizeFields
  <1>. QED BY <1>1 DEF SameHistory, NoLiveGrant

\* The empty image is an image without live grants.
LEMMA EmptyFacts == EmptyImage \in StateImage /\ NoLiveGrant(EmptyImage)
  BY BoundsAssumption DEF EmptyImage, StateImage, NoAuthority, AuthorityEntry, AuthorityState,
                          NoLiveGrant

\* Every answer is a status code.
LEMMA StatusFacts ==
    /\ \A i, s : CheckAuthority(i, s) \in StatusCode
    /\ \A i : AdvanceEpochStatus(i) \in StatusCode
    /\ \A i, a : RetireStatus(i, a) \in StatusCode
    /\ \A i, p, b : GrantAuthorityStatus(i, p, b) \in StatusCode
    /\ \A i, p, b : GrantRefusal(i, p, b) \in StatusCode
  <1>1. \A i, s : CheckAuthority(i, s) \in StatusCode
    BY DEF CheckAuthority, StatusCode
  <1>2. \A i : AdvanceEpochStatus(i) \in StatusCode
    BY DEF AdvanceEpochStatus, StatusCode
  <1>3. \A i, a : RetireStatus(i, a) \in StatusCode
    BY DEF RetireStatus, StatusCode
  <1>4. \A i, p, b : GrantAuthorityStatus(i, p, b) \in StatusCode
    BY DEF GrantAuthorityStatus, StatusCode
  <1>5. \A i, p, b : GrantRefusal(i, p, b) \in StatusCode
    BY <1>2 DEF GrantRefusal, StatusCode
  <1>. QED BY <1>1, <1>2, <1>3, <1>4, <1>5

\* A mutation that is accepted was accepted by a healthy store.
LEMMA AcceptedHealthy ==
    /\ \A c, i, s : MutationStatus(c, i, s) = "Ok" => ~degraded /\ c = "Ok"
    /\ \A c, i, s : c \in StatusCode => MutationStatus(c, i, s) \in StatusCode
    /\ \A i, p, b : GrantRefusal(i, p, b) = "Ok" => ~degraded
  <1>1. \A c, i, s : MutationStatus(c, i, s) = "Ok" => ~degraded /\ c = "Ok"
    BY DEF MutationStatus
  <1>2. \A c, i, s : c \in StatusCode => MutationStatus(c, i, s) \in StatusCode
    BY StatusFacts DEF MutationStatus, StatusCode
  <1>3. \A i, p, b : GrantRefusal(i, p, b) = "Ok" => ~degraded
    BY DEF GrantRefusal
  <1>. QED BY <1>1, <1>2, <1>3

\* A record, readable or not, leaves the account of what is readable well typed.
LEMMA JournalFacts ==
    ASSUME TypeOK, JournalUnreadable \/ UNCHANGED <<unreadable, prefix>>
    PROVE  unreadable' \in BOOLEAN /\ prefix' \in StateImage
  BY Zenon DEF TypeOK, JournalUnreadable
-----------------------------------------------------------------------------
(* The inductive invariant *)

\* The parts of the state that the invariant talks about, without the reply.
LEMMA ReplyOnly ==
    ASSUME AuthorityInv, reply' \in StatusCode,
           UNCHANGED <<image, durable, unreadable, prefix, degraded, running, acceptNew,
                       snapshot, issued>>
    PROVE  AuthorityInv'
  <1>1. TypeOK' /\ (~Healthy' => NoLiveGrant(image'))
    BY DEF AuthorityInv, TypeOK, Healthy
  <1>2. OneLiveIncarnation' /\ ReplayAgrees'
    BY DEF AuthorityInv, OneLiveIncarnation, ReplayAgrees, Healthy
  <1>3. TokensNeverReused'
    BY DEF AuthorityInv, TokensNeverReused
  <1>4. LiveGrantIsNewest'
    BY DEF AuthorityInv, LiveGrantIsNewest, Newest, SessionOf
  <1>. QED BY <1>1, <1>2, <1>3, <1>4 DEF AuthorityInv

\* An epoch advance, on both images, keeps the invariant.
LEMMA AdvanceStep ==
    ASSUME AuthorityInv, Healthy, image.epoch # MaxEpoch, reply' \in StatusCode,
           unreadable' \in BOOLEAN, prefix' \in StateImage,
           image' = ApplyAdvanceEpoch(image), durable' = ApplyAdvanceEpoch(durable),
           UNCHANGED <<degraded, running, acceptNew, snapshot, issued>>
    PROVE  AuthorityInv'
  <1>1. image \in StateImage /\ durable \in StateImage /\ image.epoch = durable.epoch
    BY DEF AuthorityInv, TypeOK, ReplayAgrees
  <1>2. image' \in StateImage /\ durable' \in StateImage
    BY <1>1, AdvanceType
  <1>3. TypeOK'
    BY <1>2 DEF AuthorityInv, TypeOK
  <1>4. NoLiveGrant(image') /\ NoLiveGrant(durable')
    BY <1>1, AdvanceLeavesNone DEF AuthorityInv, OneLiveIncarnation
  <1>5. OneLiveIncarnation'
    BY <1>4, NoneIsSound DEF OneLiveIncarnation
  <1>6. /\ image'.next_fencing_token = image.next_fencing_token
        /\ durable'.next_fencing_token = durable.next_fencing_token
        /\ image'.epoch = durable'.epoch
        /\ image'.evidence = image.evidence
        /\ durable'.evidence = durable.evidence
    BY <1>1, AdvanceFields
  <1>7. SameHistory(image', durable')
    BY <1>1, AdvanceHistory DEF AuthorityInv, ReplayAgrees
  <1>8. ReplayAgrees'
    BY <1>6, <1>7 DEF AuthorityInv, ReplayAgrees
  <1>9. TokensNeverReused'
    BY <1>6 DEF AuthorityInv, TokensNeverReused
  <1>10. LiveGrantIsNewest'
    BY <1>4 DEF NoLiveGrant, LiveGrantIsNewest
  <1>11. Healthy'
    BY DEF Healthy
  <1>. QED BY <1>3, <1>5, <1>8, <1>9, <1>10, <1>11 DEF AuthorityInv

\* Fencing an incarnation, on both images, keeps the invariant.
LEMMA FenceStep ==
    ASSUME AuthorityInv, Healthy, NEW p \in Publishers, NEW b \in Boots,
           reply' \in StatusCode, unreadable' \in BOOLEAN, prefix' \in StateImage,
           image' = ApplyFenceAuthority(image, p, b),
           durable' = ApplyFenceAuthority(durable, p, b),
           UNCHANGED <<degraded, running, acceptNew, snapshot, issued>>
    PROVE  AuthorityInv'
  <1>1. image \in StateImage /\ durable \in StateImage
    BY DEF AuthorityInv, TypeOK
  <1>2. /\ image' \in StateImage
        /\ durable' \in StateImage
        /\ image'.epoch = image.epoch
        /\ durable'.epoch = durable.epoch
        /\ image'.next_fencing_token = image.next_fencing_token
        /\ durable'.next_fencing_token = durable.next_fencing_token
        /\ image'.evidence = image.evidence
        /\ durable'.evidence = durable.evidence
    BY <1>1, FenceFields
  <1>3. TypeOK'
    BY <1>2 DEF AuthorityInv, TypeOK
  <1>4. OneLiveIncarnation'
    BY <1>1, FenceSound DEF AuthorityInv, OneLiveIncarnation
  <1>5. SameHistory(image', durable')
    BY <1>1, FenceHistory DEF AuthorityInv, ReplayAgrees
  <1>6. ReplayAgrees'
    BY <1>2, <1>5 DEF AuthorityInv, ReplayAgrees
  <1>7. TokensNeverReused'
    BY <1>2 DEF AuthorityInv, TokensNeverReused
  <1>8. \A q \in Publishers : \A c \in Boots :
           image'.authority[q][c].state = "Granted" => image'.authority[q][c] = image.authority[q][c]
    <2> SUFFICES ASSUME NEW q \in Publishers, NEW c \in Boots,
                        image'.authority[q][c].state = "Granted"
                 PROVE  image'.authority[q][c] = image.authority[q][c]
      OBVIOUS
    <2> DEFINE j == ApplyFenceAuthority(image, p, b)
    <2> HIDE DEF j
    <2>1. image' = j
      BY DEF j
    <2>2. CASE q = p /\ c = b
      BY <1>1, <2>1, <2>2, FenceFields DEF j
    <2>3. CASE q # p \/ c # b
      <3>1. j.authority[q][c] = image.authority[q][c]
        BY <1>1, <2>3, FenceElsewhere DEF j
      <3>. QED BY <2>1, <3>1
    <2>. QED BY <2>2, <2>3
  <1>9. LiveGrantIsNewest'
    BY <1>8 DEF AuthorityInv, LiveGrantIsNewest, Newest, SessionOf
  <1>10. Healthy'
    BY DEF Healthy
  <1>. QED BY <1>3, <1>4, <1>6, <1>7, <1>9, <1>10 DEF AuthorityInv

\* A step that touches only the evidence, alike in both images, keeps the invariant.
LEMMA EvidenceStep ==
    ASSUME AuthorityInv, Healthy, reply' \in StatusCode,
           image' \in StateImage, durable' \in StateImage,
           image'.epoch = image.epoch, durable'.epoch = durable.epoch,
           image'.next_fencing_token = image.next_fencing_token,
           durable'.next_fencing_token = durable.next_fencing_token,
           image'.authority = image.authority, durable'.authority = durable.authority,
           image'.evidence = durable'.evidence,
           UNCHANGED <<unreadable, prefix, degraded, running, acceptNew, snapshot, issued>>
    PROVE  AuthorityInv'
  <1>1. TypeOK'
    BY DEF AuthorityInv, TypeOK
  <1>2. OneLiveIncarnation'
    BY DEF AuthorityInv, OneLiveIncarnation, LiveGrantsSound
  <1>3. ReplayAgrees'
    BY DEF AuthorityInv, ReplayAgrees, SameHistory
  <1>4. TokensNeverReused'
    BY DEF AuthorityInv, TokensNeverReused
  <1>5. LiveGrantIsNewest'
    BY DEF AuthorityInv, LiveGrantIsNewest, Newest, SessionOf
  <1>6. Healthy'
    BY DEF Healthy
  <1>. QED BY <1>1, <1>2, <1>3, <1>4, <1>5, <1>6 DEF AuthorityInv

\* The images between the two commits of grant_authority: an image the grant can be applied
\* to, on which no other incarnation of the publisher is live.
LEMMA BeforeGrantFacts ==
    ASSUME AuthorityInv, Healthy, NEW p \in Publishers, NEW b \in Boots,
           GrantRefusal(image, p, b) = "Ok",
           NEW moved, moved = MovesEpoch(image, p, b),
           NEW i, i = BeforeGrant(image, moved),
           NEW d, d = BeforeGrant(durable, moved)
    PROVE  /\ i \in StateImage /\ d \in StateImage
           /\ i.epoch = d.epoch
           /\ i.epoch # 0
           /\ i.next_fencing_token = image.next_fencing_token
           /\ d.next_fencing_token = durable.next_fencing_token
           /\ i.evidence = d.evidence
           /\ SameHistory(i, d)
           /\ LiveGrantsSound(i) /\ LiveGrantsSound(d)
           /\ NoLiveGrant(i) \/ i = image
  <1>1. /\ image \in StateImage
        /\ durable \in StateImage
        /\ image.epoch = durable.epoch
        /\ image.next_fencing_token = durable.next_fencing_token
        /\ image.evidence = durable.evidence
        /\ SameHistory(image, durable)
        /\ LiveGrantsSound(image)
        /\ LiveGrantsSound(durable)
    BY DEF AuthorityInv, TypeOK, ReplayAgrees, OneLiveIncarnation
  <1>2. CASE moved
    <2>1. image.epoch # MaxEpoch
      BY <1>2 DEF GrantRefusal, AdvanceEpochStatus
    <2>2. i = ApplyAdvanceEpoch(image) /\ d = ApplyAdvanceEpoch(durable)
      BY <1>2 DEF BeforeGrant
    <2>3. i \in StateImage /\ d \in StateImage
      BY <1>1, <2>1, <2>2, AdvanceType
    <2>4. NoLiveGrant(i) /\ NoLiveGrant(d)
      BY <1>1, <2>2, AdvanceLeavesNone
    <2>5. LiveGrantsSound(i) /\ LiveGrantsSound(d)
      BY <2>4, NoneIsSound
    <2>6. SameHistory(i, d)
      BY <1>1, <2>2, AdvanceHistory
    <2>7. /\ i.epoch = image.epoch + 1
          /\ d.epoch = durable.epoch + 1
          /\ i.next_fencing_token = image.next_fencing_token
          /\ d.next_fencing_token = durable.next_fencing_token
          /\ i.evidence = image.evidence
          /\ d.evidence = durable.evidence
      BY <1>1, <2>2, AdvanceFields
    <2>8. image.epoch \in Nat
      BY <1>1, BoundsAssumption DEF StateImage
    <2>9. i.epoch = d.epoch /\ i.epoch # 0 /\ i.evidence = d.evidence
      BY <1>1, <2>7, <2>8
    <2>. QED BY <2>3, <2>4, <2>5, <2>6, <2>7, <2>9
  <1>3. CASE ~moved
    <2>1. i = image /\ d = durable
      BY <1>3 DEF BeforeGrant
    <2>2. image.epoch # 0
      BY <1>3, Zenon DEF MovesEpoch
    <2>. QED BY <1>1, <2>1, <2>2
  <1>. QED BY <1>2, <1>3

\* grant_authority, accepted or refused after the epoch moved, keeps the invariant.
LEMMA GrantStep ==
    ASSUME AuthorityInv, NEW p \in Publishers, NEW b \in Boots, GrantAuthority(p, b)
    PROVE  AuthorityInv'
  <1> DEFINE moved == MovesEpoch(image, p, b)
             i == BeforeGrant(image, moved)
             d == BeforeGrant(durable, moved)
             new == [publisher |-> p, boot |-> b, epoch |-> i.epoch,
                     token |-> i.next_fencing_token]
  <1>0. /\ Healthy /\ Healthy'
        /\ GrantRefusal(image, p, b) = "Ok"
        /\ UNCHANGED <<unreadable, prefix, degraded, running, acceptNew, snapshot>>
        /\ reply' = GrantAuthorityStatus(i, p, b)
        /\ image' = IF reply' = "Ok" THEN ApplyGrantAuthority(i, p, b) ELSE i
        /\ durable' = IF reply' = "Ok" THEN ApplyGrantAuthority(d, p, b) ELSE d
        /\ issued' = IF reply' = "Ok" THEN issued \cup {new} ELSE issued
    BY AcceptedHealthy DEF GrantAuthority, Healthy
  <1>. HIDE DEF moved, i, d
  <1>1. /\ i \in StateImage /\ d \in StateImage
        /\ i.epoch = d.epoch
        /\ i.epoch # 0
        /\ i.next_fencing_token = image.next_fencing_token
        /\ d.next_fencing_token = durable.next_fencing_token
        /\ i.evidence = d.evidence
        /\ SameHistory(i, d)
        /\ LiveGrantsSound(i) /\ LiveGrantsSound(d)
        /\ NoLiveGrant(i) \/ i = image
    BY <1>0, BeforeGrantFacts DEF moved, i, d
  <1>2. i.next_fencing_token = d.next_fencing_token
    BY <1>0, <1>1 DEF AuthorityInv, ReplayAgrees
  <1>3. reply' \in StatusCode
    BY <1>0, StatusFacts
  <1>4. \A q \in Publishers : \A c \in Boots :
           i.authority[q][c].state = "Granted" => Newest(SessionOf(i, q, c))
    BY <1>1 DEF AuthorityInv, LiveGrantIsNewest, NoLiveGrant
  <1>5. CASE reply' # "Ok"
    <2>1. image' = i /\ durable' = d /\ issued' = issued
      BY <1>0, <1>5
    <2>2. TypeOK'
      BY <1>0, <1>1, <1>3, <2>1 DEF AuthorityInv, TypeOK
    <2>3. OneLiveIncarnation'
      BY <1>1, <2>1 DEF OneLiveIncarnation
    <2>4. ReplayAgrees'
      BY <1>1, <1>2, <2>1 DEF ReplayAgrees
    <2>5. TokensNeverReused'
      BY <1>1, <2>1 DEF AuthorityInv, TokensNeverReused
    <2>6. LiveGrantIsNewest'
      BY <1>4, <2>1 DEF LiveGrantIsNewest, Newest, SessionOf
    <2>. QED BY <1>0, <2>2, <2>3, <2>4, <2>5, <2>6 DEF AuthorityInv
  <1>6. CASE reply' = "Ok"
    <2>1. /\ image' = ApplyGrantAuthority(i, p, b)
          /\ durable' = ApplyGrantAuthority(d, p, b)
          /\ issued' = issued \cup {new}
      BY <1>0, <1>6
    <2>2. i.next_fencing_token # MaxToken
      BY <1>0, <1>6 DEF GrantAuthorityStatus
    <2>3. image' \in StateImage /\ durable' \in StateImage
      BY <1>1, <1>2, <2>1, <2>2, GrantType
    <2>4. new \in Session
      <3>1. i.epoch \in 1..MaxEpoch /\ i.next_fencing_token \in 1..MaxToken
        BY <1>1, BoundsAssumption DEF StateImage
      <3>. QED BY <3>1 DEF Session
    <2>5. TypeOK'
      BY <1>0, <1>3, <2>1, <2>3, <2>4 DEF AuthorityInv, TypeOK
    <2>6. OneLiveIncarnation'
      BY <1>1, <2>1, GrantSound DEF OneLiveIncarnation
    <2>7. /\ image'.epoch = i.epoch
          /\ durable'.epoch = d.epoch
          /\ image'.next_fencing_token = i.next_fencing_token + 1
          /\ durable'.next_fencing_token = d.next_fencing_token + 1
          /\ image'.evidence = i.evidence
          /\ durable'.evidence = d.evidence
      BY <1>1, <2>1, GrantFields
    <2>8. SameHistory(image', durable')
      BY <1>1, <1>2, <2>1, GrantHistory
    <2>9. ReplayAgrees'
      BY <1>1, <1>2, <2>7, <2>8 DEF ReplayAgrees
    <2>10. /\ i.next_fencing_token \in Nat
           /\ new.token = i.next_fencing_token
           /\ \A s \in issued : s.token \in Nat /\ s.token < new.token
      <3>1. \A s \in issued : s.token \in Nat
        BY BoundsAssumption DEF AuthorityInv, TypeOK, Session
      <3>2. i.next_fencing_token \in Nat
        BY <1>1, BoundsAssumption DEF StateImage
      <3>. QED BY <1>1, <1>2, <3>1, <3>2 DEF AuthorityInv, TokensNeverReused
    <2>11. TokensNeverReused'
      <3>1. \A s, t \in issued' : s.token = t.token => s = t
        BY <2>1, <2>10 DEF AuthorityInv, TokensNeverReused
      <3>2. \A s \in issued' : s.token < durable'.next_fencing_token
        BY <1>2, <2>1, <2>7, <2>10
      <3>. QED BY <3>1, <3>2 DEF TokensNeverReused
    <2>12. LiveGrantIsNewest'
      <3> SUFFICES ASSUME NEW q \in Publishers, NEW c \in Boots,
                          image'.authority[q][c].state = "Granted"
                   PROVE  LET s == SessionOf(image', q, c) IN
                          s \in issued' /\ \A t \in issued' : t.publisher = s.publisher => t.token <= s.token
        BY DEF LiveGrantIsNewest, Newest, SessionOf
      <3>1. CASE q = p
        <4>1. c = b
          BY <1>1, <2>1, <3>1, GrantBeside
        <4>2. image'.authority[p][b].epoch = i.epoch /\ image'.authority[p][b].token = i.next_fencing_token
          BY <1>1, <2>1, GrantHere
        <4>3. SessionOf(image', q, c) = new
          BY <3>1, <4>1, <4>2 DEF SessionOf
        <4>. QED BY <2>1, <2>10, <4>3
      <3>2. CASE q # p
        <4>1. image'.authority[q] = i.authority[q]
          BY <1>1, <2>1, <3>2, GrantElsewhere
        <4>2. SessionOf(image', q, c) = SessionOf(i, q, c) /\ Newest(SessionOf(i, q, c))
          BY <1>4, <4>1 DEF SessionOf
        <4>3. SessionOf(i, q, c).publisher # new.publisher
          BY <3>2 DEF SessionOf
        <4>. QED BY <2>1, <4>2, <4>3 DEF Newest
      <3>. QED BY <3>1, <3>2
    <2>. QED BY <1>0, <2>5, <2>6, <2>9, <2>11, <2>12 DEF AuthorityInv
  <1>. QED BY <1>5, <1>6

\* Every step keeps the invariant.
LEMMA InductiveStep == AuthorityInv /\ [Next]_vars => AuthorityInv'
  <1> SUFFICES ASSUME AuthorityInv, [Next]_vars
               PROVE  AuthorityInv'
    OBVIOUS
  <1>t. image \in StateImage /\ durable \in StateImage /\ issued \subseteq Session
    BY DEF AuthorityInv, TypeOK
  <1>1. ASSUME NEW p \in Publishers, NEW b \in Boots, ReturnGrant(p, b)
        PROVE  AuthorityInv'
    <2>1. SessionOf(image, p, b) \in issued
      BY <1>1 DEF ReturnGrant, HoldsCurrentGrant, AuthorityInv, LiveGrantIsNewest, Newest
    <2>2. issued' = issued /\ reply' \in StatusCode
      BY <1>1, <2>1 DEF ReturnGrant, StatusCode
    <2>. QED BY <1>1, <2>2, ReplyOnly DEF ReturnGrant, journal
  <1>2. ASSUME NEW p \in Publishers, NEW b \in Boots, RefuseGrant(p, b)
        PROVE  AuthorityInv'
    BY <1>2, StatusFacts, ReplyOnly DEF RefuseGrant, journal
  <1>3. ASSUME NEW p \in Publishers, NEW b \in Boots, GrantAuthority(p, b)
        PROVE  AuthorityInv'
    BY <1>3, GrantStep
  <1>4. ASSUME NEW p \in Publishers, NEW b \in Boots, CrashInGrant(p, b)
        PROVE  AuthorityInv'
    <2>1. /\ Healthy /\ ~Healthy'
          /\ GrantRefusal(image, p, b) = "Ok"
          /\ MovesEpoch(image, p, b)
          /\ durable' = ApplyAdvanceEpoch(durable)
          /\ image' = EmptyImage
          /\ running' = FALSE
          /\ UNCHANGED <<unreadable, prefix, degraded, acceptNew, snapshot, issued, reply>>
      BY <1>4, AcceptedHealthy DEF CrashInGrant, Healthy
    <2>2. durable.epoch # MaxEpoch
      BY <2>1 DEF GrantRefusal, AdvanceEpochStatus, AuthorityInv, ReplayAgrees
    <2>3. durable' \in StateImage /\ image' \in StateImage /\ NoLiveGrant(image')
      BY <1>t, <2>1, <2>2, AdvanceType, EmptyFacts
    <2>4. NoLiveGrant(durable') /\ durable'.next_fencing_token = durable.next_fencing_token
      BY <1>t, <2>1, AdvanceLeavesNone, AdvanceFields DEF AuthorityInv, OneLiveIncarnation
    <2>5. TypeOK'
      BY <2>1, <2>3, Zenon DEF AuthorityInv, TypeOK
    <2>6. OneLiveIncarnation'
      BY <2>3, <2>4, NoneIsSound DEF OneLiveIncarnation
    <2>7. TokensNeverReused'
      BY <2>1, <2>4 DEF AuthorityInv, TokensNeverReused
    <2>8. LiveGrantIsNewest'
      BY <2>3 DEF NoLiveGrant, LiveGrantIsNewest
    <2>9. NoLiveGrant(image)'
      BY <2>3 DEF NoLiveGrant
    <2>. QED BY <2>1, <2>5, <2>6, <2>7, <2>8, <2>9 DEF AuthorityInv, ReplayAgrees
  <1>5. ASSUME NEW s \in Session, NEW long \in BOOLEAN, AdvanceEpoch(s, long)
        PROVE  AuthorityInv'
    <2>1. reply' \in StatusCode
      BY <1>5, StatusFacts, AcceptedHealthy, Zenon DEF AdvanceEpoch
    <2>2. CASE reply' = "Ok"
      <3>1. Healthy /\ image.epoch # MaxEpoch
        BY <1>5, <2>2, AcceptedHealthy DEF AdvanceEpoch, AdvanceEpochStatus, Healthy
      <3>2. unreadable' \in BOOLEAN /\ prefix' \in StateImage
        BY <1>5, JournalFacts DEF AdvanceEpoch, JournalReason, AuthorityInv
      <3>. QED BY <1>5, <2>1, <2>2, <3>1, <3>2, AdvanceStep DEF AdvanceEpoch
    <2>3. CASE reply' # "Ok"
      BY <1>5, <2>1, <2>3, ReplyOnly DEF AdvanceEpoch, JournalReason
    <2>. QED BY <2>2, <2>3
  <1>6. ASSUME NEW s \in Session, NEW p \in Publishers, NEW b \in Boots,
               NEW long \in BOOLEAN, Fence(s, p, b, long)
        PROVE  AuthorityInv'
    <2>1. reply' \in StatusCode
      BY <1>6, StatusFacts, AcceptedHealthy DEF Fence, StatusCode
    <2>2. CASE reply' = "Ok"
      <3>1. Healthy
        BY <1>6, <2>2, AcceptedHealthy DEF Fence, Healthy
      <3>2. unreadable' \in BOOLEAN /\ prefix' \in StateImage
        BY <1>6, JournalFacts DEF Fence, JournalReason, AuthorityInv
      <3>. QED BY <1>6, <2>1, <2>2, <3>1, <3>2, FenceStep DEF Fence
    <2>3. CASE reply' # "Ok"
      BY <1>6, <2>1, <2>3, ReplyOnly DEF Fence, JournalReason
    <2>. QED BY <2>2, <2>3
  <1>7. ASSUME NEW s \in Session, NEW a \in Assignments, Assign(s, a)
        PROVE  AuthorityInv'
    <2>1. reply' \in StatusCode
      BY <1>7, StatusFacts, AcceptedHealthy DEF Assign, StatusCode
    <2>2. CASE reply' = "Ok"
      <3>0. Healthy
        BY <1>7, <2>2, AcceptedHealthy DEF Assign, Healthy
      <3>1. image' = ApplyAssign(image, s, a) /\ durable' = ApplyAssign(durable, s, a)
        BY <1>7, <2>2 DEF Assign
      <3>2. image.evidence = durable.evidence
        BY <3>0 DEF AuthorityInv, ReplayAgrees
      <3>3. image'.evidence = durable'.evidence
        BY <1>t, <3>1, <3>2 DEF ApplyAssign, StateImage
      <3>4. /\ image' \in StateImage
            /\ image'.epoch = image.epoch
            /\ image'.next_fencing_token = image.next_fencing_token
            /\ image'.authority = image.authority
        BY <1>t, <3>1, EvidenceFields
      <3>5. /\ durable' \in StateImage
            /\ durable'.epoch = durable.epoch
            /\ durable'.next_fencing_token = durable.next_fencing_token
            /\ durable'.authority = durable.authority
        BY <1>t, <3>1, EvidenceFields
      <3>. QED BY <1>7, <2>1, <3>0, <3>3, <3>4, <3>5, EvidenceStep DEF Assign
    <2>3. CASE reply' # "Ok"
      BY <1>7, <2>1, <2>3, ReplyOnly DEF Assign
    <2>. QED BY <2>2, <2>3
  <1>8. ASSUME NEW s \in Session, NEW a \in Assignments, RetireAssignment(s, a)
        PROVE  AuthorityInv'
    <2>1. reply' \in StatusCode
      BY <1>8, StatusFacts, AcceptedHealthy DEF RetireAssignment, StatusCode
    <2>2. CASE reply' = "Ok"
      <3>0. Healthy
        BY <1>8, <2>2, AcceptedHealthy, Zenon DEF RetireAssignment, Healthy
      <3>1. image' = ApplyRetireAssignment(image, a) /\ durable' = ApplyRetireAssignment(durable, a)
        BY <1>8, <2>2 DEF RetireAssignment
      <3>2. image.evidence = durable.evidence
        BY <3>0 DEF AuthorityInv, ReplayAgrees
      <3>3. image'.evidence = durable'.evidence
        BY <1>t, <3>1, <3>2 DEF ApplyRetireAssignment, StateImage
      <3>4. /\ image' \in StateImage
            /\ image'.epoch = image.epoch
            /\ image'.next_fencing_token = image.next_fencing_token
            /\ image'.authority = image.authority
        BY <1>t, <3>1, EvidenceFields
      <3>5. /\ durable' \in StateImage
            /\ durable'.epoch = durable.epoch
            /\ durable'.next_fencing_token = durable.next_fencing_token
            /\ durable'.authority = durable.authority
        BY <1>t, <3>1, EvidenceFields
      <3>. QED BY <1>8, <2>1, <3>0, <3>3, <3>4, <3>5, EvidenceStep DEF RetireAssignment
    <2>3. CASE reply' # "Ok"
      BY <1>8, <2>1, <2>3, ReplyOnly DEF RetireAssignment
    <2>. QED BY <2>2, <2>3
  <1>9. CASE Checkpoint
    <2>1. /\ Healthy /\ Healthy'
          /\ durable' = image
          /\ unreadable' = FALSE
          /\ prefix' \in StateImage
          /\ reply' \in StatusCode
          /\ UNCHANGED <<image, degraded, running, acceptNew, issued>>
      BY <1>9, EmptyFacts DEF Checkpoint, StatusCode, Healthy
    <2>2. snapshot' \in Nat
      <3>1. IsFiniteSet(Publishers \X Boots)
        BY FiniteIds, FS_Product
      <3>2. IsFiniteSet(AuthorityRecords(image))
        BY <3>1, FS_Subset DEF AuthorityRecords
      <3>. QED BY <1>9, <3>2, FS_CardinalityType DEF Checkpoint
    <2>3. TypeOK'
      BY <2>1, <2>2, Zenon DEF AuthorityInv, TypeOK
    <2>4. OneLiveIncarnation'
      BY <2>1 DEF AuthorityInv, OneLiveIncarnation, LiveGrantsSound
    <2>5. ReplayAgrees'
      BY <2>1 DEF ReplayAgrees, SameHistory
    <2>6. TokensNeverReused'
      BY <2>1 DEF AuthorityInv, ReplayAgrees, TokensNeverReused
    <2>7. LiveGrantIsNewest'
      BY <2>1 DEF AuthorityInv, LiveGrantIsNewest, Newest, SessionOf
    <2>. QED BY <2>1, <2>3, <2>4, <2>5, <2>6, <2>7 DEF AuthorityInv
  <1>9a. CASE RefuseCheckpoint
    BY <1>9a, ReplyOnly DEF RefuseCheckpoint, journal, StatusCode
  <1>10. CASE Stop
    <2>1. /\ image' = EmptyImage
          /\ running' = FALSE
          /\ ~Healthy'
          /\ UNCHANGED <<durable, unreadable, prefix, degraded, acceptNew, snapshot, issued, reply>>
      BY <1>10 DEF Stop, journal, Healthy
    <2>2. image' \in StateImage /\ NoLiveGrant(image') /\ NoLiveGrant(image)'
      BY <2>1, EmptyFacts DEF NoLiveGrant
    <2>3. TypeOK'
      BY <2>1, <2>2, Zenon DEF AuthorityInv, TypeOK
    <2>4. OneLiveIncarnation'
      <3>1. LiveGrantsSound(image')
        BY <2>2, NoneIsSound
      <3>2. LiveGrantsSound(durable')
        BY <2>1 DEF AuthorityInv, OneLiveIncarnation
      <3>. QED BY <3>1, <3>2 DEF OneLiveIncarnation
    <2>5. TokensNeverReused' /\ LiveGrantIsNewest'
      BY <2>1, <2>2 DEF AuthorityInv, TokensNeverReused, NoLiveGrant, LiveGrantIsNewest
    <2>. QED BY <2>1, <2>2, <2>3, <2>4, <2>5 DEF AuthorityInv, ReplayAgrees
  <1>11. ASSUME NEW allow \in BOOLEAN, Open(allow)
         PROVE  AuthorityInv'
    <2> DEFINE r == Replayed
    <2>0. r \in StateImage
      BY DEF Replayed, AuthorityInv, TypeOK
    <2>1. /\ image' = Normalize(r)
          /\ running' = TRUE
          /\ degraded' = unreadable
          /\ acceptNew' \in BOOLEAN
          /\ reply' \in StatusCode
          /\ UNCHANGED <<durable, unreadable, prefix, snapshot, issued>>
      BY <1>11 DEF Open, StatusCode, journal
    <2>2. ~unreadable => r = durable
      BY DEF Replayed
    <2>. HIDE DEF r
    <2>3. /\ image' \in StateImage
          /\ image'.epoch = r.epoch
          /\ image'.next_fencing_token = r.next_fencing_token
          /\ image'.evidence = r.evidence
      BY <2>0, <2>1, NormalizeFields
    <2>4. SameHistory(image', r) /\ NoLiveGrant(image')
      BY <2>0, <2>1, NormalizeHistory
    <2>5. TypeOK'
      BY <2>1, <2>3 DEF AuthorityInv, TypeOK
    <2>6. OneLiveIncarnation'
      <3>1. LiveGrantsSound(image')
        BY <2>4, NoneIsSound
      <3>2. LiveGrantsSound(durable')
        BY <2>1 DEF AuthorityInv, OneLiveIncarnation
      <3>. QED BY <3>1, <3>2 DEF OneLiveIncarnation
    <2>7. ReplayAgrees'
      <3>1. Healthy' => r = durable
        BY <2>1, <2>2 DEF Healthy
      <3>. QED BY <3>1, <2>1, <2>3, <2>4 DEF ReplayAgrees, SameHistory
    <2>8. TokensNeverReused' /\ LiveGrantIsNewest'
      BY <2>1, <2>4 DEF AuthorityInv, TokensNeverReused, NoLiveGrant, LiveGrantIsNewest
    <2>9. NoLiveGrant(image)'
      BY <2>4 DEF NoLiveGrant
    <2>. QED BY <2>5, <2>6, <2>7, <2>8, <2>9 DEF AuthorityInv
  <1>12. ASSUME NEW allow \in BOOLEAN, OpenAdvancing(allow)
         PROVE  AuthorityInv'
    <2> DEFINE n == Normalize(durable)
    <2> HIDE DEF n
    <2>1. /\ n.epoch # MaxEpoch
          /\ image' = ApplyAdvanceEpoch(n)
          /\ durable' = ApplyAdvanceEpoch(durable)
          /\ degraded' = FALSE
          /\ running' = TRUE
          /\ acceptNew' \in BOOLEAN
          /\ reply' \in StatusCode
          /\ UNCHANGED <<snapshot, issued>>
      BY <1>12 DEF OpenAdvancing, StatusCode, AdvanceEpochStatus, n
    <2>0. unreadable' \in BOOLEAN /\ prefix' \in StateImage
      BY <1>12, JournalFacts DEF OpenAdvancing, AuthorityInv
    <2>2. /\ n \in StateImage
          /\ n.epoch = durable.epoch
          /\ n.next_fencing_token = durable.next_fencing_token
          /\ n.evidence = durable.evidence
      BY <1>t, NormalizeFields DEF n
    <2>3. SameHistory(n, durable) /\ NoLiveGrant(n)
      BY <1>t, NormalizeHistory DEF n
    <2>4. image' \in StateImage /\ durable' \in StateImage
      BY <1>t, <2>1, <2>2, AdvanceType
    <2>5. NoLiveGrant(image') /\ NoLiveGrant(durable')
      BY <1>t, <2>1, <2>2, <2>3, NoneIsSound, AdvanceLeavesNone DEF AuthorityInv, OneLiveIncarnation
    <2>6. SameHistory(image', durable')
      BY <1>t, <2>1, <2>2, <2>3, AdvanceHistory
    <2>7. /\ image'.epoch = durable'.epoch
          /\ image'.next_fencing_token = durable'.next_fencing_token
          /\ durable'.next_fencing_token = durable.next_fencing_token
          /\ image'.evidence = durable'.evidence
      BY <1>t, <2>1, <2>2, AdvanceFields
    <2>8. TypeOK'
      BY <2>0, <2>1, <2>4, Zenon DEF AuthorityInv, TypeOK
    <2>9. OneLiveIncarnation'
      BY <2>5, NoneIsSound DEF OneLiveIncarnation
    <2>10. ReplayAgrees'
      BY <2>6, <2>7 DEF ReplayAgrees
    <2>11. TokensNeverReused' /\ LiveGrantIsNewest'
      BY <2>1, <2>5, <2>7 DEF AuthorityInv, TokensNeverReused, NoLiveGrant, LiveGrantIsNewest
    <2>12. Healthy'
      BY <2>1 DEF Healthy
    <2>. QED BY <2>8, <2>9, <2>10, <2>11, <2>12 DEF AuthorityInv
  <1>13. ASSUME NEW advance \in BOOLEAN, OpenFails(advance)
         PROVE  AuthorityInv'
    BY <1>13, StatusFacts, ReplyOnly DEF OpenFails, StatusCode, journal
  <1>14. CASE UNCHANGED vars
    BY <1>14, ReplyOnly DEF vars, AuthorityInv, TypeOK
  <1>. QED BY <1>1, <1>2, <1>3, <1>4, <1>5, <1>6, <1>7, <1>8, <1>9, <1>9a, <1>10, <1>11,
              <1>12, <1>13, <1>14 DEF Next

\* The invariant holds in every reachable state.
THEOREM Invariance == Spec => []AuthorityInv
  <1>1. Init => AuthorityInv
    <2> SUFFICES ASSUME Init PROVE AuthorityInv
      OBVIOUS
    <2>1. NoLiveGrant(image) /\ NoLiveGrant(durable)
      BY EmptyFacts DEF Init
    <2>2. TypeOK
      BY EmptyFacts, Zenon DEF Init, TypeOK, StatusCode
    <2>3. OneLiveIncarnation
      BY <2>1, NoneIsSound DEF OneLiveIncarnation
    <2>. QED BY <2>1, <2>2, <2>3 DEF Init, AuthorityInv, ReplayAgrees, TokensNeverReused,
                                     LiveGrantIsNewest, NoLiveGrant, Healthy
  <1>. QED BY <1>1, InductiveStep, PTL DEF Spec
-----------------------------------------------------------------------------
(* What follows *)

\* The authority state keeps its type; in particular neither the epoch nor the token
\* counter of the live or of the replayed image ever passes its maximum.
THEOREM TypeCorrect == Spec => []TypeOK
  BY Invariance, PTL DEF AuthorityInv

\* At most one incarnation of a publisher is live, under the current epoch.
THEOREM AtMostOneLive == Spec => []OneLiveIncarnation
  BY Invariance, PTL DEF AuthorityInv

\* The journal replays to the live image, up to what recovery expires.
THEOREM ReplayFaithful == Spec => []ReplayAgrees
  BY Invariance, PTL DEF AuthorityInv

\* A fencing token is issued once, across crashes and restarts.
THEOREM TokensUnique == Spec => []TokensNeverReused
  BY Invariance, PTL DEF AuthorityInv

\* check_authority accepts a session only if it is its publisher's newest.
THEOREM StaleSessionsRefused == Spec => []OnlyNewestSessionAccepted
  <1>1. AuthorityInv => OnlyNewestSessionAccepted
    <2> SUFFICES ASSUME AuthorityInv, NEW s \in Session, CheckAuthority(image, s) = "Ok"
                 PROVE  Newest(s)
      BY DEF OnlyNewestSessionAccepted
    <2>1. /\ image.authority[s.publisher][s.boot].state = "Granted"
          /\ image.authority[s.publisher][s.boot].epoch = image.epoch
          /\ image.authority[s.publisher][s.boot].token = s.token
          /\ s.epoch = image.epoch
      BY DEF CheckAuthority
    <2>2. s.publisher \in Publishers /\ s.boot \in Boots
      BY DEF Session
    <2>3. Newest(SessionOf(image, s.publisher, s.boot))
      BY <2>1, <2>2 DEF AuthorityInv, LiveGrantIsNewest
    <2>4. s = [publisher |-> s.publisher, boot |-> s.boot, epoch |-> s.epoch, token |-> s.token]
      BY DEF Session
    <2>5. SessionOf(image, s.publisher, s.boot) = s
      BY <2>1, <2>4 DEF SessionOf
    <2>. QED BY <2>3, <2>5
  <1>. QED BY <1>1, Invariance, PTL

\* Evaluation only ever uses evidence of the newest incarnation of its publisher.
THEOREM StaleEvidenceUnused == Spec => []UsableEvidenceIsNewest
  <1>1. AuthorityInv => UsableEvidenceIsNewest
    <2> SUFFICES ASSUME AuthorityInv, NEW e \in image.evidence, Usable(image, e)
                 PROVE  \E s \in issued : /\ Newest(s)
                                          /\ <<s.publisher, s.boot, s.epoch>> =
                                                <<e.publisher, e.boot, e.epoch>>
      BY DEF UsableEvidenceIsNewest
    <2>1. e.publisher \in Publishers /\ e.boot \in Boots
      BY DEF AuthorityInv, TypeOK, StateImage, Evidence
    <2>2. /\ image.authority[e.publisher][e.boot].state = "Granted"
          /\ e.epoch = image.epoch
      BY DEF Usable
    <2>3. image.authority[e.publisher][e.boot].epoch = e.epoch
      BY <2>1, <2>2 DEF AuthorityInv, OneLiveIncarnation, LiveGrantsSound
    <2> DEFINE s == SessionOf(image, e.publisher, e.boot)
    <2>4. Newest(s)
      BY <2>1, <2>2 DEF AuthorityInv, LiveGrantIsNewest
    <2>5. s.publisher = e.publisher /\ s.boot = e.boot /\ s.epoch = e.epoch
      BY <2>3 DEF SessionOf
    <2>. HIDE DEF s
    <2>6. s \in issued
      BY <2>4 DEF Newest
    <2>. QED BY <2>4, <2>5, <2>6
  <1>. QED BY <1>1, Invariance, PTL

\* A grant that validates against the live image validates when it is replayed.
THEOREM GrantsReplay == Spec => []ReplayAcceptsGrants
  <1>1. AuthorityInv => ReplayAcceptsGrants
    <2> SUFFICES ASSUME AuthorityInv, Healthy, NEW p \in Publishers, NEW b \in Boots,
                        GrantAuthorityStatus(image, p, b) = "Ok"
                 PROVE  GrantAuthorityStatus(durable, p, b) = "Ok"
      BY DEF ReplayAcceptsGrants
    <2>1. KnownBoots(image, p) = KnownBoots(durable, p)
      BY DEF AuthorityInv, ReplayAgrees, SameHistory, KnownBoots
    <2>2. /\ image.authority[p][b].state = "Fenced" <=> durable.authority[p][b].state = "Fenced"
          /\ image.authority[p][b].state = "Granted" => durable.authority[p][b].state = "Granted"
          /\ image.next_fencing_token = durable.next_fencing_token
      BY DEF AuthorityInv, ReplayAgrees, SameHistory
    <2>. QED BY <2>1, <2>2 DEF GrantAuthorityStatus
  <1>. QED BY <1>1, Invariance, PTL

\* No step of the system takes the fenced state of an incarnation away.
THEOREM FencingIsFinal == Spec => FencedIsFinal
  <1> DEFINE Final == \A p \in Publishers, b \in Boots :
                         durable.authority[p][b].state = "Fenced" =>
                             durable'.authority[p][b].state = "Fenced"
  <1>1. AuthorityInv /\ [Next]_vars => [Final]_vars
    <2> SUFFICES ASSUME AuthorityInv, Next, NEW p \in Publishers, NEW b \in Boots,
                        durable.authority[p][b].state = "Fenced"
                 PROVE  durable'.authority[p][b].state = "Fenced"
      OBVIOUS
    <2> DEFINE fenced(i) == i.authority[p][b].state = "Fenced"
    <2>t. durable \in StateImage
      BY DEF AuthorityInv, TypeOK
    <2>a. \A i \in StateImage : fenced(i) => fenced(ApplyAdvanceEpoch(i))
      <3> SUFFICES ASSUME NEW i \in StateImage, fenced(i) PROVE fenced(ApplyAdvanceEpoch(i))
        OBVIOUS
      <3>1. i.authority[p][b] \in AuthorityEntry /\ i.epoch + 1 \in Nat
        BY BoundsAssumption DEF StateImage
      <3>2. ApplyAdvanceEpoch(i).authority[p][b] = Expire(i.authority[p][b], i.epoch + 1)
        BY AdvanceFields
      <3>. QED BY <3>1, <3>2, ExpireFacts
    <2>1. ASSUME NEW q \in Publishers, NEW c \in Boots, GrantAuthority(q, c)
          PROVE  fenced(durable')
      <3> DEFINE moved == MovesEpoch(image, q, c)
                 i == BeforeGrant(image, moved)
                 d == BeforeGrant(durable, moved)
      <3>0. /\ Healthy
            /\ GrantRefusal(image, q, c) = "Ok"
            /\ durable' = IF GrantAuthorityStatus(i, q, c) = "Ok"
                          THEN ApplyGrantAuthority(d, q, c) ELSE d
        BY <2>1, AcceptedHealthy, Zenon DEF GrantAuthority, Healthy
      <3>1. fenced(d)
        BY <2>t, <2>a DEF BeforeGrant
      <3>2. d \in StateImage /\ SameHistory(i, d)
        BY <3>0, BeforeGrantFacts
      <3>. HIDE DEF moved, i, d
      <3>3. CASE GrantAuthorityStatus(i, q, c) = "Ok"
        <4>1. i.authority[q][c].state # "Fenced"
          BY <3>3 DEF GrantAuthorityStatus
        <4>2. d.authority[q][c].state # "Fenced"
          BY <3>2, <4>1 DEF SameHistory
        <4>3. p # q \/ b # c
          BY <3>1, <4>2
        <4>4. fenced(ApplyGrantAuthority(d, q, c))
          BY <3>1, <3>2, <4>3, GrantKeepsFenced
        <4>. QED BY <3>0, <3>3, <4>4
      <3>4. CASE GrantAuthorityStatus(i, q, c) # "Ok"
        BY <3>0, <3>1, <3>4
      <3>. QED BY <3>3, <3>4
    <2>2. ASSUME NEW q \in Publishers, NEW c \in Boots, CrashInGrant(q, c)
          PROVE  fenced(durable')
      BY <2>2, <2>t, <2>a DEF CrashInGrant
    <2>3. ASSUME NEW s \in Session, NEW long \in BOOLEAN, AdvanceEpoch(s, long)
          PROVE  fenced(durable')
      BY <2>3, <2>t, <2>a DEF AdvanceEpoch
    <2>4. ASSUME NEW s \in Session, NEW q \in Publishers, NEW c \in Boots,
                 NEW long \in BOOLEAN, Fence(s, q, c, long)
          PROVE  fenced(durable')
      <3> DEFINE j == ApplyFenceAuthority(durable, q, c)
      <3> HIDE DEF j
      <3>1. durable' = j \/ durable' = durable
        BY <2>4 DEF Fence, j
      <3>2. CASE p = q /\ b = c
        <4>1. j.authority[q][c].state = "Fenced"
          BY <2>t, FenceFields DEF j
        <4>. QED BY <3>1, <3>2, <4>1
      <3>3. CASE p # q \/ b # c
        <4>1. j.authority[p][b] = durable.authority[p][b]
          BY <3>3, <2>t, FenceElsewhere DEF j
        <4>. QED BY <3>1, <4>1
      <3>. QED BY <3>2, <3>3
    <2>5. ASSUME NEW s \in Session, NEW a \in Assignments, Assign(s, a) \/ RetireAssignment(s, a)
          PROVE  fenced(durable')
      <3>1. durable' \in {durable, ApplyAssign(durable, s, a), ApplyRetireAssignment(durable, a)}
        BY <2>5 DEF Assign, RetireAssignment
      <3>2. durable'.authority = durable.authority
        BY <3>1, <2>t, EvidenceFields
      <3>. QED BY <3>2
    <2>6. ASSUME Checkpoint
          PROVE  fenced(durable')
      BY <2>6 DEF Checkpoint, AuthorityInv, ReplayAgrees, SameHistory, Healthy
    <2>7. ASSUME NEW allow \in BOOLEAN, OpenAdvancing(allow)
          PROVE  fenced(durable')
      BY <2>7, <2>t, <2>a DEF OpenAdvancing
    <2>8. ASSUME \/ \E q \in Publishers, c \in Boots : ReturnGrant(q, c) \/ RefuseGrant(q, c)
                 \/ Stop \/ RefuseCheckpoint
                 \/ \E allow \in BOOLEAN : Open(allow)
                 \/ \E advance \in BOOLEAN : OpenFails(advance)
          PROVE  fenced(durable')
      <3>1. durable' = durable
        BY <2>8 DEF ReturnGrant, RefuseGrant, Stop, RefuseCheckpoint, Open, OpenFails, journal
      <3>. QED BY <3>1
    <2>9. fenced(durable')
      <3> HIDE DEF fenced
      <3>1. CASE \E q \in Publishers, c \in Boots : GrantAuthority(q, c) \/ CrashInGrant(q, c)
        BY <3>1, <2>1, <2>2, Zenon
      <3>2. CASE \E s \in Session :
                    \/ \E long \in BOOLEAN : AdvanceEpoch(s, long)
                    \/ \E q \in Publishers, c \in Boots, long \in BOOLEAN : Fence(s, q, c, long)
                    \/ \E a \in Assignments : Assign(s, a) \/ RetireAssignment(s, a)
        BY <3>2, <2>3, <2>4, <2>5, Zenon
      <3>3. CASE Checkpoint
        BY <3>3, <2>6
      <3>4. CASE \E allow \in BOOLEAN : OpenAdvancing(allow)
        BY <3>4, <2>7
      <3>. QED BY <3>1, <3>2, <3>3, <3>4, <2>8, Zenon DEF Next
    <2>. QED BY <2>9
  <1>. QED BY <1>1, Invariance, PTL DEF Spec, FencedIsFinal

\* Whatever was live before, open() leaves no session accepted and no evidence usable.
THEOREM RestartHoldsNoAuthority == Spec => OpenRestoresNoAuthority
  <1> DEFINE None == ~running /\ running' =>
                        /\ \A s \in Session : CheckAuthority(image', s) # "Ok"
                        /\ \A e \in image'.evidence : ~Usable(image', e)
  <1>1. AuthorityInv /\ AuthorityInv' /\ [Next]_vars => [None]_vars
    <2> SUFFICES ASSUME AuthorityInv, AuthorityInv', Next, ~running, running'
                 PROVE  /\ \A s \in Session : CheckAuthority(image', s) # "Ok"
                        /\ \A e \in image'.evidence : ~Usable(image', e)
      OBVIOUS
    <2>t. durable \in StateImage /\ image' \in StateImage
      BY DEF AuthorityInv, TypeOK
    <2>1. NoLiveGrant(image')
      <3>1. PICK allow \in BOOLEAN : Open(allow) \/ OpenAdvancing(allow)
        BY ZenonT(60) DEF Next, ReturnGrant, RefuseGrant, GrantAuthority, CrashInGrant, AdvanceEpoch, Fence,
               Assign, RetireAssignment, Checkpoint, RefuseCheckpoint, Stop, OpenFails
      <3>2. CASE Open(allow)
        <4>1. Replayed \in StateImage
          BY DEF Replayed, AuthorityInv, TypeOK
        <4>. QED BY <3>2, <4>1, NormalizeHistory DEF Open
      <3>3. CASE OpenAdvancing(allow)
        <4>1. Normalize(durable) \in StateImage /\ NoLiveGrant(Normalize(durable))
          BY <2>t, NormalizeFields, NormalizeHistory
        <4>. QED BY <3>3, <4>1, NoneIsSound, AdvanceLeavesNone DEF OpenAdvancing
      <3>. QED BY <3>1, <3>2, <3>3
    <2>2. ASSUME NEW s \in Session
          PROVE  CheckAuthority(image', s) # "Ok"
      <3>1. s.publisher \in Publishers /\ s.boot \in Boots
        BY DEF Session
      <3>. QED BY <2>1, <3>1 DEF NoLiveGrant, CheckAuthority
    <2>3. ASSUME NEW e \in image'.evidence
          PROVE  ~Usable(image', e)
      <3>1. e.publisher \in Publishers /\ e.boot \in Boots
        BY <2>t DEF StateImage, Evidence
      <3>. QED BY <2>1, <3>1 DEF NoLiveGrant, Usable
    <2>. QED BY <2>2, <2>3
  <1>. QED BY <1>1, Invariance, PTL DEF Spec, OpenRestoresNoAuthority

\* A runtime that open() left degraded accepts no session and counts no evidence, although
\* the epoch and the token counter it serves may be behind those it once handed out.
THEOREM DegradedHoldsNoAuthority == Spec => []DegradedIsPowerless
  <1>1. AuthorityInv => DegradedIsPowerless
    <2> SUFFICES ASSUME AuthorityInv, running, degraded
                 PROVE  /\ \A s \in Session : CheckAuthority(image, s) # "Ok"
                        /\ \A e \in image.evidence : ~Usable(image, e)
      BY DEF DegradedIsPowerless
    <2>1. NoLiveGrant(image) /\ image \in StateImage
      BY DEF AuthorityInv, TypeOK, Healthy
    <2>2. ASSUME NEW s \in Session
          PROVE  CheckAuthority(image, s) # "Ok"
      <3>1. s.publisher \in Publishers /\ s.boot \in Boots
        BY DEF Session
      <3>. QED BY <2>1, <3>1 DEF NoLiveGrant, CheckAuthority
    <2>3. ASSUME NEW e \in image.evidence
          PROVE  ~Usable(image, e)
      <3>1. e.publisher \in Publishers /\ e.boot \in Boots
        BY <2>1 DEF StateImage, Evidence
      <3>. QED BY <2>1, <3>1 DEF NoLiveGrant, Usable
    <2>. QED BY <2>2, <2>3
  <1>. QED BY <1>1, Invariance, PTL

\* A refused operation hands out no session, consumes no token, makes no incarnation live and
\* moves the epoch by one at most: by grant_authority's own transition, which is committed
\* before the grant is refused.
THEOREM RefusalIsHarmless == Spec => RefusalGivesNothing
  <1> DEFINE Nothing == running /\ running' /\ reply' # "Ok" =>
                  /\ issued' = issued
                  /\ image'.next_fencing_token = image.next_fencing_token
                  /\ image'.epoch \in {image.epoch, image.epoch + 1}
                  /\ \A p \in Publishers, b \in Boots :
                        image'.authority[p][b].state = "Granted" =>
                            image.authority[p][b].state = "Granted"
  <1>1. AuthorityInv /\ [Next]_vars => [Nothing]_vars
    <2> SUFFICES ASSUME AuthorityInv, Next, running, running', reply' # "Ok"
                 PROVE  Nothing
      OBVIOUS
    <2>1. issued' = issued /\ (image' = image \/ image' = ApplyAdvanceEpoch(image))
      <3>1. ASSUME NEW p \in Publishers, NEW b \in Boots, GrantAuthority(p, b)
            PROVE  issued' = issued /\ (image' = image \/ image' = ApplyAdvanceEpoch(image))
        BY <3>1 DEF GrantAuthority, BeforeGrant
      <3>2. ASSUME NEW p \in Publishers, NEW b \in Boots,
                   ReturnGrant(p, b) \/ RefuseGrant(p, b) \/ CrashInGrant(p, b)
            PROVE  issued' = issued /\ image' = image
        BY <3>2 DEF ReturnGrant, RefuseGrant, CrashInGrant
      <3>3. ASSUME NEW s \in Session, NEW long \in BOOLEAN, AdvanceEpoch(s, long)
            PROVE  issued' = issued /\ image' = image
        BY <3>3 DEF AdvanceEpoch
      <3>4. ASSUME NEW s \in Session, NEW p \in Publishers, NEW b \in Boots,
                   NEW long \in BOOLEAN, Fence(s, p, b, long)
            PROVE  issued' = issued /\ image' = image
        BY <3>4 DEF Fence
      <3>5. ASSUME NEW s \in Session, NEW a \in Assignments,
                   Assign(s, a) \/ RetireAssignment(s, a)
            PROVE  issued' = issued /\ image' = image
        BY <3>5 DEF Assign, RetireAssignment
      <3>6. ASSUME Checkpoint \/ RefuseCheckpoint
            PROVE  issued' = issued /\ image' = image
        BY <3>6 DEF Checkpoint, RefuseCheckpoint
      <3>7. /\ ~Stop
            /\ \A x \in BOOLEAN : ~Open(x) /\ ~OpenAdvancing(x) /\ ~OpenFails(x)
        BY DEF Stop, Open, OpenAdvancing, OpenFails
      <3>. QED BY <3>1, <3>2, <3>3, <3>4, <3>5, <3>6, <3>7 DEF Next
    <2>2. CASE image' = image
      BY <2>1, <2>2
    <2>3. CASE image' = ApplyAdvanceEpoch(image)
      <3>1. /\ image'.epoch = image.epoch + 1
            /\ image'.next_fencing_token = image.next_fencing_token
            /\ \A p \in Publishers : \A b \in Boots :
                  image'.authority[p][b] = Expire(image.authority[p][b], image.epoch + 1)
        BY <2>3, AdvanceFields DEF AuthorityInv, TypeOK
      <3>2. ASSUME NEW p \in Publishers, NEW b \in Boots,
                   image'.authority[p][b].state = "Granted"
            PROVE  image.authority[p][b].state = "Granted"
        <4>1. image.authority[p][b] \in AuthorityEntry
          BY DEF AuthorityInv, TypeOK, StateImage
        <4>. QED BY <3>1, <3>2, <4>1, Zenon DEF Expire, AuthorityEntry
      <3>3. \A p \in Publishers, b \in Boots :
               image'.authority[p][b].state = "Granted" => image.authority[p][b].state = "Granted"
        BY <3>2
      <3>4. image'.epoch \in {image.epoch, image.epoch + 1}
        BY <3>1
      <3>5. issued' = issued /\ image'.next_fencing_token = image.next_fencing_token
        BY <2>1, <3>1
      <3>. QED BY <3>3, <3>4, <3>5, Zenon
    <2>. QED BY <2>1, <2>2, <2>3
  <1>. QED BY <1>1, Invariance, PTL DEF Spec, RefusalGivesNothing

\* Evidence that evaluation refuses comes back only through a new grant to its own incarnation
\* under the epoch it was published in: no fence, epoch advance, assignment, retirement or
\* checkpoint makes an incarnation live, and a takeover moves the epoch past older evidence.
THEOREM RefusedEvidenceStays == Spec => EvidenceNeverRevives
  <1> DEFINE Revived(e) == LET f == image'.authority[e.publisher][e.boot] IN
                               f.token = image.next_fencing_token /\ f.epoch = e.epoch
             Kept == running /\ running' =>
                        \A e \in image.evidence \cap image'.evidence :
                            ~Usable(image, e) /\ Usable(image', e) => Revived(e)
  <1>1. AuthorityInv /\ [Next]_vars => [Kept]_vars
    <2> SUFFICES ASSUME AuthorityInv, Next, running, running',
                        NEW e, e \in image.evidence, ~Usable(image, e), Usable(image', e)
                 PROVE  Revived(e)
      BY Zenon
    <2> DEFINE p == e.publisher
               b == e.boot
    <2>t. image \in StateImage /\ LiveGrantsSound(image)
      BY DEF AuthorityInv, TypeOK, OneLiveIncarnation
    <2>e. p \in Publishers /\ b \in Boots
      BY <2>t DEF StateImage, Evidence
    <2>u. /\ image'.authority[p][b].state = "Granted"
          /\ image'.epoch = e.epoch
          /\ image.epoch = image'.epoch => image.authority[p][b].state # "Granted"
      BY DEF Usable
    <2> HIDE DEF p, b, Revived
    <2>n. ~NoLiveGrant(image')
      BY <2>e, <2>u DEF NoLiveGrant
    <2>1. ASSUME NEW q \in Publishers, NEW c \in Boots, GrantAuthority(q, c)
          PROVE  Revived(e)
      <3> DEFINE moved == MovesEpoch(image, q, c)
                 i == BeforeGrant(image, moved)
                 d == BeforeGrant(durable, moved)
      <3>0. /\ Healthy
            /\ GrantRefusal(image, q, c) = "Ok"
            /\ image' = IF GrantAuthorityStatus(i, q, c) = "Ok"
                        THEN ApplyGrantAuthority(i, q, c) ELSE i
        BY <2>1, AcceptedHealthy, Zenon DEF GrantAuthority, Healthy
      <3>1. /\ i \in StateImage
            /\ i.next_fencing_token = image.next_fencing_token
            /\ NoLiveGrant(i) \/ i = image
        BY <3>0, BeforeGrantFacts, ZenonT(60)
      <3> HIDE DEF moved, i, d
      <3>2. image' # i
        BY <2>n, <2>u, <3>1
      <3>3. image' = ApplyGrantAuthority(i, q, c)
        BY <3>0, <3>2
      <3>4. image'.epoch = i.epoch
        BY <3>1, <3>3, GrantFields, Zenon
      <3>5. CASE p = q /\ b = c
        <4>1. /\ image'.authority[p][b].epoch = i.epoch
              /\ image'.authority[p][b].token = i.next_fencing_token
          BY <3>1, <3>3, <3>5, GrantHere
        <4>. QED BY <2>u, <3>1, <3>4, <4>1, Zenon DEF Revived, p, b
      <3>6. CASE p = q /\ b # c
        BY <2>e, <2>u, <3>1, <3>3, <3>6, GrantBeside, ZenonT(60)
      <3>7. CASE p # q
        <4>1. i.authority[p][b].state = "Granted"
          BY <2>e, <2>u, <3>1, <3>3, <3>7, GrantElsewhere
        <4>2. i = image
          BY <2>e, <3>1, <4>1 DEF NoLiveGrant
        <4>. QED BY <2>u, <3>4, <4>1, <4>2, Zenon
      <3>. QED BY <3>5, <3>6, <3>7
    <2>2. ASSUME NEW s \in Session, NEW long \in BOOLEAN, AdvanceEpoch(s, long)
          PROVE  FALSE
      <3>1. image' = image \/ image' = ApplyAdvanceEpoch(image)
        BY <2>2 DEF AdvanceEpoch
      <3>. QED BY <2>t, <2>u, <2>n, <3>1, AdvanceLeavesNone
    <2>3. ASSUME NEW s \in Session, NEW q \in Publishers, NEW c \in Boots,
                 NEW long \in BOOLEAN, Fence(s, q, c, long)
          PROVE  FALSE
      <3> DEFINE j == ApplyFenceAuthority(image, q, c)
      <3>1. image' = image \/ image' = j
        BY <2>3 DEF Fence
      <3>2. j.epoch = image.epoch /\ j.authority[q][c].state = "Fenced"
        BY <2>t, FenceFields, ZenonT(60)
      <3>3. p # q \/ b # c => j.authority[p][b] = image.authority[p][b]
        BY <2>t, <2>e, FenceElsewhere, ZenonT(60)
      <3> HIDE DEF j
      <3>. QED BY <2>u, <3>1, <3>2, <3>3
    <2>4. ASSUME NEW s \in Session, NEW a \in Assignments, Assign(s, a) \/ RetireAssignment(s, a)
          PROVE  FALSE
      <3>1. image' \in {image, ApplyAssign(image, s, a), ApplyRetireAssignment(image, a)}
        BY <2>4 DEF Assign, RetireAssignment
      <3>2. image'.authority = image.authority /\ image'.epoch = image.epoch
        <4>1. CASE image' = image
          BY <4>1, Zenon
        <4>2. CASE image' \in {ApplyAssign(image, s, a), ApplyRetireAssignment(image, a)}
          BY <4>2, <2>t, EvidenceFields, Zenon
        <4>. QED BY <3>1, <4>1, <4>2, Zenon
      <3>. QED BY <2>u, <3>2
    <2>5. ASSUME \/ \E q \in Publishers, c \in Boots : ReturnGrant(q, c) \/ RefuseGrant(q, c)
                 \/ Checkpoint \/ RefuseCheckpoint
          PROVE  FALSE
      <3>1. image' = image
        BY <2>5, Zenon DEF ReturnGrant, RefuseGrant, Checkpoint, RefuseCheckpoint
      <3>. QED BY <2>u, <3>1
    <2>6. /\ ~Stop
          /\ \A q \in Publishers, c \in Boots : ~CrashInGrant(q, c)
          /\ \A x \in BOOLEAN : ~Open(x) /\ ~OpenAdvancing(x) /\ ~OpenFails(x)
      BY Zenon DEF Stop, CrashInGrant, Open, OpenAdvancing, OpenFails
    <2>. QED BY <2>1, <2>2, <2>3, <2>4, <2>5, <2>6, Zenon DEF Next
  <1>. QED BY <1>1, Invariance, PTL DEF Spec, EvidenceNeverRevives
=============================================================================
