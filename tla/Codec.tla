-------------------------------- MODULE Codec --------------------------------
(***************************************************************************)
(* The canonical binary encoding that the journal, the snapshots and the   *)
(* wire protocol share (src/src/codec.cpp, model_codec.cpp, wire.cpp and   *)
(* the encoders of state.cpp).  Every type has an encoder, which writes    *)
(* its fields one after the other, and a decoder written separately, which *)
(* reads them one after the other and stops at the first that is refused.  *)
(* An encoder is the concatenation of its fields; a decoder is the         *)
(* sequence of the reads it makes.  Integers are little-endian over bytes  *)
(* of eight values; a u16, u32 or u64 is two of them, a boot id or a       *)
(* digest one.  An optional value is a sequence of length at most one.     *)
(***************************************************************************)
EXTENDS Text, Integers, SequencesExt

CONSTANTS Kinds,                   \* what is encoded
          Values(_),               \* the values of a kind that the code encodes
          Noise,                   \* bytes that damage may write
          max_description_length, max_note_length, max_inherits_from, max_policy_classes,
          max_explanation_steps, max_rows, max_publishers, max_audit_entries,
          kTextBound,              \* the fixed text bounds: 64, 128, 512, 1024 in the code
          kMaxRank                 \* PrecedenceRank::kMaxRank

ASSUME LimitsWithinCeiling ==
    /\ max_id_length > 0 /\ max_explanation_steps > 0
    /\ {max_id_length, max_description_length, max_note_length, kTextBound} \subseteq 0..63
    /\ kMaxRank \in 0..62

VARIABLES stage,    \* "idle", "sent" or "received"
          kind, value, \* what was encoded
          bytes,    \* its encoding, as it arrives
          noise,    \* what happened to it on the way
          read      \* what the decoder made of it

vars == <<stage, kind, value, bytes, noise, read>>

Base == 8
W64 == 2
MaxU64 == Base ^ W64 - 1

\* limits.max_record_payload, max_frame_payload: no more than a length can say.
max_record_payload == MaxU64
max_frame_payload == MaxU64

\* Last values of the enumerations.
Emergency == 3          \* ClassKind
AssignmentIdOrder == 2  \* ConflictResolution
Default == 4            \* AssignmentKind
Expired == 3            \* AuthorityState
Degraded == 1           \* Health
Rejected == 7           \* Outcome
BoundaryViolation == 26 \* StatusCode

-----------------------------------------------------------------------------
(* Encoder *)

append_le(v, width) == [k \in 1..width |-> (v \div Base ^ (k - 1)) % Base]

u8(v) == append_le(v, 1)
u16(v) == append_le(v, 2)
u32(v) == append_le(v, 2)
u64(v) == append_le(v, W64)

\* Length prefix, then the bytes; also encode_blob.
str(text) == u32(Len(text)) \o text

\* A presence byte, then the field.
opt_str(o) == IF o = <<>> THEN u8(0) ELSE u8(1) \o str(o[1])
opt_u8(o) == IF o = <<>> THEN u8(0) ELSE u8(1) \o u8(o[1])

\* A count, then the rows, already encoded.
counted(rows) == u32(Len(rows)) \o FlattenSeq(rows)

encode_id_list(ids) == counted([k \in DOMAIN ids |-> str(ids[k])])

\* A presence byte and a number that is written either way: encode_precedence, and the
\* epoch of a query.
flagged(o) == IF o = <<>> THEN u8(0) \o u64(0) ELSE u8(1) \o u64(o[1])

-----------------------------------------------------------------------------
(* Decoder: a read yields a value and the bytes after it, or is refused. *)

Got(v, rest) == [ok |-> TRUE, v |-> v, rest |-> rest]
Refused == [ok |-> FALSE, v |-> <<>>, rest |-> <<>>]

\* Mutant: a short buffer is read as far as it goes.
take_short(rest, n) ==
    LET m == Min({n, Len(rest)}) IN Got(SubSeq(rest, 1, m), SubSeq(rest, m + 1, Len(rest)))

take(rest, n) ==
    IF n > Len(rest) THEN Refused
    ELSE Got(SubSeq(rest, 1, n), SubSeq(rest, n + 1, Len(rest)))

read_le(cells) == FoldRight(LAMBDA cell, v : cell + Base * v, cells, 0)

AsNumber(r) == IF r.ok THEN Got(read_le(r.v), r.rest) ELSE Refused
Exactly(r, v) == IF r.ok /\ r.v # v THEN Refused ELSE r
AtMost(r, bound) == IF r.ok /\ r.v > bound THEN Refused ELSE r
read_number(rest, width, bound) == AtMost(AsNumber(take(rest, width)), bound)

Sized(r) == IF r.ok THEN take(r.rest, r.v) ELSE Refused
read_str(rest, bound) == Sized(read_number(rest, 2, bound))

AsId(r) == IF r.ok /\ from_canonical(r.v) # NoId
           THEN Got(from_canonical(r.v), r.rest) ELSE Refused
read_id(rest) == AsId(read_str(rest, max_id_length))

\* finish(): nothing may be left.
finish(r) == IF r.ok /\ r.rest # <<>> THEN Refused ELSE r

\* The reads a decoder is made of.
U8(name, top) == [name |-> name, read |-> "number", width |-> 1, bound |-> top]
U16(name, top) == [name |-> name, read |-> "number", width |-> 2, bound |-> top]
U32(name, top) == [name |-> name, read |-> "number", width |-> 2, bound |-> top]
U64(name) == [name |-> name, read |-> "number", width |-> W64, bound |-> MaxU64]
Bool(name) == U8(name, 1)
Constant(v) == [name |-> "", read |-> "constant", v |-> v]
Raw(name) == [name |-> name, read |-> "raw", width |-> 1]
Rest(name) == [name |-> name, read |-> "rest"]
Str(name, bound) == [name |-> name, read |-> "str", bound |-> bound]
Id(name) == [name |-> name, read |-> "id"]
Optional(f) == [name |-> f.name, read |-> "optional", of |-> f]
Struct(name, layout) == [name |-> name, read |-> "struct", of |-> layout]
Rows(name, f, bound) == [name |-> name, read |-> "rows", of |-> f, bound |-> bound]
Blob(name, layout, bound, whole) ==
    [name |-> name, read |-> "blob", of |-> layout, bound |-> bound, whole |-> whole]
Precedence(name) == [name |-> name, read |-> "precedence"]
Epoch(name) == [name |-> name, read |-> "epoch"]

RECURSIVE Read(_, _)

\* The fields of a layout, in order.
Decode(layout, rest) ==
    FoldLeft(LAMBDA acc, f :
                 IF ~acc.ok THEN Refused
                 ELSE LET r == Read(f, acc.rest)
                      IN  IF ~r.ok THEN Refused
                          ELSE IF f.read = "constant" THEN Got(acc.v, r.rest)
                          ELSE Got((f.name :> r.v) @@ acc.v, r.rest),
             Got(<<>>, rest), layout)

Present(r, f) ==
    IF ~r.ok THEN Refused
    ELSE IF r.v = 0 THEN Got(<<>>, r.rest)
    ELSE LET s == Read(f, r.rest) IN IF s.ok THEN Got(<<s.v>>, s.rest) ELSE Refused

Repeated(r, f) ==
    IF ~r.ok THEN Refused
    ELSE FoldLeft(LAMBDA acc, k :
                      IF ~acc.ok THEN Refused
                      ELSE LET s == Read(f, acc.rest)
                           IN  IF s.ok THEN Got(Append(acc.v, s.v), s.rest) ELSE Refused,
                  Got(<<>>, r.rest), [k \in 1..r.v |-> k])

Inside(r, f) ==
    IF ~r.ok THEN Refused
    ELSE LET s == Decode(f.of, r.v)
         IN  IF s.ok /\ (f.whole => s.rest = <<>>) THEN Got(s.v, r.rest) ELSE Refused

\* A flag and a number that is read either way, and ignored when the flag is not set.
Flagged(r) ==
    IF ~r.ok THEN Refused
    ELSE LET s == read_number(r.rest, 2, MaxU64)
         IN  IF s.ok THEN Got(IF r.v = 0 THEN <<>> ELSE <<s.v>>, s.rest) ELSE Refused

\* decode_precedence
Ranked(r) == IF r.ok /\ r.v # <<>> /\ r.v[1] > kMaxRank THEN Refused ELSE r

Read(f, rest) ==
    CASE f.read = "number"     -> read_number(rest, f.width, f.bound)
      [] f.read = "constant"   -> Exactly(AsNumber(take(rest, 2)), f.v)
      [] f.read = "raw"        -> take(rest, f.width)
      [] f.read = "rest"       -> take(rest, Len(rest))
      [] f.read = "str"        -> read_str(rest, f.bound)
      [] f.read = "id"         -> read_id(rest)
      [] f.read = "optional"   -> Present(read_number(rest, 1, 1), f.of)
      [] f.read = "struct"     -> Decode(f.of, rest)
      [] f.read = "rows"       -> Repeated(read_number(rest, 2, f.bound), f.of)
      [] f.read = "blob"       -> Inside(read_str(rest, f.bound), f)
      [] f.read = "epoch"      -> Flagged(read_number(rest, 1, 1))
      [] f.read = "precedence" -> Ranked(Flagged(read_number(rest, 1, 1)))

-----------------------------------------------------------------------------
(* Model types: the encoder of each, and what its decoder reads. *)

encode_provenance(p) ==
    opt_str(p.publisher) \o p.boot \o u64(p.epoch) \o u64(p.token) \o u64(p.state_generation)
        \o u64(p.audit_sequence) \o u64(p.recorded_at_ms) \o str(p.op)
decode_provenance ==
    <<Optional(Id("publisher")), Raw("boot"), U64("epoch"), U64("token"),
      U64("state_generation"), U64("audit_sequence"), U64("recorded_at_ms"), Str("op", kTextBound)>>

encode_class_definition(d) ==
    str(d.id) \o u64(d.generation) \o flagged(d.precedence) \o u8(d.kind)
        \o encode_id_list(d.inherits_from) \o str(d.description) \o u8(d.privileged)
decode_class_definition ==
    <<Id("id"), U64("generation"), Precedence("precedence"), U8("kind", Emergency),
      Rows("inherits_from", Id(""), max_inherits_from),
      Str("description", max_description_length), Bool("privileged")>>

encode_scope_definition(d) ==
    str(d.id) \o u64(d.generation) \o opt_str(d.parent) \o u8(d.conflict_resolution)
        \o opt_str(d.unknown_default) \o u8(d.allow_override) \o str(d.description)
decode_scope_definition ==
    <<Id("id"), U64("generation"), Optional(Id("parent")),
      U8("conflict_resolution", AssignmentIdOrder), Optional(Id("unknown_default")),
      Bool("allow_override"), Str("description", max_description_length)>>

encode_policy_definition(d) ==
    str(d.id) \o u64(d.generation) \o str(d.scope) \o u64(d.scope_generation)
        \o encode_id_list(d.visible_classes) \o opt_u8(d.conflict_resolution)
        \o opt_str(d.unknown_default) \o u8(d.require_policy_for_assignment) \o str(d.description)
decode_policy_definition ==
    <<Id("id"), U64("generation"), Id("scope"), U64("scope_generation"),
      Rows("visible_classes", Id(""), max_policy_classes),
      Optional(U8("conflict_resolution", AssignmentIdOrder)), Optional(Id("unknown_default")),
      Bool("require_policy_for_assignment"), Str("description", max_description_length)>>

encode_subject_definition(d) ==
    str(d.id) \o u64(d.generation) \o encode_id_list(d.inherits_from) \o str(d.description)
decode_subject_definition ==
    <<Id("id"), U64("generation"), Rows("inherits_from", Id(""), max_inherits_from),
      Str("description", max_description_length)>>

encode_assignment(a) ==
    str(a.id) \o u64(a.generation) \o str(a.subject) \o u64(a.subject_generation)
        \o str(a.scope) \o u64(a.scope_generation) \o str(a.cls) \o u64(a.class_generation)
        \o u8(a.kind) \o opt_str(a.displaces) \o opt_str(a.policy) \o u64(a.policy_generation)
        \o str(a.note)

\* Mutant: two generations are read in the other's place.
decode_assignment_swapped ==
    <<Id("id"), U64("generation"), Id("subject"), U64("scope_generation"), Id("scope"),
      U64("subject_generation"), Id("cls"), U64("class_generation"), U8("kind", Default),
      Optional(Id("displaces")), Optional(Id("policy")), U64("policy_generation"),
      Str("note", max_note_length)>>

decode_assignment ==
    <<Id("id"), U64("generation"), Id("subject"), U64("subject_generation"), Id("scope"),
      U64("scope_generation"), Id("cls"), U64("class_generation"), U8("kind", Default),
      Optional(Id("displaces")), Optional(Id("policy")), U64("policy_generation"),
      Str("note", max_note_length)>>

\* The decoder of an audit entry does not ask for the end of the provenance inside it.
encode_audit_entry(e) ==
    u64(e.sequence) \o str(e.op) \o u16(e.result) \o str(e.detail)
        \o str(encode_provenance(e.provenance)) \o u64(e.state_generation) \o e.digest
decode_audit_entry ==
    <<U64("sequence"), Str("op", kTextBound), U16("result", BoundaryViolation),
      Str("detail", kTextBound), Blob("provenance", decode_provenance, MaxU64, FALSE),
      U64("state_generation"), Raw("digest")>>

encode_query(q) ==
    str(q.subject) \o u64(q.subject_generation) \o str(q.scope) \o flagged(q.as_of_epoch)
        \o u64(q.require_policy_generation) \o u64(q.require_scope_generation)
        \o u8(q.strict_conflicts) \o u32(q.max_explanation_steps) \o u64(q.correlation)
decode_query ==
    <<Id("subject"), U64("subject_generation"), Id("scope"), Epoch("as_of_epoch"),
      U64("require_policy_generation"), U64("require_scope_generation"),
      Bool("strict_conflicts"), U32("max_explanation_steps", MaxU64), U64("correlation")>>

encode_explanation_step(s) ==
    str(s.stage) \o str(s.code) \o str(s.detail) \o opt_str(s.assignment)
        \o u64(s.assignment_generation) \o opt_str(s.cls) \o u64(s.class_generation)
        \o opt_str(s.scope) \o opt_str(s.policy) \o str(encode_provenance(s.provenance))
decode_explanation_step ==
    <<Str("stage", kTextBound), Str("code", kTextBound), Str("detail", max_description_length),
      Optional(Id("assignment")), U64("assignment_generation"), Optional(Id("cls")),
      U64("class_generation"), Optional(Id("scope")), Optional(Id("policy")),
      Blob("provenance", decode_provenance, MaxU64, TRUE)>>

encode_evidence_note(n) ==
    str(n.assignment) \o u64(n.assignment_generation) \o str(n.cls) \o u64(n.class_generation)
        \o str(n.scope) \o opt_str(n.via_subject) \o str(n.reason_code) \o str(n.reason)
        \o str(encode_provenance(n.provenance))
decode_evidence_note ==
    <<Id("assignment"), U64("assignment_generation"), Id("cls"), U64("class_generation"),
      Id("scope"), Optional(Id("via_subject")), Str("reason_code", kTextBound),
      Str("reason", max_description_length), Blob("provenance", decode_provenance, MaxU64, TRUE)>>

NoProvenance == [publisher |-> <<>>, boot |-> <<0>>, epoch |-> 0, token |-> 0,
                 state_generation |-> 0, audit_sequence |-> 0, recorded_at_ms |-> 0, op |-> <<>>]
Truncated == [stage |-> <<Lower>>, code |-> <<Lower>>, detail |-> <<Lower>>, assignment |-> <<>>,
              assignment_generation |-> 0, cls |-> <<>>, class_generation |-> 0, scope |-> <<>>,
              policy |-> <<>>, provenance |-> NoProvenance]

\* ChainBuilder::push: the last step within the budget says that the chain was cut.
push(chain, step, limit) ==
    IF Len(chain.steps) + 1 < limit THEN [chain EXCEPT !.steps = Append(@, step)]
    ELSE IF chain.truncated THEN chain
    ELSE [steps |-> Append(chain.steps, Truncated), truncated |-> TRUE]

step_budget(asked) ==
    Max({2, Min({IF asked = 0 THEN max_explanation_steps ELSE asked, max_explanation_steps})})

\* The chain of an evaluation that explains itself in these steps.
ExplanationChain(steps, asked) ==
    FoldLeft(LAMBDA chain, step : push(chain, step, step_budget(asked)),
             [steps |-> <<>>, truncated |-> FALSE], steps).steps

encode_decision(d) ==
    u8(d.outcome) \o u8(d.authoritative) \o opt_str(d.cls) \o u64(d.class_generation)
        \o flagged(d.precedence)
        \o counted([k \in DOMAIN d.chain |-> encode_explanation_step(d.chain[k])])
        \o counted([k \in DOMAIN d.superseded |-> encode_evidence_note(d.superseded[k])])
        \o counted([k \in DOMAIN d.rejected |-> encode_evidence_note(d.rejected[k])])
        \o encode_id_list(d.conflicts)
        \o str(d.reason_code) \o str(d.reason) \o str(d.resolution) \o u64(d.epoch)
        \o u64(d.state_generation) \o u64(d.policy_generation) \o u64(d.scope_generation)
        \o d.digest \o u8(d.privileged_class)
decode_decision ==
    <<U8("outcome", Rejected), Bool("authoritative"), Optional(Id("cls")),
      U64("class_generation"), Precedence("precedence"),
      Rows("chain", Struct("", decode_explanation_step), max_explanation_steps),
      Rows("superseded", Struct("", decode_evidence_note), MaxU64),
      Rows("rejected", Struct("", decode_evidence_note), MaxU64),
      Rows("conflicts", Str("", max_description_length), MaxU64),
      Str("reason_code", kTextBound), Str("reason", max_description_length),
      Str("resolution", kTextBound), U64("epoch"), U64("state_generation"),
      U64("policy_generation"), U64("scope_generation"), Raw("digest"), Bool("privileged_class")>>

\* Also encode_epoch and decode_epoch.
encode_generation(g) == u64(g.generation)
decode_generation == <<U64("generation")>>

-----------------------------------------------------------------------------
(* Messages of the wire protocol.  Their texts are cut by the encoder. *)

encode_hello(h) ==
    str(h.publisher) \o h.boot \o str(bound_text(h.client_label, kTextBound)) \o u64(h.nonce)
decode_hello == <<Id("publisher"), Raw("boot"), Str("client_label", kTextBound), U64("nonce")>>

encode_hello_response(r) ==
    str(r.node_id) \o r.node_boot \o u64(r.epoch) \o u64(r.token) \o u64(r.state_generation)
        \o u64(r.node_pid)
decode_hello_response ==
    <<Id("node_id"), Raw("node_boot"), U64("epoch"), U64("token"), U64("state_generation"),
      U64("node_pid")>>

encode_session(s) == str(s.publisher) \o s.boot \o u64(s.epoch) \o u64(s.token)
decode_session == <<Id("publisher"), Raw("boot"), U64("epoch"), U64("token")>>

\* The session, length first, and whatever the operation carries.
encode_session_request(r) == str(encode_session(r.session)) \o r.inner
decode_session_request == <<Blob("session", decode_session, max_record_payload, TRUE), Rest("inner")>>

encode_retire_request(r) == str(r.id) \o str(bound_text(r.reason, kTextBound))
decode_retire_request == <<Id("id"), Str("reason", max_note_length)>>

encode_fence_request(r) ==
    str(r.publisher) \o r.boot \o str(bound_text(r.reason, kTextBound))
decode_fence_request == <<Id("publisher"), Raw("boot"), Str("reason", max_note_length)>>

encode_reason(r) == str(bound_text(r.reason, kTextBound))
decode_reason == <<Str("reason", max_note_length)>>

encode_integrity_reply(r) ==
    u8(r.ok) \o u8(r.health) \o u64(r.records_scanned) \o u64(r.records_applied)
        \o u64(r.records_rejected) \o u64(r.unfinished_attempts)
        \o u64(r.trailing_bytes_discarded) \o str(bound_text(r.detail, kTextBound))
        \o r.state_digest \o u64(r.state_generation) \o u64(r.epoch)
decode_integrity_reply ==
    <<Bool("ok"), U8("health", Degraded), U64("records_scanned"), U64("records_applied"),
      U64("records_rejected"), U64("unfinished_attempts"), U64("trailing_bytes_discarded"),
      Str("detail", kTextBound), Raw("state_digest"), U64("state_generation"), U64("epoch")>>

encode_error_reply(r) == u16(r.code) \o str(bound_text(r.message, kTextBound))
decode_error_reply == <<U16("code", BoundaryViolation), Str("message", kTextBound)>>

\* The counters of a statistics reply, as the encoder writes them and as the decoder fills them.
StatsWritten ==
    <<"evaluations", "evaluations_assigned", "evaluations_inherited", "evaluations_overridden",
      "evaluations_conflict", "evaluations_unknown", "evaluations_stale", "evaluations_fenced",
      "evaluations_rejected", "mutations_accepted", "mutations_rejected", "idempotent_noops",
      "durable_commits", "recoveries", "epoch_advances", "fences_issued", "authorities_granted",
      "classes", "scopes", "policies", "subjects", "assignments", "retired_assignments",
      "publishers", "fenced_boots", "audit_entries", "durable_bytes", "journal_records",
      "state_generation", "epoch">>
StatsFilled ==
    <<"evaluations", "evaluations_assigned", "evaluations_inherited", "evaluations_overridden",
      "evaluations_conflict", "evaluations_unknown", "evaluations_stale", "evaluations_fenced",
      "evaluations_rejected", "mutations_accepted", "mutations_rejected", "idempotent_noops",
      "durable_commits", "recoveries", "epoch_advances", "fences_issued", "authorities_granted",
      "classes", "scopes", "policies", "subjects", "assignments", "retired_assignments",
      "publishers", "fenced_boots", "audit_entries", "durable_bytes", "journal_records",
      "state_generation", "epoch">>

encode_stats_reply(r) ==
    str(r.node_id) \o r.node_boot
        \o FlattenSeq([k \in DOMAIN StatsWritten |-> u64(r[StatsWritten[k]])])
decode_stats_reply ==
    <<Id("node_id"), Raw("node_boot")>> \o [k \in DOMAIN StatsFilled |-> U64(StatsFilled[k])]

-----------------------------------------------------------------------------
(* Journal records and snapshots *)

\* MutationOp
DefineClass == 1
DefineScope == 2
DefinePolicy == 3
DefineSubject == 4
Assign == 5
RetireAssignment == 6
GrantAuthority == 7
FenceAuthority == 8
AdvanceEpoch == 9

encode_body(m) ==
    CASE m.op = DefineClass      -> str(encode_class_definition(m.definition))
      [] m.op = DefineScope      -> str(encode_scope_definition(m.definition))
      [] m.op = DefinePolicy     -> str(encode_policy_definition(m.definition))
      [] m.op = DefineSubject    -> str(encode_subject_definition(m.definition))
      [] m.op = Assign           -> str(encode_assignment(m.definition))
      [] m.op = RetireAssignment -> str(m.retire_target)
      [] m.op = FenceAuthority   -> str(m.fence_publisher) \o m.fence_boot
      [] OTHER                   -> <<>>

decode_body(op) ==
    CASE op = DefineClass      -> <<Blob("definition", decode_class_definition, max_record_payload, TRUE)>>
      [] op = DefineScope      -> <<Blob("definition", decode_scope_definition, max_record_payload, TRUE)>>
      [] op = DefinePolicy     -> <<Blob("definition", decode_policy_definition, max_record_payload, TRUE)>>
      [] op = DefineSubject    -> <<Blob("definition", decode_subject_definition, max_record_payload, TRUE)>>
      [] op = Assign           -> <<Blob("definition", decode_assignment, max_record_payload, TRUE)>>
      [] op = RetireAssignment -> <<Id("retire_target")>>
      [] op = FenceAuthority   -> <<Id("fence_publisher"), Raw("fence_boot")>>
      [] OTHER                 -> <<>>

encode_mutation(m) ==
    u16(m.op) \o u64(m.epoch) \o str(m.publisher) \o m.boot \o u64(m.token)
        \o u64(m.recorded_at_ms) \o str(m.reason) \o encode_body(m) \o u64(m.resulting_generation)

\* The operation, which is read first, decides what follows.
mutation_layout(op) ==
    <<U16("op", AdvanceEpoch), U64("epoch"), Id("publisher"), Raw("boot"), U64("token"),
      U64("recorded_at_ms"), Str("reason", max_note_length)>> \o decode_body(op)
        \o <<U64("resulting_generation")>>

MutationOf(rest, op) ==
    IF ~op.ok \/ op.v \notin DefineClass..AdvanceEpoch THEN Refused
    ELSE Decode(mutation_layout(op.v), rest)

decode_mutation(rest) == MutationOf(rest, AsNumber(take(rest, 2)))

kStateMagic == 17
kFormat == 1

\* Order of the keys of an std::map.
Precedes(x, y) ==
    \/ IsStrictPrefix(x, y)
    \/ \E k \in DOMAIN x \cap DOMAIN y : /\ x[k] < y[k]
                                         /\ \A j \in 1..(k - 1) : x[j] = y[j]

\* The entries of a map in its order.
Entries(map) == LET keys == SetToSortSeq(DOMAIN map, Precedes)
                IN  [k \in DOMAIN keys |-> map[keys[k]]]

\* emplace keeps the first of two rows with one key.
Emplaced(rows) == FoldLeft(LAMBDA map, row : map @@ (row.definition.id :> row), <<>>, rows)
AuthorityKey(row) == row.publisher \o <<0>> \o row.boot
EmplacedGrants(rows) == FoldLeft(LAMBDA map, row : map @@ (AuthorityKey(row) :> row), <<>>, rows)

encode_grant(row) ==
    str(row.publisher) \o row.boot \o u64(row.epoch) \o u64(row.token) \o u8(row.state)
        \o str(encode_provenance(row.provenance))
encode_assignment_entry(row) ==
    str(encode_assignment(row.definition)) \o str(encode_provenance(row.provenance))
        \o u8(row.active) \o str(row.retirement_reason) \o str(encode_provenance(row.retired_by))

\* A definition of the image, with its provenance.
Defined(definition, provenance) == str(definition) \o str(encode_provenance(provenance))

\* Rows already in the order of their map.
encode_rows(i, classes, scopes, policies, subjects, assignments, authority) ==
    counted([k \in DOMAIN classes |->
                 Defined(encode_class_definition(classes[k].definition), classes[k].provenance)])
    \o counted([k \in DOMAIN scopes |->
                 Defined(encode_scope_definition(scopes[k].definition), scopes[k].provenance)])
    \o counted([k \in DOMAIN policies |->
                 Defined(encode_policy_definition(policies[k].definition), policies[k].provenance)])
    \o counted([k \in DOMAIN subjects |->
                 Defined(encode_subject_definition(subjects[k].definition), subjects[k].provenance)])
    \o counted([k \in DOMAIN assignments |-> encode_assignment_entry(assignments[k])])
    \o counted([k \in DOMAIN authority |-> encode_grant(authority[k])])
    \o counted([k \in DOMAIN i.audit |-> str(encode_audit_entry(i.audit[k]))])

encode_state(i) ==
    u32(kStateMagic) \o u16(kFormat) \o u64(i.epoch) \o u64(i.generation) \o u64(i.last_sequence)
        \o u64(i.next_fencing_token) \o u64(i.next_audit_sequence) \o u8(i.health)
        \o str(i.health_detail)
        \o encode_rows(i, Entries(i.classes), Entries(i.scopes), Entries(i.policies),
                       Entries(i.subjects), Entries(i.assignments), Entries(i.authority))

DefinedRow(layout) ==
    Struct("", <<Blob("definition", layout, max_record_payload, TRUE),
                 Blob("provenance", decode_provenance, max_record_payload, FALSE)>>)
AssignmentRow ==
    Struct("", <<Blob("definition", decode_assignment, max_record_payload, TRUE),
                 Blob("provenance", decode_provenance, max_record_payload, FALSE),
                 Bool("active"), Str("retirement_reason", max_note_length),
                 Blob("retired_by", decode_provenance, max_record_payload, FALSE)>>)
GrantRow ==
    Struct("", <<Id("publisher"), Raw("boot"), U64("epoch"), U64("token"), U8("state", Expired),
                 Blob("provenance", decode_provenance, max_record_payload, FALSE)>>)

state_layout ==
    <<Constant(kStateMagic), Constant(kFormat), U64("epoch"), U64("generation"),
      U64("last_sequence"), U64("next_fencing_token"), U64("next_audit_sequence"),
      U8("health", Degraded), Str("health_detail", kTextBound),
      Rows("classes", DefinedRow(decode_class_definition), max_rows),
      Rows("scopes", DefinedRow(decode_scope_definition), max_rows),
      Rows("policies", DefinedRow(decode_policy_definition), max_rows),
      Rows("subjects", DefinedRow(decode_subject_definition), max_rows),
      Rows("assignments", AssignmentRow, max_rows),
      Rows("authority", GrantRow, max_publishers),
      Rows("audit", Blob("", decode_audit_entry, max_record_payload, TRUE), max_audit_entries)>>

AsImage(r) ==
    IF ~r.ok THEN Refused
    ELSE Got([r.v EXCEPT !.classes = Emplaced(@), !.scopes = Emplaced(@), !.policies = Emplaced(@),
                         !.subjects = Emplaced(@), !.assignments = Emplaced(@),
                         !.authority = EmplacedGrants(@)], r.rest)

decode_state(rest) == AsImage(Decode(state_layout, rest))

\* The audit list is a ring of max_audit_entries.
append_audit(audit, entry) ==
    IF max_audit_entries = 0 THEN audit
    ELSE Append(IF Len(audit) < max_audit_entries THEN audit
                ELSE SubSeq(audit, Len(audit) - max_audit_entries + 2, Len(audit)), entry)

-----------------------------------------------------------------------------
(* Frames *)

kMagic == 25

\* Any checksum that changes with each byte it covers.
crc32c(cells) == FoldLeft(+, 0, cells) % Base ^ 2

frame_body(f) ==
    u32(kMagic) \o u16(kFormat) \o u16(f.op) \o u32(0) \o u64(f.request_id) \o str(f.payload)
encode_frame(f) == frame_body(f) \o u32(crc32c(frame_body(f)))

\* The payload's length, within a frame.
LengthCells == 11..12

\* validate_frame_header: no flags, the length within max_frame_payload.
frame_layout ==
    <<Constant(kMagic), Constant(kFormat), U16("op", MaxU64), Constant(0), U64("request_id"),
      Str("payload", max_frame_payload), U32("crc", MaxU64)>>

\* The checksum covers everything in front of it.
verify_frame_checksum(r, rest) ==
    IF r.ok /\ r.v.crc = crc32c(SubSeq(rest, 1, Len(rest) - Len(r.rest) - 2))
    THEN Got([op |-> r.v.op, request_id |-> r.v.request_id, payload |-> r.v.payload], r.rest)
    ELSE Refused

decode_frame(rest) == verify_frame_checksum(Decode(frame_layout, rest), rest)

-----------------------------------------------------------------------------
(* A value is encoded, something may happen to its bytes, and they are decoded. *)

encode(k, v) ==
    CASE k = "class"           -> encode_class_definition(v)
      [] k = "scope"           -> encode_scope_definition(v)
      [] k = "policy"          -> encode_policy_definition(v)
      [] k = "subject"         -> encode_subject_definition(v)
      [] k = "assignment"      -> encode_assignment(v)
      [] k = "audit"           -> encode_audit_entry(v)
      [] k = "query"           -> encode_query(v)
      [] k = "decision"        -> encode_decision(v)
      [] k = "generation"      -> encode_generation(v)
      [] k = "hello"           -> encode_hello(v)
      [] k = "hello_response"  -> encode_hello_response(v)
      [] k = "session_request" -> encode_session_request(v)
      [] k = "retire"          -> encode_retire_request(v)
      [] k = "fence"           -> encode_fence_request(v)
      [] k = "reason"          -> encode_reason(v)
      [] k = "stats"           -> encode_stats_reply(v)
      [] k = "integrity"       -> encode_integrity_reply(v)
      [] k = "error"           -> encode_error_reply(v)
      [] k = "mutation"        -> encode_mutation(v)
      [] k = "state"           -> encode_state(v)
      [] k = "frame"           -> encode_frame(v)

layout(k) ==
    CASE k = "class"           -> decode_class_definition
      [] k = "scope"           -> decode_scope_definition
      [] k = "policy"          -> decode_policy_definition
      [] k = "subject"         -> decode_subject_definition
      [] k = "assignment"      -> decode_assignment
      [] k = "audit"           -> decode_audit_entry
      [] k = "query"           -> decode_query
      [] k = "decision"        -> decode_decision
      [] k = "generation"      -> decode_generation
      [] k = "hello"           -> decode_hello
      [] k = "hello_response"  -> decode_hello_response
      [] k = "session_request" -> decode_session_request
      [] k = "retire"          -> decode_retire_request
      [] k = "fence"           -> decode_fence_request
      [] k = "reason"          -> decode_reason
      [] k = "stats"           -> decode_stats_reply
      [] k = "integrity"       -> decode_integrity_reply
      [] k = "error"           -> decode_error_reply

\* A frame is followed by the next one; every other decoder asks for the end.
decode(k, rest) ==
    CASE k = "mutation" -> finish(decode_mutation(rest))
      [] k = "state"    -> finish(decode_state(rest))
      [] k = "frame"    -> decode_frame(rest)
      [] OTHER          -> finish(Decode(layout(k), rest))

Init ==
    /\ stage = "idle"
    /\ kind = "nothing"
    /\ value = <<>>
    /\ bytes = <<>>
    /\ noise = "none"
    /\ read = Refused

\* A value is written to the journal, a snapshot or a connection.
Write(k, v) ==
    /\ stage = "idle"
    /\ stage' = "sent"
    /\ kind' = k
    /\ value' = v
    /\ bytes' = encode(k, v)
    /\ UNCHANGED <<noise, read>>

\* The bytes end early, go on, or differ in one place from what was written.
Disturb(what, arriving) ==
    /\ stage = "sent"
    /\ noise = "none"
    /\ arriving # bytes
    /\ noise' = what
    /\ bytes' = arriving
    /\ UNCHANGED <<stage, kind, value, read>>

Cut(n) == n < Len(bytes) /\ Disturb("cut", SubSeq(bytes, 1, n))
Extend(cell) == Disturb("extended", Append(bytes, cell))
Damage(n, cell) ==
    Disturb(IF kind = "frame" /\ n \in LengthCells THEN "length" ELSE "damaged",
            [bytes EXCEPT ![n] = cell])

Receive ==
    /\ stage = "sent"
    /\ stage' = "received"
    /\ read' = decode(kind, bytes)
    /\ UNCHANGED <<kind, value, bytes, noise>>

\* The next value.
Forget ==
    /\ stage = "received"
    /\ stage' = "idle"
    /\ kind' = "nothing"
    /\ value' = <<>>
    /\ bytes' = <<>>
    /\ noise' = "none"
    /\ read' = Refused

Next ==
    \/ \E k \in Kinds : \E v \in Values(k) : Write(k, v)
    \/ \E n \in 0..Len(bytes) : Cut(n)
    \/ \E cell \in Noise : Extend(cell) \/ \E n \in DOMAIN bytes : Damage(n, cell)
    \/ Receive
    \/ Forget

Spec == Init /\ [][Next]_vars

-----------------------------------------------------------------------------
(* Properties *)

\* The text field that an encoder cuts, and the reader's copy of the value.
TextField(k) ==
    CASE k = "hello"                          -> "client_label"
      [] k \in {"retire", "fence", "reason"} -> "reason"
      [] k = "integrity"                      -> "detail"
      [] k = "error"                          -> "message"

CutKinds == {"hello", "retire", "fence", "reason", "integrity", "error"}

\* Whatever is encoded is read back as it was, but for the texts the encoder cuts: encoders
\* and decoders are written by hand, field by field, and replay compares the re-encoding of
\* a record with its digest.
RoundTrip ==
    stage = "received" /\ noise = "none" =>
        /\ read.ok
        /\ \A f \in DOMAIN value :
              IF kind \in CutKinds /\ f = TextField(kind)
              THEN read.v[f] = bound_text(value[f], kTextBound)
              ELSE read.v[f] = value[f]

\* A text that an encoder cuts stays printable and within its bound, so that validation
\* does not refuse at the node what was proper at the client.
CutTextStaysText ==
    stage = "received" /\ kind \in CutKinds /\ noise = "none" /\ read.ok =>
        /\ Len(read.v[TextField(kind)]) <= kTextBound
        /\ is_printable_text(value[TextField(kind)]) => is_printable_text(read.v[TextField(kind)])

\* Where a decoder skips bytes: the value of an undeclared rank or an absent epoch, and what
\* follows a provenance inside an audit entry or a snapshot.
Undeclared(k, v) ==
    \/ k \in {"class", "decision"} /\ v.precedence = <<>>
    \/ k = "mutation" /\ v.op = DefineClass /\ v.definition.precedence = <<>>
    \/ k = "query" /\ v.as_of_epoch = <<>>
Skips(k, v) == k \in {"audit", "state"} \/ Undeclared(k, v)

\* Bytes that a decoder accepts, however they came about, are the encoding of what it read:
\* elsewhere nothing is repaired or ignored, so equal values have equal digests.
AcceptedIsCanonical ==
    stage = "received" /\ read.ok /\ kind # "frame" =>
        encode(kind, read.v) = bytes \/ Skips(kind, read.v)

\* A value that ends early or does not end is refused, and so is a frame with one damaged
\* byte outside its length.  The operation inside a session request takes what is left.
DisturbanceDetected ==
    stage = "received" /\ kind # "session_request" =>
        /\ noise = "cut" => ~read.ok
        /\ noise = "extended" => ~read.ok \/ kind = "frame"
        /\ noise = "damaged" /\ kind = "frame" => ~read.ok

-----------------------------------------------------------------------------
(* What comments promise and the code does not keep *)

\* codec.hpp: "Exactly one byte sequence represents a given value".
OneByteSequence ==
    stage = "received" /\ read.ok /\ kind # "frame" => encode(kind, read.v) = bytes

\* evaluate.cpp: the explanation "never emits more steps than the caller asked for", nor
\* more than the limit that decode_decision holds it to.
AnswersReadable == stage = "received" /\ kind = "decision" /\ noise = "none" => read.ok
=============================================================================
