------------------------------- MODULE MCCodec -------------------------------
(* Codec for TLC.  The values of a kind come from its layout: everything absent, *)
(* everything present, and each field in turn with its other values.             *)
EXTENDS Codec

\* Every spelling that users may give to identifiers, and what the fabric makes of them.
Spellings == UNION {[1..n -> Byte] : n \in 1..kMaxRawIdBytes}
Ids == {canonicalize_id(raw) : raw \in Spellings} \ {NoId}

Plain == <<Lower, Lead, Continuation, Lower, Lower>>
Long == Append(Plain, Upper)

RECURSIVE Low(_), High(_), Some(_)

Named(fields, name) == CHOOSE f \in Range(fields) : f.name = name
Names(fields) == {f.name : f \in {g \in Range(fields) : g.read # "constant"}}

\* The records with the least and the largest value in every field.
Least(fields) == [name \in Names(fields) |-> Low(Named(fields, name))]
Largest(fields) == [name \in Names(fields) |-> High(Named(fields, name))]

Low(f) ==
    CASE f.read = "number"             -> 0
      [] f.read = "raw"                -> <<0>>
      [] f.read = "id"                 -> <<Lower>>
      [] f.read \in {"blob", "struct"} -> Least(f.of)
      [] OTHER                         -> <<>>

High(f) ==
    CASE f.read = "number"             -> f.bound
      [] f.read = "raw"                -> <<7>>
      [] f.read = "rest"               -> Plain
      [] f.read = "str"                -> SubSeq(Plain, 1, f.bound)
      [] f.read = "id"                 -> <<Lower, Dot, Lower>>
      [] f.read \in {"blob", "struct"} -> Largest(f.of)
      [] f.read = "optional"           -> <<High(f.of)>>
      [] f.read = "rows"               -> <<High(f.of)>>
      [] f.read = "precedence"         -> <<kMaxRank>>
      [] f.read = "epoch"              -> <<MaxU64>>

\* What a field is varied over.
Some(f) ==
    CASE f.read = "number" -> {1, f.bound}
      [] f.read = "id"     -> Ids
      [] f.read = "rows"   -> {<<Low(f.of)>>, <<Low(f.of), High(f.of)>>}
      [] OTHER             -> {High(f)}

\* One field at a time, over the least record.
Varied(fields) ==
    {Least(fields), Largest(fields)}
        \cup UNION {{[Least(fields) EXCEPT ![name] = x] : x \in Some(Named(fields, name))} :
                      name \in Names(fields)}

\* Callers may hand a cut text of any length.
Lengthened(k) == {[v EXCEPT ![TextField(k)] = Long] : v \in {Least(layout(k)), Largest(layout(k))}}

Mutations ==
    UNION {{[m EXCEPT !.op = op] : m \in Varied(mutation_layout(op))} :
             op \in DefineClass..AdvanceEpoch}

\* The image a publisher's rows make, its audit ring filled entry by entry.
Images ==
    {[i EXCEPT !.classes = Emplaced(@), !.scopes = Emplaced(@), !.policies = Emplaced(@),
               !.subjects = Emplaced(@), !.assignments = Emplaced(@),
               !.authority = EmplacedGrants(@), !.audit = FoldLeft(append_audit, <<>>, @ \o @)] :
        i \in Varied(state_layout) \ {Largest(state_layout)}}

\* The decisions of evaluations that explain themselves in up to four steps.
Decisions ==
    {[d EXCEPT !.chain = ExplanationChain(@ \o @, asked)] : d \in Varied(decode_decision), asked \in {0, 1, 2}}

Frames == Varied(<<U16("op", MaxU64), U64("request_id"), Str("payload", Len(Plain))>>)

ValuesOf(k) ==
    CASE k = "mutation" -> Mutations
      [] k = "state"    -> Images
      [] k = "decision" -> Decisions
      [] k = "frame"    -> Frames
      [] k \in CutKinds -> Varied(layout(k)) \cup Lengthened(k)
      [] OTHER          -> Varied(layout(k))
=============================================================================
