-------------------------------- MODULE Text --------------------------------
(***************************************************************************)
(* Identifiers and bounded texts (src/src/ident.cpp, text.cpp).  A byte is *)
(* abstracted to the class the code tells apart, one byte value per class; *)
(* the multi-byte UTF-8 sequences to those of two bytes.                   *)
(***************************************************************************)
EXTENDS Naturals, Sequences, FiniteSetsExt

CONSTANTS max_id_length,   \* Limits::max_id_length, in bytes of the canonical form
          kMaxRawIdBytes   \* longest spelling that is looked at

Control == 0        \* below 0x20, and 0x7F
Space == 1
Slash == 2
Dot == 3            \* the separators . _ : -
Lower == 4          \* a-z and 0-9
Upper == 5          \* A-Z
Lead == 6           \* first byte of a UTF-8 sequence
Continuation == 7   \* any further byte of one

Byte == 0..7

Ellipsis == <<Dot, Dot, Dot>>

-----------------------------------------------------------------------------
RECURSIVE is_printable_text(_)

\* No control characters, and every UTF-8 sequence complete.
is_printable_text(text) ==
    \/ text = <<>>
    \/ /\ Head(text) \in {Space, Slash, Dot, Lower, Upper}
       /\ is_printable_text(Tail(text))
    \/ /\ Len(text) > 1
       /\ Head(text) = Lead
       /\ text[2] = Continuation
       /\ is_printable_text(SubSeq(text, 3, Len(text)))

\* Mutant: the cut falls wherever the limit puts it.
CutAnywhere(text, limit) ==
    IF Len(text) <= limit THEN text
    ELSE IF limit <= Len(Ellipsis) THEN SubSeq(Ellipsis, 1, limit)
    ELSE SubSeq(text, 1, limit - Len(Ellipsis)) \o Ellipsis

\* The text, or what fits of it before an ellipsis, cut in front of a whole character.
bound_text(text, limit) ==
    IF Len(text) <= limit THEN text
    ELSE IF limit <= Len(Ellipsis) THEN SubSeq(Ellipsis, 1, limit)
    ELSE SubSeq(text, 1, Max({c \in 0..(limit - Len(Ellipsis)) :
                                 c = 0 \/ text[c + 1] # Continuation})) \o Ellipsis

-----------------------------------------------------------------------------
\* The spelling without the spaces around it.
Trimmed(raw) ==
    LET inner == {k \in DOMAIN raw : raw[k] # Space}
    IN  IF inner = {} THEN <<>> ELSE SubSeq(raw, Min(inner), Max(inner))

Unrooted(text) == IF text # <<>> /\ text[1] = Slash THEN Tail(text) ELSE text

\* Slashes become separators and letters lower case.
Folded(text) ==
    [k \in DOMAIN text |-> CASE text[k] = Slash -> Dot
                             [] text[k] = Upper -> Lower
                             [] OTHER           -> text[k]]

\* Segments of letters and digits, none of them empty, with one separator between two.
WellFormedId(id) ==
    /\ id # <<>>
    /\ Len(id) <= max_id_length
    /\ \A k \in DOMAIN id : id[k] \in {Lower, Dot}
    /\ \A k \in DOMAIN id : id[k] = Dot => /\ 1 < k /\ k < Len(id)
                                           /\ id[k + 1] # Dot

\* No identifier: parsing failed.
NoId == <<>>

\* The one spelling under which the fabric knows an identifier.
canonicalize_id(raw) ==
    LET id == Folded(Unrooted(Trimmed(raw)))
    IN  IF Len(raw) <= kMaxRawIdBytes /\ is_printable_text(raw) /\ WellFormedId(id)
        THEN id ELSE NoId

\* Mutant: another spelling is repaired on the way in.
from_any_spelling(text) == canonicalize_id(text)

\* What is read back must already be canonical: another spelling is refused.
from_canonical(text) == IF canonicalize_id(text) = text THEN text ELSE NoId
=============================================================================
