----------------------------- MODULE MCRegistry -----------------------------
(* Registry for TLC: what may be submitted in each run, and a view that leaves *)
(* out what no step reads: the last reply and who last published a definition. *)
EXTENDS Registry

NoDefs == {}

ClassDef(id, rank, parents) == [id |-> id, rank |-> rank, parents |-> parents]
SubjectDef(id, parents) == [id |-> id, parents |-> parents]
ScopeDef(id, parent, default) ==
    [id |-> id, parent |-> parent, conflict_resolution |-> "Deny",
     unknown_default |-> default, allow_override |-> TRUE]
PolicyDef(id, scope, visible, required) ==
    [id |-> id, scope |-> scope, scope_generation |-> 0, visible_classes |-> visible,
     conflict_resolution |-> Absent, unknown_default |-> Absent, required |-> required]
AssignmentDef(id, subject, scope, cls, policy) ==
    [id |-> id, subject |-> subject, scope |-> scope, cls |-> cls, kind |-> "Explicit",
     displaces |-> Absent, policy |-> policy]

\* Every shape of three classes, scopes or subjects; one that names itself names no other.
ParentsOf(x, all) == SUBSET (all \ {x}) \cup {{x}}
AllClasses == UNION {{ClassDef(c, c, ps) : ps \in ParentsOf(c, Classes)} : c \in Classes}
                \cup {ClassDef(c, 1, {}) : c \in Classes}
AllSubjects == UNION {{SubjectDef(s, ps) : ps \in ParentsOf(s, Subjects)} : s \in Subjects}
AllScopes == {ScopeDef(s, p, Absent) : s \in Scopes, p \in Scopes \cup {Absent}}

\* Bindings: two classes of which the second may imply the first, a scope with
\* a default class, a policy that admits the first class, and movable assignments.
FewClasses == {ClassDef(1, 1, {}), ClassDef(2, 2, {}), ClassDef(2, 2, {1})}
FewScopes == {ScopeDef(1, Absent, 1)}
FewPolicies == {PolicyDef(1, 1, {1}, TRUE), PolicyDef(1, 1, {1}, FALSE)}
FewSubjects == {SubjectDef(1, {}), SubjectDef(2, {})}
FewAssignments == {AssignmentDef(1, s, 1, c, p) : s \in {1, 2}, c \in {1, 2}, p \in {Absent, 1}}

\* What may be submitted: all of these; Focus bounds how they are combined.
ClassChoice == AllClasses \cup FewClasses
ScopeChoice == AllScopes \cup FewScopes
SubjectChoice == AllSubjects \cup FewSubjects

\* The definitions of table are among defs and at most the generation gen.
Within(table, defs, gen) == \A x \in Defined(table) : table[x].def \in defs /\ table[x].gen <= gen

\* Definitions of one kind only, in any shape, made by one incarnation.
OneHierarchy ==
    /\ epoch = 1 /\ fenced = {}
    /\ Defined(image.policies) = {}
    /\ Cardinality({t \in {"classes", "scopes", "subjects"} : Defined(image[t]) # {}}) <= 1

\* A few definitions of every kind, with assignments that bind them; scopes and subjects
\* are defined once, so that no hierarchy of several generations leads here.
Bindings ==
    /\ Within(image.classes, FewClasses, 2)
    /\ Within(image.scopes, FewScopes, 1)
    /\ Within(image.subjects, FewSubjects, 1)

\* Hierarchies of different kinds do not refer to one another, so they are explored one
\* at a time; what does refer to others is explored over a few definitions.
Focus == OneHierarchy' \/ Bindings'

Unsigned(table) == [x \in DOMAIN table |-> <<table[x].gen, table[x].def>>]

View == <<Unsigned(image.classes), Unsigned(image.scopes), Unsigned(image.policies),
          Unsigned(image.subjects), image.assignments, image.assignments_by_subject,
          epoch, granted, fenced, replayed>>
=============================================================================
