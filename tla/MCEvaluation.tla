---------------------------- MODULE MCEvaluation ----------------------------
(* Evaluation for TLC: the definitions and queries of each run, and a view that *)
(* leaves out what neither a step nor a decision reads.                         *)
EXTENDS Evaluation

Class(id, rank, parents) == [id |-> id, rank |-> rank, parents |-> parents]
Subject(id, parents) == [id |-> id, parents |-> parents]
Scope(id, parent, mode, default, override) ==
    [id |-> id, parent |-> parent, conflict_resolution |-> mode,
     unknown_default |-> default, allow_override |-> override]
Policy(id, scope, visible, mode, default) ==
    [id |-> id, scope |-> scope, scope_generation |-> 0, visible_classes |-> visible,
     conflict_resolution |-> mode, unknown_default |-> default, required |-> FALSE]
Assigned(id, subject, scope, cls, kind, displaces) ==
    [id |-> id, subject |-> subject, scope |-> scope, cls |-> cls, kind |-> kind,
     displaces |-> displaces, policy |-> Absent]

NoDefs == {}

TwoClasses == {Class(1, 1, {}), Class(2, 2, {})}
OneRoot == {Scope(1, Absent, "HigherPrecedence", Absent, TRUE)}
OneSubject == {Subject(1, {})}
Family == {Subject(1, {}), Subject(2, {1})}

Query(subject, scope, strict) ==
    [subject |-> subject, scope |-> scope, strict |-> strict, as_of_epoch |-> Absent,
     subject_generation |-> 0, require_policy_generation |-> 0, require_scope_generation |-> 0]

EveryQuery == {Query(s, c, b) : s \in Subjects, c \in Scopes, b \in BOOLEAN}
PlainQueries == {Query(s, c, FALSE) : s \in Subjects, c \in Scopes}

\* Levels: a root that may forbid overriding and a tenant below it; contradictory,
\* inherited and displacing assignments that never change their subject.
LevelScopes == {Scope(1, Absent, "Deny", Absent, FALSE), Scope(1, Absent, "Deny", Absent, TRUE),
                Scope(2, 1, "HigherPrecedence", 1, TRUE)}
LevelAssignments ==
    {Assigned(1, 2, 1, 1, "Explicit", Absent), Assigned(1, 2, 2, 1, "Explicit", Absent),
     Assigned(2, 2, 2, 2, "Explicit", Absent), Assigned(2, 2, 2, 2, "Exception", 1),
     Assigned(3, 1, 1, 2, "Inherited", Absent)}

\* Staleness: a class and a policy that may be redefined and redefined back, where the
\* policy may hide the class.
StaleClasses == {Class(1, 1, {}), Class(2, 2, {}), Class(2, 2, {1})}
StalePolicies == {Policy(1, 1, {1}, Absent, Absent), Policy(1, 1, {}, "HigherPrecedence", 1)}
StaleAssignments == {[a EXCEPT !.policy = p] :
                        a \in {Assigned(1, 1, 1, 2, "Explicit", Absent)}, p \in {Absent, 1}}

\* Moving: one assignment that may name either of two subjects.
MovingAssignments == {Assigned(1, s, 1, 1, "Explicit", Absent) : s \in {1, 2}}
TwoSubjects == {Subject(1, {}), Subject(2, {})}

\* Contradiction: two assignments of one subject in one scope.
Contradiction == {Assigned(1, 1, 1, 1, "Explicit", Absent), Assigned(2, 1, 1, 2, "Explicit", Absent)}

\* Nesting: a root and a tenant below it that may each forbid overriding, and an
\* assignment in each.
NestedScopes == {Scope(1, Absent, "Deny", Absent, b) : b \in BOOLEAN}
                \cup {Scope(2, 1, "Deny", Absent, b) : b \in BOOLEAN}
Nested == {Assigned(1, 1, 1, 1, "Explicit", Absent), Assigned(2, 1, 2, 2, "Explicit", Absent)}

\* Exceptions: three levels, each exception displacing the class of the next.
ThreeLevels == {Scope(1, Absent, "Deny", Absent, TRUE), Scope(2, 1, "Deny", Absent, TRUE),
                Scope(3, 2, "Deny", Absent, TRUE)}
Exceptions == {Assigned(1, 1, 2, 1, "Exception", 2), Assigned(2, 1, 3, 2, "Exception", 1)}

Unsigned(table) == [x \in DOMAIN table |-> <<table[x].gen, table[x].def>>]

View == <<Unsigned(image.classes), Unsigned(image.scopes), Unsigned(image.policies),
          Unsigned(image.subjects), image.assignments, image.assignments_by_subject,
          epoch, granted, fenced, replayed>>
=============================================================================
