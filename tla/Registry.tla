------------------------------ MODULE Registry ------------------------------
(***************************************************************************)
(* The definitions and assignments of a fabric: classes, scopes, policies, *)
(* subjects and the assignments that bind them (state.cpp), mutated        *)
(* through FabricRuntime (runtime.cpp) under its exclusive lock, so that   *)
(* one request is one step.                                                *)
(*                                                                         *)
(* Every table maps an identifier to an entry [gen, def, by]: the entity's *)
(* generation (0: never defined), the definition, and the part of the      *)
(* provenance the code compares, the publisher incarnation and the epoch.  *)
(* Free text, class kinds and privilege flags are left out of definitions. *)
(* Grants, fences and epochs are the subject of module Authority; here     *)
(* they are what the tables see of them: the epoch, the incarnations       *)
(* granted under it and the ones fenced for good.                          *)
(***************************************************************************)
EXTENDS Integers, FiniteSets, FiniteSetsExt

CONSTANTS
    Classes, Scopes, Policies, Subjects, Assignments,  \* identifiers: numbers, ordered as in the maps
    Incarnations,       \* publisher incarnations
    Absent,             \* an empty std::optional, an entry that is not there
    ClassDefs, ScopeDefs, PolicyDefs, SubjectDefs, AssignmentDefs,  \* what may be submitted
    MaxScopeDepth,      \* Limits::max_scope_depth
    MaxInheritance,     \* Limits::max_inheritance_depth
    MaxPopulation,      \* Limits::max_classes, max_scopes, max_policies, ...
    MaxGeneration,      \* bound: an entity is redefined at most this often
    MaxEpoch            \* bound: the last epoch

Ids == Classes \cup Scopes \cup Policies \cup Subjects \cup Assignments

ASSUME RegistryBounds ==
    /\ Ids \subseteq Nat
    /\ IsFiniteSet(Ids)
    /\ Absent \notin Ids
    /\ {MaxScopeDepth, MaxInheritance, MaxPopulation, MaxGeneration, MaxEpoch} \subseteq Nat
    /\ \A d \in ClassDefs : d.id \in Classes /\ d.parents \subseteq Classes /\ d.rank \in Nat
    /\ \A d \in ScopeDefs : d.id \in Scopes /\ d.parent \in Scopes \cup {Absent}
    /\ \A d \in PolicyDefs : d.id \in Policies /\ d.scope \in Scopes
    /\ \A d \in SubjectDefs : d.id \in Subjects /\ d.parents \subseteq Subjects
    /\ \A d \in AssignmentDefs : d.id \in Assignments /\ d.subject \in Subjects

\* Definitions are structures, a policy the one with classes it makes visible and a place
\* for the generation of its scope; a definition is never the absent one.
ASSUME DefinitionFields ==
    /\ \A d \in ClassDefs \cup ScopeDefs \cup SubjectDefs :
          d # Absent /\ "visible_classes" \notin DOMAIN d
    /\ \A d \in PolicyDefs :
          /\ {"id", "scope", "scope_generation", "visible_classes", "unknown_default"} \subseteq DOMAIN d
          /\ \A g \in 0 .. MaxGeneration : Absent # [d EXCEPT !.scope_generation = g]

VARIABLES
    image,      \* StateImage: the five tables and the derived index
    epoch,      \* StateImage::epoch
    granted,    \* incarnations holding a live grant
    fenced,     \* incarnations fenced for good
    replayed,   \* the index that decoding the snapshot and replaying the journal rebuilds
    reply       \* what the last request was answered: [status, gen]

vars == <<image, epoch, granted, fenced, replayed, reply>>

Undefined == [gen |-> 0, def |-> Absent, by |-> Absent]

Defined(table) == {x \in DOMAIN table : table[x].gen > 0}

-----------------------------------------------------------------------------
(* Structural helpers.                                                     *)

\* reaches, class_implies: everything reachable from the set start along the
\* inherits_from lists of a table of classes or subjects.
Reachable(table, start) ==
    LET parents(x) == IF table[x].gen = 0 THEN {} ELSE table[x].def.parents
        within[n \in 0 .. Cardinality(DOMAIN table)] ==
            IF n = 0 THEN start
            ELSE LET nearer == within[n - 1]
                 IN  nearer \cup UNION {parents(x) : x \in nearer}
    IN  within[Cardinality(DOMAIN table)]

class_implies(i, candidate, required) == required \in Reachable(i.classes, {candidate})

\* class_depth: the entries with an inheritance chain of at least n edges above them.
DeeperThan(table, n) ==
    LET atLeast[k \in 0 .. n] ==
            IF k = 0 THEN Defined(table)
            ELSE LET shorter == atLeast[k - 1]
                 IN  {x \in Defined(table) : table[x].def.parents \cap shorter # {}}
    IN  atLeast[n]

\* The scope that many parents above s; Absent above the root.
Above(i, s, hops) ==
    LET up[n \in 0 .. hops] ==
            IF n = 0 THEN s
            ELSE LET below == up[n - 1]
                 IN  IF below = Absent THEN Absent ELSE i.scopes[below].def.parent
    IN  up[hops]

\* scope_chain: usable when s is defined and its chain ends within the limit.
ChainUsable(i, s) == i.scopes[s].gen > 0 /\ Above(i, s, MaxScopeDepth) = Absent

\* The usable chain, as the function from a level (0: s itself) to the scope there.
scope_chain(i, s) ==
    LET levels == {n \in 0 .. MaxScopeDepth : Above(i, s, n) # Absent}
    IN  [n \in levels |-> Above(i, s, n)]

\* The first policy in map order among some that belong to a scope, at the nearest
\* level of a chain that has one.
PoliciesAt(i, s, among) == {p \in among : i.policies[p].def.scope = s}

NearestOn(i, chain, among) ==
    LET levels == {n \in DOMAIN chain : PoliciesAt(i, chain[n], among) # {}}
    IN  IF levels = {} THEN Absent ELSE Min(PoliciesAt(i, chain[Min(levels)], among))

NearestPolicy(i, s, among) ==
    IF ChainUsable(i, s) THEN NearestOn(i, scope_chain(i, s), among) ELSE Absent

effective_policy(i, s) == NearestPolicy(i, s, Defined(i.policies))

\* effective_visibility and the loop over it: is cls admitted in scope s?
Admits(i, p, cls) ==
    p # Absent => \E allowed \in i.policies[p].def.visible_classes : class_implies(i, cls, allowed)

Restrictive(i) == {p \in Defined(i.policies) : i.policies[p].def.visible_classes # {}}

Visible(i, cls, s) == Admits(i, NearestPolicy(i, s, Restrictive(i)), cls)

-----------------------------------------------------------------------------
(* Validation: the status of a request against the image, in the order the *)
(* code checks.                                                            *)

Full(table, id) == table[id].gen = 0 /\ Cardinality(Defined(table)) >= MaxPopulation

\* Mutant: only a direct self reference is refused.
InheritanceSelfOnly(table, d) ==
    CASE d.id \in d.parents                     -> "CycleDetected"
      [] ~(d.parents \subseteq Defined(table))  -> "NotFound"
      [] OTHER                                  -> "Ok"

\* validate_inheritance and validate_subject_inheritance up to the depth check,
\* which only classes have.
InheritanceStatus(table, d) ==
    CASE d.id \in d.parents                                          -> "CycleDetected"
      [] ~(d.parents \subseteq Defined(table))                       -> "NotFound"
      [] d.id \in Reachable([table EXCEPT ![d.id] = Undefined], d.parents) -> "CycleDetected"
      [] OTHER                                                       -> "Ok"

\* Mutant: the rank is checked for a new class only.
DefineClassNewRankOnly(i, d) ==
    CASE InheritanceStatus(i.classes, d) # "Ok" -> InheritanceStatus(i.classes, d)
      [] /\ i.classes[d.id].gen = 0
         /\ \E c \in Defined(i.classes) : i.classes[c].def.rank = d.rank -> "DuplicatePrecedence"
      [] OTHER -> "Ok"

DefineClassStatus(i, d) ==
    LET inheritance == InheritanceStatus(i.classes, d)
    IN  CASE inheritance # "Ok"                                       -> inheritance
          [] d.parents \cap DeeperThan(i.classes, MaxInheritance + 1) # {} -> "Degraded"
          [] d.parents \cap DeeperThan(i.classes, MaxInheritance) # {} -> "LimitExceeded"
          [] Full(i.classes, d.id)                                    -> "LimitExceeded"
          [] /\ i.classes[d.id].def # d
             /\ \E c \in Defined(i.classes) \ {d.id} : i.classes[c].def.rank = d.rank
                                                                      -> "DuplicatePrecedence"
          [] OTHER                                                    -> "Ok"

\* Mutant: the walk towards the root is skipped.
DefineScopeNoWalk(i, d) ==
    CASE d.parent = d.id                                     -> "CycleDetected"
      [] d.parent \notin Defined(i.scopes) \cup {Absent}     -> "NotFound"
      [] OTHER                                               -> "Ok"

DefineScopeStatus(i, d) ==
    LET above == {Above(i, d.parent, n) : n \in 0 .. MaxScopeDepth}
    IN  CASE d.unknown_default \notin Defined(i.classes) \cup {Absent} -> "NotFound"
          [] d.parent = d.id                                           -> "CycleDetected"
          [] d.parent \notin Defined(i.scopes) \cup {Absent}           -> "NotFound"
          [] d.parent # Absent /\ d.id \in above                       -> "CycleDetected"
          [] d.parent # Absent /\ Absent \notin above                  -> "LimitExceeded"
          [] Full(i.scopes, d.id)                                      -> "LimitExceeded"
          [] OTHER                                                     -> "Ok"

\* Mutant: the visible classes need not be defined.
DefinePolicyAnyClass(i, d) == IF d.scope \in Defined(i.scopes) THEN "Ok" ELSE "NotFound"

DefinePolicyStatus(i, d) ==
    CASE d.scope \notin Defined(i.scopes)                          -> "NotFound"
      [] ~(d.visible_classes \subseteq Defined(i.classes))         -> "NotFound"
      [] d.unknown_default \notin Defined(i.classes) \cup {Absent} -> "NotFound"
      [] Full(i.policies, d.id)                                    -> "LimitExceeded"
      [] OTHER                                                     -> "Ok"

DefineSubjectStatus(i, d) ==
    LET inheritance == InheritanceStatus(i.subjects, d)
    IN  CASE inheritance # "Ok"       -> inheritance
          [] Full(i.subjects, d.id)   -> "LimitExceeded"
          [] OTHER                    -> "Ok"

\* The effective policy that assignments in a scope must name, if it asks for that.
RequiredPolicy(i, s) ==
    LET p == effective_policy(i, s)
    IN  IF p # Absent /\ i.policies[p].def.required THEN p ELSE Absent

AssignStatus(i, d) ==
    CASE d.kind = "Default"                                 -> "InvalidArgument"
      [] d.subject \notin Defined(i.subjects)               -> "NotFound"
      [] d.scope \notin Defined(i.scopes)                   -> "NotFound"
      [] d.cls \notin Defined(i.classes)                    -> "NotFound"
      [] d.policy \notin Defined(i.policies) \cup {Absent}  -> "NotFound"
      [] d.displaces \notin Defined(i.classes) \cup {Absent} -> "NotFound"
      [] ~Visible(i, d.cls, d.scope)                        -> "Unauthorized"
      [] RequiredPolicy(i, d.scope) \notin {Absent, d.policy} -> "Unauthorized"
      [] Full(i.assignments, d.id)                          -> "LimitExceeded"
      [] OTHER                                              -> "Ok"

RetireStatus(i, a) == IF a \in Defined(i.assignments) THEN "Ok" ELSE "NotFound"

-----------------------------------------------------------------------------
(* Application.                                                            *)

\* same_*_content: a policy is compared without the scope generation it binds.
Content(def) ==
    IF def # Absent /\ "scope_generation" \in DOMAIN def /\ "visible_classes" \in DOMAIN def
    THEN [def EXCEPT !.scope_generation = 0]
    ELSE def

content_unchanged(entry, def) == entry.gen > 0 /\ Content(entry.def) = Content(def)

\* Mutant: every accepted request is reported as a new generation.
PreviewNext(entry, def) == entry.gen + 1

\* preview_entity_generation: the generation reported to the caller.
PreviewGeneration(entry, def) ==
    IF content_unchanged(entry, def) THEN entry.gen ELSE entry.gen + 1

\* Mutant: republication moves the generation.
AppliedAnew(entry, def, by) == [entry EXCEPT !.gen = @ + 1, !.def = def, !.by = by]

\* The entry once a definition is applied: unchanged content refreshes the
\* authority binding only, anything else is the next generation.
Applied(entry, def, by) ==
    IF content_unchanged(entry, def)
    THEN [entry EXCEPT !.by = by]
    ELSE [entry EXCEPT !.gen = @ + 1, !.def = def, !.by = by]

\* An assignment as FabricRuntime::assign stamps it: bound to the generations
\* that its subject, scope, class and policy have now.
Stamped(i, d) ==
    [id |-> d.id, subject |-> d.subject, scope |-> d.scope, cls |-> d.cls, kind |-> d.kind,
     displaces |-> d.displaces, policy |-> d.policy,
     subject_generation |-> i.subjects[d.subject].gen,
     scope_generation   |-> i.scopes[d.scope].gen,
     class_generation   |-> i.classes[d.cls].gen,
     policy_generation  |-> IF d.policy = Absent THEN 0 ELSE i.policies[d.policy].gen]

\* assignments_by_subject: how often a bucket, sorted by id, holds an id.
EmptyIndex == [s \in Subjects |-> [a \in Assignments |-> 0]]

Insert(index, s, a) == [index EXCEPT ![s][a] = @ + 1]

\* Mutant: only active assignments are indexed again.
RebuildActive(assignments) ==
    [s \in Subjects |-> [a \in Assignments |->
        IF assignments[a].active /\ assignments[a].def.subject = s THEN 1 ELSE 0]]

rebuild_indexes(assignments) ==
    [s \in Subjects |-> [a \in Assignments |->
        IF assignments[a].gen > 0 /\ assignments[a].def.subject = s THEN 1 ELSE 0]]

-----------------------------------------------------------------------------
(* The runtime.                                                            *)

EmptyImage ==
    [classes     |-> [c \in Classes |-> Undefined],
     scopes      |-> [s \in Scopes |-> Undefined],
     policies    |-> [p \in Policies |-> Undefined],
     subjects    |-> [s \in Subjects |-> Undefined],
     assignments |-> [a \in Assignments |->
                        [gen |-> 0, def |-> Absent, by |-> Absent, active |-> FALSE]],
     assignments_by_subject |-> EmptyIndex]

Init ==
    /\ image = EmptyImage
    /\ epoch = 1
    /\ granted = {}
    /\ fenced = {}
    /\ replayed = EmptyIndex
    /\ reply = [status |-> "Ok", gen |-> 0]

\* apply_mutation checks authority after validation.
Authorized(actor, status) == IF status = "Ok" /\ actor \notin granted THEN "Fenced" ELSE status

Binding(actor) == [incarnation |-> actor, epoch |-> epoch]

Refuse(status) ==
    /\ status # "Ok"
    /\ reply' = [status |-> status, gen |-> 0]
    /\ UNCHANGED <<image, epoch, granted, fenced, replayed>>

\* A definition request on one of the four definition tables.
Define(actor, name, def, status) ==
    \/ Refuse(Authorized(actor, status))
    \/ /\ Authorized(actor, status) = "Ok"
       /\ PreviewGeneration(image[name][def.id], def) <= MaxGeneration
       /\ image' = [image EXCEPT ![name][def.id] = Applied(@, def, Binding(actor))]
       /\ reply' = [status |-> "Ok", gen |-> PreviewGeneration(image[name][def.id], def)]
       /\ UNCHANGED <<epoch, granted, fenced, replayed>>

DefineClass(actor, d) == Define(actor, "classes", d, DefineClassStatus(image, d))

DefineScope(actor, d) == Define(actor, "scopes", d, DefineScopeStatus(image, d))

\* FabricRuntime::define_policy binds the scope's present generation.
DefinePolicy(actor, d) ==
    LET stamped == [d EXCEPT !.scope_generation = image.scopes[d.scope].gen]
    IN  Define(actor, "policies", stamped, DefinePolicyStatus(image, d))

DefineSubject(actor, d) == Define(actor, "subjects", d, DefineSubjectStatus(image, d))

\* A retired assignment is never unchanged: publishing it again revives it.
Unchanged(a, stamped) ==
    image.assignments[a].active /\ content_unchanged(image.assignments[a], stamped)

\* The entry that replaces an assignment whose content changed, or that is new.
Reassigned(entry, stamped, actor) ==
    [gen |-> entry.gen + 1, def |-> stamped, by |-> Binding(actor), active |-> TRUE]

Republish(actor, a, stamped) ==
    /\ Unchanged(a, stamped)
    /\ image' = [image EXCEPT !.assignments[a].by = Binding(actor)]
    /\ reply' = [status |-> "Ok", gen |-> image.assignments[a].gen]
    /\ UNCHANGED replayed

\* The new entry is inserted in the bucket of the subject it names; nothing is
\* removed from any bucket.
Publish(actor, a, stamped) ==
    LET entry == Reassigned(image.assignments[a], stamped, actor)
    IN  /\ ~Unchanged(a, stamped)
        /\ entry.gen <= MaxGeneration
        /\ image' = [image EXCEPT !.assignments[a] = entry,
                                  !.assignments_by_subject = Insert(@, stamped.subject, a)]
        /\ replayed' = Insert(replayed, stamped.subject, a)
        /\ reply' = [status |-> "Ok", gen |-> entry.gen]

Assign(actor, d) ==
    \/ Refuse(Authorized(actor, AssignStatus(image, d)))
    \/ /\ Authorized(actor, AssignStatus(image, d)) = "Ok"
       /\ \/ Republish(actor, d.id, Stamped(image, d))
          \/ Publish(actor, d.id, Stamped(image, d))
       /\ UNCHANGED <<epoch, granted, fenced>>

\* Retiring a retired assignment is an identical republication.
Retired(entry) ==
    IF entry.active THEN [entry EXCEPT !.gen = @ + 1, !.active = FALSE] ELSE entry

RetireAssignment(actor, a) ==
    \/ Refuse(Authorized(actor, RetireStatus(image, a)))
    \/ /\ Authorized(actor, RetireStatus(image, a)) = "Ok"
       /\ Retired(image.assignments[a]).gen <= MaxGeneration
       /\ image' = [image EXCEPT !.assignments[a] = Retired(@)]
       /\ reply' = [status |-> "Ok", gen |-> Retired(image.assignments[a]).gen]
       /\ UNCHANGED <<epoch, granted, fenced, replayed>>

\* What module Authority's GrantAuthority, Fence and AdvanceEpoch do to the
\* incarnations whose evidence is usable.
Grant(i) ==
    /\ i \notin fenced
    /\ granted' = granted \cup {i}
    /\ UNCHANGED <<image, epoch, fenced, replayed, reply>>

Fence(i) ==
    /\ granted' = granted \ {i}
    /\ fenced' = fenced \cup {i}
    /\ UNCHANGED <<image, epoch, replayed, reply>>

AdvanceEpoch ==
    /\ epoch < MaxEpoch
    /\ epoch' = epoch + 1
    /\ granted' = {}
    /\ UNCHANGED <<image, fenced, replayed, reply>>

\* A snapshot holds the tables; decoding it will rebuild the index from them.
Checkpoint ==
    /\ replayed' = rebuild_indexes(image.assignments)
    /\ UNCHANGED <<image, epoch, granted, fenced, reply>>

\* Closing and opening again: the tables come back as they were, the index as the
\* snapshot and the journal give it, and no grant is restored.
Reopen ==
    /\ image' = [image EXCEPT !.assignments_by_subject = replayed]
    /\ granted' = {}
    /\ UNCHANGED <<epoch, fenced, replayed, reply>>

Next ==
    \/ \E i \in Incarnations :
          \/ \E d \in ClassDefs : DefineClass(i, d)
          \/ \E d \in ScopeDefs : DefineScope(i, d)
          \/ \E d \in PolicyDefs : DefinePolicy(i, d)
          \/ \E d \in SubjectDefs : DefineSubject(i, d)
          \/ \E d \in AssignmentDefs : Assign(i, d)
          \/ \E a \in Assignments : RetireAssignment(i, a)
          \/ Grant(i)
          \/ Fence(i)
    \/ AdvanceEpoch
    \/ Checkpoint
    \/ Reopen

Spec == Init /\ [][Next]_vars

-----------------------------------------------------------------------------
(* Properties.                                                             *)

Tables == {"classes", "scopes", "policies", "subjects", "assignments"}

\* Type invariant: generations stay within their bound, an entry is bound to an
\* incarnation exactly when it is defined, only live incarnations are granted, and
\* the index counts the ids of each bucket.
RegistryTypeOK ==
    /\ epoch \in 1 .. MaxEpoch
    /\ granted \subseteq Incarnations \ fenced
    /\ fenced \subseteq Incarnations
    /\ \A t \in Tables : \A x \in DOMAIN image[t] :
          /\ image[t][x].gen \in 0 .. MaxGeneration
          /\ IF image[t][x].gen = 0
             THEN image[t][x].def = Absent /\ image[t][x].by = Absent
             ELSE /\ image[t][x].def.id = x
                  /\ image[t][x].by \in [incarnation : Incarnations, epoch : 1 .. epoch]
    /\ \A a \in Assignments : image.assignments[a].active \in BOOLEAN
    /\ {image.assignments_by_subject, replayed}
          \subseteq [Subjects -> [Assignments -> 0 .. MaxGeneration]]

\* No sequence of definitions and redefinitions closes a cycle: class and subject
\* inheritance stay acyclic and every scope has a root above it (validate_inheritance,
\* validate_subject_inheritance and the walk in DefineScope each look only at the
\* entity being redefined).
HierarchiesAcyclic ==
    /\ \A t \in {"classes", "subjects"} : \A x \in Defined(image[t]) :
          x \notin Reachable(image[t], image[t][x].def.parents)
    /\ \A s \in Defined(image.scopes) :
          \E n \in 1 .. Cardinality(Scopes) : Above(image, s, n) = Absent

\* Declared ranks order the classes totally: two classes never share a rank,
\* although republishing a class skips check_precedence_free.
RanksUnique ==
    \A c, d \in Defined(image.classes) :
        image.classes[c].def.rank = image.classes[d].def.rank => c = d

\* No sequence of legal definitions, redefinitions, assignments and restarts leaves a cycle in
\* a hierarchy or two classes with one rank: evaluation walks the first and orders by the
\* second without checking either again.
StructureSound == HierarchiesAcyclic /\ RanksUnique

\* Whatever a stored definition or assignment names is itself defined, and bound
\* generations were reached: validation checks this once and later mutations must
\* keep it (evaluate.cpp's class_not_registered paths are then never taken).
ReferencesResolve ==
    LET named(x) == x \in Defined(image.classes) \cup {Absent}
    IN  /\ \A t \in {"classes", "subjects"} : \A x \in Defined(image[t]) :
              image[t][x].def.parents \subseteq Defined(image[t])
        /\ \A s \in Defined(image.scopes) :
              /\ named(image.scopes[s].def.unknown_default)
              /\ image.scopes[s].def.parent \in Defined(image.scopes) \cup {Absent}
        /\ \A p \in Defined(image.policies) :
              LET d == image.policies[p].def
              IN  /\ d.scope_generation \in 1 .. image.scopes[d.scope].gen
                  /\ d.visible_classes \subseteq Defined(image.classes)
                  /\ named(d.unknown_default)
        /\ \A a \in Defined(image.assignments) :
              LET d == image.assignments[a].def
              IN  /\ d.subject_generation \in 1 .. image.subjects[d.subject].gen
                  /\ d.scope_generation \in 1 .. image.scopes[d.scope].gen
                  /\ d.class_generation \in 1 .. image.classes[d.cls].gen
                  /\ d.policy # Absent => d.policy_generation \in 1 .. image.policies[d.policy].gen
                  /\ named(d.displaces)

\* Every assignment can be found through the bucket of the subject it names, in the
\* running image and in the one a reopening would rebuild (apply_mutation's insertion
\* and rebuild_indexes).
IndexComplete ==
    \A a \in Defined(image.assignments) :
        LET s == image.assignments[a].def.subject
        IN  image.assignments_by_subject[s][a] > 0 /\ replayed[s][a] > 0

\* What an entry says, the retirement of an assignment included.
Meaning(t, entry) ==
    <<Content(entry.def), IF t = "assignments" THEN entry.active ELSE TRUE>>

\* An entity's generation never goes back, and it moves exactly when what the entity
\* says changes, so that a generation names one content for ever ("every assignment
\* and every decision records the exact generation it was bound to").
GenerationTracksContent ==
    [][\A t \in Tables : \A x \in DOMAIN image[t] :
           LET old == image[t][x]
               new == image'[t][x]
           IN  /\ new.gen >= old.gen
               /\ (new.gen = old.gen) <=> (Meaning(t, new) = Meaning(t, old))]_vars

\* The generation a publisher is answered is the one its entity has: the planner's
\* preview and the applier never drift (state.hpp on preview_entity_generation).
AcknowledgedGeneration ==
    [][\A t \in Tables : \A x \in DOMAIN image[t] :
           image'[t][x] # image[t][x] =>
               reply' = [status |-> "Ok", gen |-> image'[t][x].gen]]_vars

\* Violated: the index holds exactly the assignments of each subject, so that two
\* images with the same content iterate in the same order (state.hpp on
\* assignments_by_subject).
IndexExact == image.assignments_by_subject = rebuild_indexes(image.assignments)

\* Violated: a scope that was accepted has a chain within max_scope_depth (SEMANTICS.md
\* on the scope tree).
ScopeChainsBounded == \A s \in Defined(image.scopes) : ChainUsable(image, s)

\* Violated: class and subject inheritance stay within max_inheritance_depth
\* (SEMANTICS.md on limits: every depth is bounded).
InheritanceBounded ==
    \A t \in {"classes", "subjects"} : DeeperThan(image[t], MaxInheritance + 1) = {}
=============================================================================
