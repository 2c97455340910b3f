--------------------------- MODULE RegistryProofs ---------------------------
(***************************************************************************)
(* The theorems about the registry: its inductive invariant, the safety    *)
(* properties it implies, the two action properties of generations and     *)
(* where the entries of the index come from.  What each action does to the *)
(* tables is first put in a form that the proofs can use without expanding *)
(* the action.                                                             *)
(***************************************************************************)
EXTENDS RegistryLemmas

(* Entries.                                                                *)

\* An entry of a table.
Entry(e) == {"gen", "def", "by"} \subseteq DOMAIN e /\ e.gen \in Nat

\* What applying a definition does to an entry: the generation reported in advance is the one
\* applied, and it stays exactly when the content is unchanged.
LEMMA AppliedEntry ==
    ASSUME NEW entry, Entry(entry), NEW def, NEW by
    PROVE  LET e == Applied(entry, def, by)
           IN  /\ DOMAIN e = DOMAIN entry
               /\ e.gen \in Nat \ {0}
               /\ e.gen >= entry.gen
               /\ e.gen = PreviewGeneration(entry, def)
               /\ e.gen = entry.gen <=> content_unchanged(entry, def)
               /\ e.def = IF content_unchanged(entry, def) THEN entry.def ELSE def
<1>1. CASE content_unchanged(entry, def)
  BY <1>1 DEF Entry, Applied, PreviewGeneration, content_unchanged
<1>2. CASE ~content_unchanged(entry, def)
  <2> HIDE DEF content_unchanged
  <2> QED BY <1>2 DEF Entry, Applied, PreviewGeneration
<1> QED BY <1>1, <1>2, Zenon

\* A step that replaces one entry of one table and acknowledges its generation.
Replaced(t, x, e) ==
    /\ DOMAIN image' = DOMAIN image
    /\ image'.assignments_by_subject = image.assignments_by_subject
    /\ replayed' = replayed
    /\ \A u \in Tables \ {t} : image'[u] = image[u]
    /\ image'[t] = [image[t] EXCEPT ![x] = e]
    /\ reply' = [status |-> "Ok", gen |-> e.gen]
    /\ e.gen <= MaxGeneration

\* The four definition tables.
Definable == Tables \ {"assignments"}

\* A definition request is refused and changes nothing, or replaces one entry.
LEMMA DefineReplaces ==
    ASSUME Shape, NEW actor, NEW name, name \in Definable, NEW def, NEW status,
           def.id \in DOMAIN image[name], Define(actor, name, def, status)
    PROVE  \/ UNCHANGED <<image, replayed>>
           \/ /\ status = "Ok"
              /\ Replaced(name, def.id, Applied(image[name][def.id], def, Binding(actor)))
<1>1. CASE Refuse(Authorized(actor, status))
  BY <1>1, Zenon DEF Refuse
<1>2. CASE ~Refuse(Authorized(actor, status))
  <2> DEFINE old == image[name][def.id]
             e == Applied(old, def, Binding(actor))
  <2>1. /\ status = "Ok"
        /\ image' = [image EXCEPT ![name] = [image[name] EXCEPT ![def.id] = e]]
        /\ reply' = [status |-> "Ok", gen |-> PreviewGeneration(old, def)]
        /\ replayed' = replayed
        /\ PreviewGeneration(old, def) <= MaxGeneration
    <3>1. Authorized(actor, status) = "Ok" => status = "Ok"
      BY Zenon DEF Authorized
    <3> HIDE DEF e, old
    <3>2. /\ Authorized(actor, status) = "Ok"
          /\ image' = [image EXCEPT ![name][def.id] = Applied(@, def, Binding(actor))]
          /\ reply' = [status |-> "Ok", gen |-> PreviewGeneration(image[name][def.id], def)]
          /\ replayed' = replayed
          /\ PreviewGeneration(image[name][def.id], def) <= MaxGeneration
      BY <1>2, Zenon DEF Define
    <3> QED BY <3>1, <3>2, Zenon DEF e, old
  <2>2. e.gen = PreviewGeneration(old, def)
    <3>1. Entry(old)
      BY Zenon DEF Shape, Entry, Definable
    <3> QED BY <3>1, AppliedEntry
  <2> HIDE DEF e, old
  <2>3. Replaced(name, def.id, e)
    BY <2>1, <2>2, Zenon DEF Replaced, Shape, Definable, Tables
  <2> QED BY <2>1, <2>3, Zenon DEF e, old
<1> QED BY <1>1, <1>2, Zenon

-----------------------------------------------------------------------------
(* What each action does to the tables.                                    *)

\* A step that replaces entry x of definition table t by a redefinition of it.
Revised(t, x) ==
    LET old == image[t][x]
        new == image'[t][x]
    IN  /\ Replaced(t, x, new)
        /\ DOMAIN new = DOMAIN old
        /\ new.gen \in Nat \ {0}
        /\ new.gen >= old.gen
        /\ new.gen = old.gen <=> (old.gen > 0 /\ Content(old.def) = Content(new.def))

\* An accepted definition of a class, and likewise of a scope, a subject and a policy.  A policy
\* with unchanged content keeps the scope generation it was bound to.
ClassStep(d) ==
    /\ DefineClassStatus(image, d) = "Ok"
    /\ Revised("classes", d.id)
    /\ image'.classes[d.id].def = d

ScopeStep(d) ==
    /\ DefineScopeStatus(image, d) = "Ok"
    /\ Revised("scopes", d.id)
    /\ image'.scopes[d.id].def = d

SubjectStep(d) ==
    /\ DefineSubjectStatus(image, d) = "Ok"
    /\ Revised("subjects", d.id)
    /\ image'.subjects[d.id].def = d

PolicyStep(d) ==
    /\ DefinePolicyStatus(image, d) = "Ok"
    /\ Revised("policies", d.id)
    /\ \/ /\ image'.policies[d.id].def = image.policies[d.id].def
          /\ image.policies[d.id].gen > 0
       \/ image'.policies[d.id].def = [d EXCEPT !.scope_generation = image.scopes[d.scope].gen]

\* An accepted definition request revises one entry and, unless the content is unchanged, stores
\* the definition.
LEMMA DefineRevises ==
    ASSUME Shape, NEW actor, NEW name, name \in Definable, NEW def, NEW status,
           def.id \in DOMAIN image[name], Define(actor, name, def, status)
    PROVE  \/ UNCHANGED <<image, replayed>>
           \/ /\ status = "Ok"
              /\ Revised(name, def.id)
              /\ image'[name][def.id].def =
                    IF content_unchanged(image[name][def.id], def) THEN image[name][def.id].def ELSE def
<1> DEFINE old == image[name][def.id]
           e == Applied(old, def, Binding(actor))
<1>1. SUFFICES ASSUME status = "Ok", Replaced(name, def.id, e)
               PROVE  /\ Revised(name, def.id)
                      /\ image'[name][def.id].def =
                            IF content_unchanged(old, def) THEN old.def ELSE def
  BY DefineReplaces
<1>2. /\ DOMAIN e = DOMAIN old
      /\ e.gen \in Nat \ {0}
      /\ e.gen >= old.gen
      /\ e.gen = old.gen <=> content_unchanged(old, def)
      /\ e.def = IF content_unchanged(old, def) THEN old.def ELSE def
  <2>1. Entry(old)
    BY Zenon DEF Shape, Entry, Definable
  <2> QED BY <2>1, AppliedEntry
<1>3. old.gen \in Nat
  BY Zenon DEF Shape, Definable
<1> HIDE DEF e
<1>4. image'[name][def.id] = e
  BY <1>1, Zenon DEF Replaced
<1>5. e.gen = old.gen <=> (old.gen > 0 /\ Content(old.def) = Content(e.def))
  <2>1. CASE content_unchanged(old, def)
    BY <1>2, <2>1, Zenon DEF content_unchanged
  <2>2. CASE ~content_unchanged(old, def)
    BY <1>2, <1>3, <2>2, Zenon DEF content_unchanged
  <2> QED BY <2>1, <2>2, Zenon
<1> HIDE DEF old
<1>6. Revised(name, def.id)
  BY <1>1, <1>2, <1>4, <1>5, Zenon DEF Revised, old
<1> QED BY <1>2, <1>4, <1>6, Zenon

\* Only policies are compared without a part of them.
LEMMA PlainContent ==
    ASSUME NEW d, d \in ClassDefs \cup ScopeDefs \cup SubjectDefs
    PROVE  Content(d) = d
BY DefinitionFields, Zenon DEF Content

\* DefineClass changes nothing or is a ClassStep.
LEMMA ClassSteps ==
    ASSUME Shape, Known, NEW actor, NEW d, d \in ClassDefs, DefineClass(actor, d)
    PROVE  UNCHANGED <<image, replayed>> \/ ClassStep(d)
<1> DEFINE old == image["classes"][d.id]
<1>1. d.id \in DOMAIN image["classes"] /\ "classes" \in Definable
  BY RegistryBounds, Zenon DEF Shape, Definable, Tables
<1>2. \/ UNCHANGED <<image, replayed>>
      \/ /\ DefineClassStatus(image, d) = "Ok"
         /\ Revised("classes", d.id)
         /\ image'["classes"][d.id].def = IF content_unchanged(old, d) THEN old.def ELSE d
  BY <1>1, DefineRevises DEF DefineClass
<1>3. content_unchanged(old, d) => old.def = d
  <2>1. old.gen > 0 => old.def \in ClassDefs
    BY <1>1 DEF Known, FromSubmitted
  <2> QED BY <2>1, PlainContent, Zenon DEF content_unchanged
<1> QED BY <1>2, <1>3, Zenon DEF ClassStep

\* DefineScope changes nothing or is a ScopeStep.
LEMMA ScopeSteps ==
    ASSUME Shape, Known, NEW actor, NEW d, d \in ScopeDefs, DefineScope(actor, d)
    PROVE  UNCHANGED <<image, replayed>> \/ ScopeStep(d)
<1> DEFINE old == image["scopes"][d.id]
<1>1. d.id \in DOMAIN image["scopes"] /\ "scopes" \in Definable
  BY RegistryBounds, Zenon DEF Shape, Definable, Tables
<1>2. \/ UNCHANGED <<image, replayed>>
      \/ /\ DefineScopeStatus(image, d) = "Ok"
         /\ Revised("scopes", d.id)
         /\ image'["scopes"][d.id].def = IF content_unchanged(old, d) THEN old.def ELSE d
  BY <1>1, DefineRevises DEF DefineScope
<1>3. content_unchanged(old, d) => old.def = d
  <2>1. old.gen > 0 => old.def \in ScopeDefs
    BY <1>1 DEF Known, FromSubmitted
  <2> QED BY <2>1, PlainContent, Zenon DEF content_unchanged
<1> QED BY <1>2, <1>3, Zenon DEF ScopeStep

\* DefineSubject changes nothing or is a SubjectStep.
LEMMA SubjectSteps ==
    ASSUME Shape, Known, NEW actor, NEW d, d \in SubjectDefs, DefineSubject(actor, d)
    PROVE  UNCHANGED <<image, replayed>> \/ SubjectStep(d)
<1> DEFINE old == image["subjects"][d.id]
<1>1. d.id \in DOMAIN image["subjects"] /\ "subjects" \in Definable
  BY RegistryBounds, Zenon DEF Shape, Definable, Tables
<1>2. \/ UNCHANGED <<image, replayed>>
      \/ /\ DefineSubjectStatus(image, d) = "Ok"
         /\ Revised("subjects", d.id)
         /\ image'["subjects"][d.id].def = IF content_unchanged(old, d) THEN old.def ELSE d
  BY <1>1, DefineRevises DEF DefineSubject
<1>3. content_unchanged(old, d) => old.def = d
  <2>1. old.gen > 0 => old.def \in SubjectDefs
    BY <1>1 DEF Known, FromSubmitted
  <2> QED BY <2>1, PlainContent, Zenon DEF content_unchanged
<1> QED BY <1>2, <1>3, Zenon DEF SubjectStep

\* DefinePolicy changes nothing or is a PolicyStep.
LEMMA PolicySteps ==
    ASSUME Shape, NEW actor, NEW d, d \in PolicyDefs, DefinePolicy(actor, d)
    PROVE  UNCHANGED <<image, replayed>> \/ PolicyStep(d)
<1> DEFINE stamped == [d EXCEPT !.scope_generation = image.scopes[d.scope].gen]
           old == image["policies"][d.id]
<1>1. stamped.id = d.id
  BY DefinitionFields, Zenon
<1>2. d.id \in DOMAIN image["policies"] /\ "policies" \in Definable
  BY RegistryBounds, Zenon DEF Shape, Definable, Tables
<1>3. Define(actor, "policies", stamped, DefinePolicyStatus(image, d))
  BY Zenon DEF DefinePolicy
<1> HIDE DEF stamped
<1>4. \/ UNCHANGED <<image, replayed>>
      \/ /\ DefinePolicyStatus(image, d) = "Ok"
         /\ Revised("policies", d.id)
         /\ image'["policies"][d.id].def = IF content_unchanged(old, stamped) THEN old.def ELSE stamped
  BY <1>1, <1>2, <1>3, DefineRevises
<1>5. content_unchanged(old, stamped) => old.gen > 0
  BY Zenon DEF content_unchanged
<1> QED BY <1>4, <1>5, Zenon DEF PolicyStep, stamped

\* An identical assignment refreshes its authority binding.
RepublishStep(a) ==
    LET old == image.assignments[a]
        new == image'.assignments[a]
    IN  /\ Replaced("assignments", a, new)
        /\ old.gen > 0
        /\ DOMAIN new = DOMAIN old
        /\ new.gen = old.gen /\ new.def = old.def /\ new.active = old.active

\* An assignment is retired, or was already.
RetireStep(a) ==
    LET old == image.assignments[a]
        new == image'.assignments[a]
    IN  /\ Replaced("assignments", a, new)
        /\ old.gen > 0
        /\ DOMAIN new = DOMAIN old
        /\ new.def = old.def /\ new.active = FALSE
        /\ new.gen = IF old.active THEN old.gen + 1 ELSE old.gen

\* A new or changed assignment is stored, stamped and indexed.
PublishStep(d) ==
    LET old == image.assignments[d.id]
        new == image'.assignments[d.id]
    IN  /\ AssignStatus(image, d) = "Ok"
        /\ ~Unchanged(d.id, Stamped(image, d))
        /\ DOMAIN image' = DOMAIN image
        /\ \A u \in Definable : image'[u] = image[u]
        /\ image'.assignments = [image.assignments EXCEPT ![d.id] = new]
        /\ image'.assignments_by_subject = Insert(image.assignments_by_subject, d.subject, d.id)
        /\ replayed' = Insert(replayed, d.subject, d.id)
        /\ reply' = [status |-> "Ok", gen |-> new.gen]
        /\ DOMAIN new = {"gen", "def", "by", "active"}
        /\ new.gen = old.gen + 1 /\ new.def = Stamped(image, d) /\ new.active = TRUE
        /\ new.gen <= MaxGeneration

\* Assign changes nothing, republishes or publishes.
LEMMA AssignSteps ==
    ASSUME Shape, NEW actor, NEW d, d \in AssignmentDefs, Assign(actor, d)
    PROVE  UNCHANGED <<image, replayed>> \/ RepublishStep(d.id) \/ PublishStep(d)
<1> DEFINE status == AssignStatus(image, d)
           stamped == Stamped(image, d)
           a == d.id
           old == image.assignments[a]
<1>1. a \in Assignments /\ a \in DOMAIN image.assignments /\ "assignments" \in DOMAIN image
  BY RegistryBounds, Zenon DEF Shape, Tables
<1>2. /\ {"gen", "def", "by"} \subseteq DOMAIN old /\ "active" \in DOMAIN old
      /\ old.gen \in Nat /\ old.gen <= MaxGeneration
  BY <1>1, Zenon DEF Shape, Tables
<1>3. Authorized(actor, status) = "Ok" => status = "Ok"
  BY Zenon DEF Authorized
<1> HIDE DEF status, stamped, a, old
<1>4. CASE Refuse(Authorized(actor, status))
  BY <1>4, Zenon DEF Refuse
<1>5. CASE status = "Ok" /\ Republish(actor, a, stamped)
  <2>1. /\ image' = [image EXCEPT !.assignments[a].by = Binding(actor)]
        /\ reply' = [status |-> "Ok", gen |-> old.gen]
        /\ replayed' = replayed
        /\ old.gen > 0
    BY <1>5, Zenon DEF Republish, Unchanged, content_unchanged, old
  <2>2. /\ DOMAIN image' = DOMAIN image
        /\ \A u \in DOMAIN image : u # "assignments" => image'[u] = image[u]
        /\ image'.assignments = [image.assignments EXCEPT ![a] = [old EXCEPT !.by = Binding(actor)]]
    BY <1>1, <2>1, Zenon DEF old
  <2>3. image'.assignments[a] = [old EXCEPT !.by = Binding(actor)]
    BY <1>1, <2>2, Zenon
  <2>4. Replaced("assignments", a, image'.assignments[a])
    <3>1. image'.assignments[a].gen = old.gen
      BY <1>2, <2>3, Zenon
    <3> QED BY <1>2, <2>1, <2>2, <2>3, <3>1, Zenon DEF Replaced, Shape, Tables
  <2>5. /\ DOMAIN image'.assignments[a] = DOMAIN old
        /\ image'.assignments[a].gen = old.gen
        /\ image'.assignments[a].def = old.def
        /\ image'.assignments[a].active = old.active
    BY <1>2, <2>3, Zenon
  <2> QED BY <2>1, <2>4, <2>5, Zenon DEF RepublishStep, old, a
<1>6. CASE status = "Ok" /\ Publish(actor, a, stamped)
  <2> DEFINE e == Reassigned(old, stamped, actor)
  <2>1. /\ ~Unchanged(a, stamped)
        /\ e.gen <= MaxGeneration
        /\ image' = [image EXCEPT !.assignments[a] = e,
                                  !.assignments_by_subject = Insert(@, stamped.subject, a)]
        /\ replayed' = Insert(replayed, stamped.subject, a)
        /\ reply' = [status |-> "Ok", gen |-> e.gen]
    BY <1>6, Zenon DEF Publish, old
  <2>2. /\ e.gen = old.gen + 1 /\ e.def = stamped /\ e.active = TRUE
        /\ DOMAIN e = {"gen", "def", "by", "active"}
    BY Zenon DEF Reassigned
  <2>3. stamped.subject = d.subject
    BY Zenon DEF stamped, Stamped
  <2> HIDE DEF e
  <2>4. /\ DOMAIN image' = DOMAIN image
        /\ \A u \in Definable : image'[u] = image[u]
        /\ image'.assignments = [image.assignments EXCEPT ![a] = e]
        /\ image'.assignments_by_subject = Insert(image.assignments_by_subject, d.subject, a)
    BY <2>1, <2>3, Zenon DEF Shape, Definable, Tables
  <2>5. image'.assignments[a] = e
    BY <1>1, <2>4, Zenon
  <2> QED BY <1>6, <2>1, <2>2, <2>3, <2>4, <2>5, Zenon DEF PublishStep, a, old, stamped, status
<1> QED
  <2>1. \/ Refuse(Authorized(actor, status))
        \/ Authorized(actor, status) = "Ok" /\ (Republish(actor, a, stamped) \/ Publish(actor, a, stamped))
    BY Zenon DEF Assign, status, a, stamped
  <2> QED BY <1>3, <1>4, <1>5, <1>6, <2>1, Zenon DEF a

\* RetireAssignment changes nothing or retires.
LEMMA RetireSteps ==
    ASSUME Shape, NEW actor, NEW a, a \in Assignments, RetireAssignment(actor, a)
    PROVE  UNCHANGED <<image, replayed>> \/ RetireStep(a)
<1> DEFINE status == RetireStatus(image, a)
           old == image.assignments[a]
<1>1. a \in DOMAIN image.assignments /\ "assignments" \in DOMAIN image
  BY Zenon DEF Shape, Tables
<1>2. /\ {"gen", "def", "by"} \subseteq DOMAIN old /\ "active" \in DOMAIN old
      /\ old.gen \in Nat /\ old.active \in BOOLEAN
  BY <1>1, Zenon DEF Shape, Tables
<1>3. Authorized(actor, status) = "Ok" => status = "Ok"
  BY Zenon DEF Authorized
<1>4. status = "Ok" => old.gen > 0
  BY Zenon DEF RetireStatus, Defined
<1> HIDE DEF status, old
<1>5. CASE Refuse(Authorized(actor, status))
  BY <1>5, Zenon DEF Refuse
<1>6. CASE ~Refuse(Authorized(actor, status))
  <2>1. /\ Authorized(actor, status) = "Ok"
        /\ image' = [image EXCEPT !.assignments[a] = Retired(@)]
        /\ reply' = [status |-> "Ok", gen |-> Retired(old).gen]
        /\ replayed' = replayed
        /\ Retired(old).gen <= MaxGeneration
    BY <1>6, Zenon DEF RetireAssignment, status, old
  <2>2. /\ DOMAIN image' = DOMAIN image
        /\ \A u \in DOMAIN image : u # "assignments" => image'[u] = image[u]
        /\ image'.assignments = [image.assignments EXCEPT ![a] = Retired(old)]
    BY <1>1, <2>1, Zenon DEF old
  <2>3. image'.assignments[a] = Retired(old)
    BY <1>1, <2>2, Zenon
  <2>4. /\ DOMAIN Retired(old) = DOMAIN old
        /\ Retired(old).def = old.def
        /\ Retired(old).active = FALSE
        /\ Retired(old).gen = IF old.active THEN old.gen + 1 ELSE old.gen
    BY <1>2, Zenon DEF Retired
  <2>5. Replaced("assignments", a, Retired(old))
    BY <2>1, <2>2, Zenon DEF Replaced, Shape, Tables
  <2> QED BY <1>3, <1>4, <2>1, <2>3, <2>4, <2>5, Zenon DEF RetireStep, old
<1> QED BY <1>5, <1>6, Zenon

\* What Checkpoint and Reopen do to the tables and the two indexes.
CheckpointStep == image' = image /\ replayed' = rebuild_indexes(image.assignments)

ReopenStep ==
    /\ DOMAIN image' = DOMAIN image
    /\ \A t \in Tables : image'[t] = image[t]
    /\ image'.assignments_by_subject = replayed
    /\ replayed' = replayed

\* Every step of the registry is one of these kinds.
LEMMA StepKinds ==
    ASSUME Shape, Known, [Next]_vars
    PROVE  \/ UNCHANGED <<image, replayed>>
           \/ \E d \in ClassDefs : ClassStep(d)
           \/ \E d \in ScopeDefs : ScopeStep(d)
           \/ \E d \in PolicyDefs : PolicyStep(d)
           \/ \E d \in SubjectDefs : SubjectStep(d)
           \/ \E d \in AssignmentDefs : RepublishStep(d.id)
           \/ \E d \in AssignmentDefs : PublishStep(d)
           \/ \E a \in Assignments : RetireStep(a)
           \/ CheckpointStep
           \/ ReopenStep
<1>1. CASE UNCHANGED vars
  BY <1>1, Zenon DEF vars
<1>2. CASE \E i \in Incarnations : \E d \in ClassDefs : DefineClass(i, d)
  BY <1>2, ClassSteps, Zenon
<1>3. CASE \E i \in Incarnations : \E d \in ScopeDefs : DefineScope(i, d)
  BY <1>3, ScopeSteps, Zenon
<1>4. CASE \E i \in Incarnations : \E d \in PolicyDefs : DefinePolicy(i, d)
  BY <1>4, PolicySteps, Zenon
<1>5. CASE \E i \in Incarnations : \E d \in SubjectDefs : DefineSubject(i, d)
  BY <1>5, SubjectSteps, Zenon
<1>6. CASE \E i \in Incarnations : \E d \in AssignmentDefs : Assign(i, d)
  BY <1>6, AssignSteps, Zenon
<1>7. CASE \E i \in Incarnations : \E a \in Assignments : RetireAssignment(i, a)
  BY <1>7, RetireSteps, Zenon
<1>8. CASE \E i \in Incarnations : Grant(i) \/ Fence(i)
  BY <1>8, Zenon DEF Grant, Fence
<1>9. CASE AdvanceEpoch
  BY <1>9, Zenon DEF AdvanceEpoch
<1>10. CASE Checkpoint
  BY <1>10, Zenon DEF Checkpoint, CheckpointStep
<1>11. CASE Reopen
  BY <1>11, Zenon DEF Reopen, ReopenStep, Shape, Tables
<1> QED
  BY <1>1, <1>2, <1>3, <1>4, <1>5, <1>6, <1>7, <1>8, <1>9, <1>10, <1>11, Zenon DEF Next

-----------------------------------------------------------------------------
(* What validation has checked of a request that is accepted.              *)

\* validate_inheritance accepts only defined parents that do not lead back.
LEMMA InheritanceAccepted ==
    ASSUME NEW table, NEW d, InheritanceStatus(table, d) = "Ok"
    PROVE  /\ d.parents \subseteq Defined(table)
           /\ d.id \notin Reachable([table EXCEPT ![d.id] = Undefined], d.parents)
<1> DEFINE reached == Reachable([table EXCEPT ![d.id] = Undefined], d.parents)
           known == Defined(table)
<1>1. CASE ~(d.parents \subseteq known)
  <2> HIDE DEF known, reached
  <2> QED BY <1>1, Zenon DEF InheritanceStatus, known, reached
<1>2. CASE d.parents \subseteq known /\ d.id \in reached
  BY <1>2, Zenon DEF InheritanceStatus
<1> QED BY <1>1, <1>2, Zenon

\* An accepted class has accepted parents and a rank of its own, or is stored already.
LEMMA ClassAccepted ==
    ASSUME NEW i, NEW d, DefineClassStatus(i, d) = "Ok"
    PROVE  /\ InheritanceStatus(i.classes, d) = "Ok"
           /\ \/ i.classes[d.id].def = d
              \/ \A c \in Defined(i.classes) \ {d.id} : i.classes[c].def.rank # d.rank
BY Zenon DEF DefineClassStatus

\* An accepted scope names what is defined and has an attachable parent.
LEMMA ScopeAccepted ==
    ASSUME NEW i, NEW d, DefineScopeStatus(i, d) = "Ok"
    PROVE  /\ d.unknown_default \in Defined(i.classes) \cup {Absent}
           /\ d.parent \in Defined(i.scopes) \cup {Absent}
           /\ Attachable(i, d.id, d.parent, MaxScopeDepth)
BY Zenon DEF DefineScopeStatus, Attachable

\* An accepted policy names what is defined.
LEMMA PolicyAccepted ==
    ASSUME NEW i, NEW d, DefinePolicyStatus(i, d) = "Ok"
    PROVE  /\ d.scope \in Defined(i.scopes)
           /\ d.visible_classes \subseteq Defined(i.classes)
           /\ d.unknown_default \in Defined(i.classes) \cup {Absent}
BY Zenon DEF DefinePolicyStatus

\* An accepted subject has accepted parents.
LEMMA SubjectAccepted ==
    ASSUME NEW i, NEW d, DefineSubjectStatus(i, d) = "Ok"
    PROVE  InheritanceStatus(i.subjects, d) = "Ok"
BY Zenon DEF DefineSubjectStatus

\* An accepted assignment names what is defined.
LEMMA AssignmentAccepted ==
    ASSUME NEW i, NEW d, AssignStatus(i, d) = "Ok"
    PROVE  /\ d.subject \in Defined(i.subjects)
           /\ d.scope \in Defined(i.scopes)
           /\ d.cls \in Defined(i.classes)
           /\ d.policy \in Defined(i.policies) \cup {Absent}
           /\ d.displaces \in Defined(i.classes) \cup {Absent}
BY Zenon DEF AssignStatus

-----------------------------------------------------------------------------
(* Invariance of the shape.                                                *)

\* Replacing one entry by a well-formed one keeps Shape.
LEMMA ReplacedShape ==
    ASSUME Shape, NEW t, t \in Tables, NEW x, x \in DOMAIN image[t],
           Replaced(t, x, image'[t][x]),
           {"gen", "def", "by"} \subseteq DOMAIN image'[t][x],
           image'[t][x].gen \in Nat,
           t = "assignments" =>
               /\ "active" \in DOMAIN image'[t][x]
               /\ image'[t][x].active \in BOOLEAN
               /\ image'[t][x].active => image'[t][x].gen > 0
    PROVE  Shape'
<1> DEFINE e == image'[t][x]
<1>1. /\ DOMAIN image' = DOMAIN image
      /\ image'.assignments_by_subject = image.assignments_by_subject
      /\ replayed' = replayed
      /\ \A u \in Tables \ {t} : image'[u] = image[u]
      /\ image'[t] = [image[t] EXCEPT ![x] = e]
      /\ e.gen <= MaxGeneration
  BY Zenon DEF Replaced
<1> HIDE DEF e
<1>2. \A u \in Tables : DOMAIN image'[u] = DOMAIN image[u]
  BY <1>1, Zenon
<1>3. ASSUME NEW u \in Tables, NEW y \in DOMAIN image[u]
      PROVE  image'[u][y] = IF u = t /\ y = x THEN e ELSE image[u][y]
  BY <1>1, Zenon
<1>4. \A u \in Tables : \A y \in DOMAIN image'[u] :
          /\ {"gen", "def", "by"} \subseteq DOMAIN image'[u][y]
          /\ image'[u][y].gen \in Nat /\ image'[u][y].gen <= MaxGeneration
  BY <1>1, <1>2, <1>3 DEF Shape, e
<1>5. \A a \in Assignments :
          /\ "active" \in DOMAIN image'.assignments[a]
          /\ image'.assignments[a].active \in BOOLEAN
          /\ image'.assignments[a].active => image'.assignments[a].gen > 0
  <2> SUFFICES ASSUME NEW a \in Assignments
               PROVE  /\ "active" \in DOMAIN image'.assignments[a]
                      /\ image'.assignments[a].active \in BOOLEAN
                      /\ image'.assignments[a].active => image'.assignments[a].gen > 0
    BY Zenon
  <2>1. a \in DOMAIN image.assignments /\ "assignments" \in Tables
    BY Zenon DEF Shape, Tables
  <2>2. CASE t = "assignments" /\ a = x
    BY <2>2, Zenon
  <2>3. CASE ~(t = "assignments" /\ a = x)
    <3>1. image'.assignments[a] = image.assignments[a]
      BY <1>3, <2>1, <2>3, Zenon
    <3> QED BY <3>1, Zenon DEF Shape
  <2> QED BY <2>2, <2>3, Zenon
<1> QED BY <1>1, <1>2, <1>4, <1>5, Zenon DEF Shape, Tables

\* A revision keeps Shape.
LEMMA RevisedShape ==
    ASSUME Shape, NEW t, t \in Definable, NEW x, x \in DOMAIN image[t], Revised(t, x)
    PROVE  Shape'
<1>1. t \in Tables /\ t # "assignments"
  BY Zenon DEF Definable
<1>2. Replaced(t, x, image'[t][x]) /\ DOMAIN image'[t][x] = DOMAIN image[t][x] /\ image'[t][x].gen \in Nat
  BY Zenon DEF Revised
<1>3. {"gen", "def", "by"} \subseteq DOMAIN image[t][x]
  BY <1>1, Zenon DEF Shape
<1> QED BY <1>1, <1>2, <1>3, ReplacedShape, Zenon

\* Every step keeps the types.
LEMMA ShapeStep ==
    ASSUME Shape, Known, [Next]_vars
    PROVE  Shape'
<1>1. CASE UNCHANGED <<image, replayed>>
  BY <1>1, Zenon DEF Shape
<1>2. ASSUME NEW d \in ClassDefs, ClassStep(d) PROVE Shape'
  <2>1. "classes" \in Definable /\ d.id \in DOMAIN image["classes"]
    BY RegistryBounds, Zenon DEF Shape, Definable, Tables
  <2> QED BY <1>2, <2>1, RevisedShape, Zenon DEF ClassStep
<1>3. ASSUME NEW d \in ScopeDefs, ScopeStep(d) PROVE Shape'
  <2>1. "scopes" \in Definable /\ d.id \in DOMAIN image["scopes"]
    BY RegistryBounds, Zenon DEF Shape, Definable, Tables
  <2> QED BY <1>3, <2>1, RevisedShape, Zenon DEF ScopeStep
<1>4. ASSUME NEW d \in PolicyDefs, PolicyStep(d) PROVE Shape'
  <2>1. "policies" \in Definable /\ d.id \in DOMAIN image["policies"]
    BY RegistryBounds, Zenon DEF Shape, Definable, Tables
  <2> QED BY <1>4, <2>1, RevisedShape, Zenon DEF PolicyStep
<1>5. ASSUME NEW d \in SubjectDefs, SubjectStep(d) PROVE Shape'
  <2>1. "subjects" \in Definable /\ d.id \in DOMAIN image["subjects"]
    BY RegistryBounds, Zenon DEF Shape, Definable, Tables
  <2> QED BY <1>5, <2>1, RevisedShape, Zenon DEF SubjectStep
<1>6. ASSUME NEW a \in Assignments, RepublishStep(a) \/ RetireStep(a) PROVE Shape'
  <2>1. "assignments" \in Tables /\ a \in DOMAIN image["assignments"]
    BY Zenon DEF Shape, Tables
  <2>2. /\ {"gen", "def", "by"} \subseteq DOMAIN image["assignments"][a]
        /\ image["assignments"][a].gen \in Nat
        /\ "active" \in DOMAIN image["assignments"][a]
        /\ image["assignments"][a].active \in BOOLEAN
    BY <2>1, Zenon DEF Shape
  <2>3. /\ Replaced("assignments", a, image'["assignments"][a])
        /\ DOMAIN image'["assignments"][a] = DOMAIN image["assignments"][a]
        /\ image'["assignments"][a].gen \in Nat \ {0}
        /\ image'["assignments"][a].active \in BOOLEAN
    <3>1. CASE RepublishStep(a)
      BY <2>2, <3>1 DEF RepublishStep
    <3>2. CASE RetireStep(a)
      <4>1. /\ Replaced("assignments", a, image'["assignments"][a])
            /\ DOMAIN image'["assignments"][a] = DOMAIN image["assignments"][a]
            /\ image'["assignments"][a].active \in BOOLEAN
        BY <3>2, Zenon DEF RetireStep
      <4>2. image'["assignments"][a].gen \in Nat \ {0}
        BY <2>2, <3>2 DEF RetireStep
      <4> QED BY <4>1, <4>2, Zenon
    <3> QED BY <1>6, <3>1, <3>2, Zenon
  <2> QED BY <2>1, <2>2, <2>3, ReplacedShape
<1>7. ASSUME NEW d \in AssignmentDefs, PublishStep(d) PROVE Shape'
  <2>1. d.id \in Assignments /\ d.subject \in Subjects
    BY RegistryBounds, Zenon
  <2>2. image.assignments[d.id].gen \in Nat
    BY <2>1, Zenon DEF Shape, Tables
  <2>3. /\ DOMAIN image' = DOMAIN image
        /\ \A u \in Definable : image'[u] = image[u]
        /\ DOMAIN image'.assignments = Assignments
    BY <1>7, Zenon DEF PublishStep, Shape
  <2>4. \A a \in Assignments :
            /\ {"gen", "def", "by", "active"} \subseteq DOMAIN image'.assignments[a]
            /\ image'.assignments[a].gen \in Nat /\ image'.assignments[a].gen <= MaxGeneration
            /\ image'.assignments[a].active \in BOOLEAN
            /\ image'.assignments[a].active => image'.assignments[a].gen > 0
    <3> SUFFICES ASSUME NEW a \in Assignments
                 PROVE  /\ {"gen", "def", "by", "active"} \subseteq DOMAIN image'.assignments[a]
                        /\ image'.assignments[a].gen \in Nat /\ image'.assignments[a].gen <= MaxGeneration
                        /\ image'.assignments[a].active \in BOOLEAN
                        /\ image'.assignments[a].active => image'.assignments[a].gen > 0
      BY Zenon
    <3>1. CASE a = d.id
      <4>1. image'.assignments[d.id].active \in BOOLEAN
        BY <1>7, Zenon DEF PublishStep
      <4>2. /\ image'.assignments[d.id].gen \in Nat /\ image'.assignments[d.id].gen > 0
            /\ image'.assignments[d.id].gen <= MaxGeneration
            /\ {"gen", "def", "by", "active"} \subseteq DOMAIN image'.assignments[d.id]
        BY <1>7, <2>2 DEF PublishStep
      <4> QED BY <3>1, <4>1, <4>2, Zenon
    <3>2. CASE a # d.id
      <4>1. image'.assignments[a] = image.assignments[a]
        BY <1>7, <3>2, Zenon DEF PublishStep, Shape
      <4> QED BY <4>1 DEF Shape, Tables
    <3> QED BY <3>1, <3>2, Zenon
  <2>5. /\ image'.assignments_by_subject \in [Subjects -> [Assignments -> Nat]]
        /\ replayed' \in [Subjects -> [Assignments -> Nat]]
    BY <1>7, <2>1 DEF PublishStep, Insert, Shape
  <2>6. \A u \in Tables : u \in Definable \/ u = "assignments"
    BY Zenon DEF Definable
  <2>7. \A u \in Tables : \A x \in DOMAIN image'[u] :
            /\ {"gen", "def", "by"} \subseteq DOMAIN image'[u][x]
            /\ image'[u][x].gen \in Nat /\ image'[u][x].gen <= MaxGeneration
    BY <2>3, <2>4, <2>6 DEF Shape
  <2> QED BY <2>3, <2>4, <2>5, <2>7, Zenon DEF Shape, Definable, Tables
<1>8. CASE CheckpointStep
  <2>1. replayed' \in [Subjects -> [Assignments -> Nat]]
    BY <1>8, Zenon DEF CheckpointStep, rebuild_indexes
  <2> QED BY <1>8, <2>1, Zenon DEF CheckpointStep, Shape
<1>9. CASE ReopenStep
  BY <1>9 DEF ReopenStep, Shape, Tables
<1> QED
  <2>1. \A d \in AssignmentDefs : d.id \in Assignments
    BY RegistryBounds, Zenon
  <2> QED BY <1>1, <1>2, <1>3, <1>4, <1>5, <1>6, <1>7, <1>8, <1>9, <2>1, StepKinds

\* No generation ever goes back.
LEMMA GenerationsGrow ==
    ASSUME Shape, Known, [Next]_vars
    PROVE  \A t \in Tables : /\ DOMAIN image'[t] = DOMAIN image[t]
                             /\ \A x \in DOMAIN image[t] : image'[t][x].gen >= image[t][x].gen
<1> DEFINE Grows == \A t \in Tables :
                        /\ DOMAIN image'[t] = DOMAIN image[t]
                        /\ \A x \in DOMAIN image[t] : image'[t][x].gen >= image[t][x].gen
<1>0. \A t \in Tables : \A x \in DOMAIN image[t] : image[t][x].gen \in Nat
  BY Zenon DEF Shape
<1>1. ASSUME \A t \in Tables : image'[t] = image[t] PROVE Grows
  BY <1>0, <1>1
<1>2. ASSUME NEW t, t \in Tables, NEW x, Replaced(t, x, image'[t][x]), image'[t][x].gen >= image[t][x].gen
      PROVE  Grows
  BY <1>0, <1>2 DEF Replaced
<1>3. ASSUME NEW d \in ClassDefs, ClassStep(d) PROVE Grows
  BY <1>2, <1>3, Zenon DEF ClassStep, Revised, Tables
<1>4. ASSUME NEW d \in ScopeDefs, ScopeStep(d) PROVE Grows
  BY <1>2, <1>4, Zenon DEF ScopeStep, Revised, Tables
<1>5. ASSUME NEW d \in PolicyDefs, PolicyStep(d) PROVE Grows
  BY <1>2, <1>5, Zenon DEF PolicyStep, Revised, Tables
<1>6. ASSUME NEW d \in SubjectDefs, SubjectStep(d) PROVE Grows
  BY <1>2, <1>6, Zenon DEF SubjectStep, Revised, Tables
<1>7. ASSUME NEW a \in Assignments, RepublishStep(a) \/ RetireStep(a) PROVE Grows
  <2>1. image.assignments[a].gen \in Nat
    BY Zenon DEF Shape, Tables
  <2>2. image'["assignments"][a].gen >= image["assignments"][a].gen
    BY <1>7, <2>1 DEF RepublishStep, RetireStep
  <2>3. Replaced("assignments", a, image'["assignments"][a])
    BY <1>7, Zenon DEF RepublishStep, RetireStep
  <2> QED BY <1>2, <2>2, <2>3, Zenon DEF Tables
<1>8. ASSUME NEW d \in AssignmentDefs, PublishStep(d) PROVE Grows
  <2>1. d.id \in DOMAIN image.assignments /\ image.assignments[d.id].gen \in Nat
    BY RegistryBounds, Zenon DEF Shape, Tables
  <2>2. /\ DOMAIN image'["assignments"] = DOMAIN image["assignments"]
        /\ \A x \in DOMAIN image["assignments"] : image'["assignments"][x].gen >= image["assignments"][x].gen
    BY <1>0, <1>8, <2>1 DEF PublishStep, Tables
  <2>3. \A u \in Definable : image'[u] = image[u]
    BY <1>8, Zenon DEF PublishStep
  <2> QED BY <1>0, <2>2, <2>3 DEF Definable
<1>9. ASSUME CheckpointStep PROVE Grows
  BY <1>1, <1>9, Zenon DEF CheckpointStep
<1>10. ASSUME ReopenStep PROVE Grows
  BY <1>1, <1>10, Zenon DEF ReopenStep
<1>11. ASSUME UNCHANGED <<image, replayed>> PROVE Grows
  BY <1>1, <1>11, Zenon
<1> QED
  <2>1. \A d \in AssignmentDefs : d.id \in Assignments
    BY RegistryBounds, Zenon
  <2> HIDE DEF Grows
  <2>2. Grows
    BY <1>3, <1>4, <1>5, <1>6, <1>7, <1>8, <1>9, <1>10, <1>11, <2>1, StepKinds
  <2> QED BY <2>2, Zenon DEF Grows

\* Replacing an entry leaves the other tables alone.
LEMMA ReplacedLeaves ==
    ASSUME NEW t, NEW x, NEW e, Replaced(t, x, e), NEW u, u \in Tables, u # t
    PROVE  image'[u] = image[u]
BY Zenon DEF Replaced

\* What a step may do to each table.
LEMMA TableSteps ==
    ASSUME Shape, Known, [Next]_vars
    PROVE  /\ image'.classes = image.classes \/ \E d \in ClassDefs : ClassStep(d)
           /\ image'.scopes = image.scopes \/ \E d \in ScopeDefs : ScopeStep(d)
           /\ image'.policies = image.policies \/ \E d \in PolicyDefs : PolicyStep(d)
           /\ image'.subjects = image.subjects \/ \E d \in SubjectDefs : SubjectStep(d)
           /\ \/ image'.assignments = image.assignments
              \/ \E a \in Assignments : RepublishStep(a) \/ RetireStep(a)
              \/ \E d \in AssignmentDefs : PublishStep(d)
<1> DEFINE Same(t) == image'[t] = image[t]
           Others(t) == \A u \in Tables : u = t \/ Same(u)
           C == \E d \in ClassDefs : ClassStep(d)
           S == \E d \in ScopeDefs : ScopeStep(d)
           P == \E d \in PolicyDefs : PolicyStep(d)
           J == \E d \in SubjectDefs : SubjectStep(d)
           A == \/ \E a \in Assignments : RepublishStep(a) \/ RetireStep(a)
                \/ \E d \in AssignmentDefs : PublishStep(d)
<1>1. C => Others("classes")
  BY ReplacedLeaves DEF ClassStep, Revised
<1>2. S => Others("scopes")
  BY ReplacedLeaves DEF ScopeStep, Revised
<1>3. P => Others("policies")
  BY ReplacedLeaves DEF PolicyStep, Revised
<1>4. J => Others("subjects")
  BY ReplacedLeaves DEF SubjectStep, Revised
<1>5. A => Others("assignments")
  <2>1. ASSUME NEW a \in Assignments, RepublishStep(a) \/ RetireStep(a) PROVE Others("assignments")
    <3>1. \E e : Replaced("assignments", a, e)
      BY <2>1, Zenon DEF RepublishStep, RetireStep
    <3> QED BY <3>1, ReplacedLeaves
  <2>2. ASSUME NEW d \in AssignmentDefs, PublishStep(d) PROVE Others("assignments")
    BY <2>2, Zenon DEF PublishStep, Definable
  <2> HIDE DEF Others
  <2> QED BY <2>1, <2>2, Zenon
<1>6. (UNCHANGED <<image, replayed>> \/ CheckpointStep \/ ReopenStep) => \A u \in Tables : Same(u)
  BY Zenon DEF CheckpointStep, ReopenStep
<1>7. C \/ S \/ P \/ J \/ A \/ UNCHANGED <<image, replayed>> \/ CheckpointStep \/ ReopenStep
  <2>1. \A d \in AssignmentDefs : d.id \in Assignments
    BY RegistryBounds, Zenon
  <2> QED BY <2>1, StepKinds, Zenon
<1>8. \/ C /\ Others("classes")
      \/ S /\ Others("scopes")
      \/ P /\ Others("policies")
      \/ J /\ Others("subjects")
      \/ A /\ Others("assignments")
      \/ \A u \in Tables : Same(u)
  <2> HIDE DEF C, S, P, J, A, Others, Same
  <2> QED BY <1>1, <1>2, <1>3, <1>4, <1>5, <1>6, <1>7, Zenon
<1> HIDE DEF C, S, P, J, A
<1>9. /\ Same("classes") \/ C
      /\ Same("scopes") \/ S
      /\ Same("policies") \/ P
      /\ Same("subjects") \/ J
      /\ Same("assignments") \/ A
  <2> HIDE DEF Same
  <2> QED BY <1>8, Zenon DEF Tables
<1> QED BY <1>9, Zenon DEF C, S, P, J, A

\* A revision that stores a submitted definition keeps FromSubmitted.
LEMMA SubmittedKept ==
    ASSUME NEW t, NEW k, Revised(t, k), k \in DOMAIN image[t], NEW defs, FromSubmitted(image[t], defs),
           image'[t][k].def \in defs, image'[t][k].def.id = k
    PROVE  FromSubmitted(image'[t], defs)
<1>1. /\ DOMAIN image'[t] = DOMAIN image[t]
      /\ \A x \in DOMAIN image[t] : x # k => image'[t][x] = image[t][x]
      /\ image'[t][k].gen \in Nat \ {0}
  BY Zenon DEF Revised, Replaced
<1>2. ASSUME NEW x \in DOMAIN image'[t]
      PROVE  IF image'[t][x].gen = 0 THEN image'[t][x].def = Absent
             ELSE image'[t][x].def \in defs /\ image'[t][x].def.id = x
  <2>1. CASE x = k
    BY <1>1, <2>1, Zenon
  <2>2. CASE x # k
    BY <1>1, <2>2, Zenon DEF FromSubmitted
  <2> QED BY <2>1, <2>2, Zenon
<1> QED BY <1>2, Zenon DEF FromSubmitted

\* An assignment says what it said, or it has just been published.
LEMMA AssignmentEntries ==
    ASSUME Shape, Known, [Next]_vars, NEW a, a \in Assignments
    PROVE  \/ /\ image'.assignments[a].def = image.assignments[a].def
              /\ a \in Defined(image'.assignments) => a \in Defined(image.assignments)
           \/ \E d \in AssignmentDefs : d.id = a /\ PublishStep(d)
<1> DEFINE old == image.assignments[a]
           new == image'.assignments[a]
<1>0. a \in DOMAIN image.assignments /\ a \in DOMAIN image'.assignments /\ old.gen \in Nat
  BY ShapeStep, Zenon DEF Shape, Tables
<1>1. CASE image'.assignments = image.assignments
  BY <1>1, Zenon
<1>2. ASSUME NEW b \in Assignments, RepublishStep(b) \/ RetireStep(b)
      PROVE  new.def = old.def /\ (a \in Defined(image'.assignments) => a \in Defined(image.assignments))
  <2>1. CASE a = b
    BY <1>0, <1>2, <2>1, Zenon DEF RepublishStep, RetireStep, Defined
  <2>2. CASE a # b
    <3>1. \E e : Replaced("assignments", b, e)
      BY <1>2, Zenon DEF RepublishStep, RetireStep
    <3>2. image'.assignments[a] = image.assignments[a]
      BY <1>0, <2>2, <3>1, Zenon DEF Replaced
    <3> QED BY <1>0, <3>2, Zenon DEF Defined
  <2> QED BY <2>1, <2>2, Zenon
<1>3. ASSUME NEW d \in AssignmentDefs, PublishStep(d), d.id # a
      PROVE  new.def = old.def /\ (a \in Defined(image'.assignments) => a \in Defined(image.assignments))
  <2>1. new = old
    BY <1>0, <1>3, Zenon DEF PublishStep
  <2> QED BY <1>0, <2>1, Zenon DEF Defined
<1> QED BY <1>1, <1>2, <1>3, TableSteps, Zenon

\* Every step keeps Known.
LEMMA KnownStep ==
    ASSUME Shape, Known, [Next]_vars
    PROVE  Known'
<1>1. FromSubmitted(image'.classes, ClassDefs)
  <2>1. ASSUME NEW d \in ClassDefs, ClassStep(d) PROVE FromSubmitted(image'.classes, ClassDefs)
    BY <2>1, SubmittedKept, RegistryBounds DEF ClassStep, Known, Shape
  <2> QED BY <2>1, TableSteps, Zenon DEF Known
<1>2. FromSubmitted(image'.scopes, ScopeDefs)
  <2>1. ASSUME NEW d \in ScopeDefs, ScopeStep(d) PROVE FromSubmitted(image'.scopes, ScopeDefs)
    BY <2>1, SubmittedKept, RegistryBounds DEF ScopeStep, Known, Shape
  <2> QED BY <2>1, TableSteps, Zenon DEF Known
<1>3. FromSubmitted(image'.subjects, SubjectDefs)
  <2>1. ASSUME NEW d \in SubjectDefs, SubjectStep(d) PROVE FromSubmitted(image'.subjects, SubjectDefs)
    BY <2>1, SubmittedKept, RegistryBounds DEF SubjectStep, Known, Shape
  <2> QED BY <2>1, TableSteps, Zenon DEF Known
<1>4. FromSubmitted(image'.policies, StampedPolicies)
  <2>1. ASSUME NEW d \in PolicyDefs, PolicyStep(d) PROVE FromSubmitted(image'.policies, StampedPolicies)
    <3> DEFINE new == image'["policies"][d.id].def
    <3>1. d.id \in DOMAIN image["policies"] /\ image.scopes[d.scope].gen \in 0 .. MaxGeneration
      BY RegistryBounds DEF Shape, Tables
    <3>2. new \in StampedPolicies /\ new.id = d.id
      <4>1. CASE new = image.policies[d.id].def /\ image.policies[d.id].gen > 0
        BY <3>1, <4>1 DEF Known, FromSubmitted
      <4>2. CASE new = [d EXCEPT !.scope_generation = image.scopes[d.scope].gen]
        BY <3>1, <4>2, DefinitionFields DEF StampedPolicies
      <4> QED BY <2>1, <4>1, <4>2, Zenon DEF PolicyStep
    <3> QED BY <2>1, <3>1, <3>2, SubmittedKept, Zenon DEF PolicyStep, Known
  <2> QED BY <2>1, TableSteps, Zenon DEF Known
<1>5. ASSUME NEW a \in Defined(image'.assignments) PROVE NamesKnown(image'.assignments[a].def)
  <2>1. a \in Assignments
    BY ShapeStep, Zenon DEF Defined, Shape
  <2>2. CASE image'.assignments[a].def = image.assignments[a].def /\ a \in Defined(image.assignments)
    BY <2>2, Zenon DEF Known
  <2>3. ASSUME NEW d \in AssignmentDefs, d.id = a, PublishStep(d)
        PROVE  NamesKnown(image'.assignments[a].def)
    <3>1. image'.assignments[a].def = Stamped(image, d) /\ AssignStatus(image, d) = "Ok"
      BY <2>3, Zenon DEF PublishStep
    <3>2. d.scope \in Scopes /\ d.cls \in Classes /\ d.policy \in Policies \cup {Absent}
      BY <3>1, AssignmentAccepted, Zenon DEF Defined, Shape
    <3> QED BY <3>1, <3>2, RegistryBounds DEF NamesKnown, Stamped
  <2> QED BY <1>5, <2>1, <2>2, <2>3, AssignmentEntries, Zenon
<1> QED BY <1>1, <1>2, <1>3, <1>4, <1>5, Zenon DEF Known

-----------------------------------------------------------------------------
(* References.                                                             *)

\* Together they are ReferencesResolve.
LEMMA ResolveIs == AllResolve <=> ReferencesResolve
<1>1. (ParentsDefined(image.classes) /\ ParentsDefined(image.subjects)) <=>
        \A t \in {"classes", "subjects"} : \A x \in Defined(image[t]) :
              image[t][x].def.parents \subseteq Defined(image[t])
  BY Zenon DEF ParentsDefined
<1> QED
  BY <1>1, Zenon DEF AllResolve, ReferencesResolve, ScopesResolve, PoliciesResolve, AssignmentsResolve, ClassOrNone

\* What is defined stays defined: there is no way to delete an entity.
LEMMA DefinedStays ==
    ASSUME Shape, Known, [Next]_vars
    PROVE  \A t \in Tables : Defined(image[t]) \subseteq Defined(image'[t])
<1> SUFFICES ASSUME NEW t \in Tables, NEW x \in Defined(image[t]) PROVE x \in Defined(image'[t])
  BY Zenon
<1>1. DOMAIN image'[t] = DOMAIN image[t] /\ \A y \in DOMAIN image[t] : image'[t][y].gen >= image[t][y].gen
  BY GenerationsGrow, Zenon
<1>2. x \in DOMAIN image[t] /\ image[t][x].gen > 0
  BY Zenon DEF Defined
<1>3. image[t][x].gen \in Nat /\ image'[t][x].gen \in Nat
  BY <1>1, <1>2, ShapeStep, Zenon DEF Shape
<1> QED BY <1>1, <1>2, <1>3 DEF Defined

\* A redefinition that validate_inheritance accepts keeps every inherits_from list defined.
LEMMA ParentsKept ==
    ASSUME NEW t, NEW d, Revised(t, d.id), image'[t][d.id].def = d,
           InheritanceStatus(image[t], d) = "Ok", Defined(image[t]) \subseteq Defined(image'[t]),
           ParentsDefined(image[t])
    PROVE  ParentsDefined(image'[t])
<1>1. /\ DOMAIN image'[t] = DOMAIN image[t]
      /\ \A x \in DOMAIN image[t] : x # d.id => image'[t][x] = image[t][x]
  BY Zenon DEF Revised, Replaced
<1>2. d.parents \subseteq Defined(image[t])
  BY InheritanceAccepted, Zenon
<1> QED BY <1>1, <1>2, Zenon DEF ParentsDefined, Defined

\* Every step keeps the inherits_from lists defined.
LEMMA ParentsStep ==
    ASSUME Shape, Known, [Next]_vars, ParentsDefined(image.classes), ParentsDefined(image.subjects)
    PROVE  ParentsDefined(image'.classes) /\ ParentsDefined(image'.subjects)
<1>0. Defined(image.classes) \subseteq Defined(image'.classes) /\ Defined(image.subjects) \subseteq Defined(image'.subjects)
  BY DefinedStays, Zenon DEF Tables
<1>1. ASSUME NEW d \in ClassDefs, ClassStep(d) PROVE ParentsDefined(image'.classes)
  BY <1>0, <1>1, ClassAccepted, ParentsKept, Zenon DEF ClassStep
<1>2. ASSUME NEW d \in SubjectDefs, SubjectStep(d) PROVE ParentsDefined(image'.subjects)
  BY <1>0, <1>2, SubjectAccepted, ParentsKept, Zenon DEF SubjectStep
<1> QED BY <1>1, <1>2, TableSteps, Zenon

\* Every step keeps the parents and the defaults of scopes defined.
LEMMA ScopesStep ==
    ASSUME Shape, Known, [Next]_vars, ScopesResolve
    PROVE  ScopesResolve'
<1>0. Defined(image.classes) \subseteq Defined(image'.classes) /\ Defined(image.scopes) \subseteq Defined(image'.scopes)
  BY DefinedStays, Zenon DEF Tables
<1>1. CASE image'.scopes = image.scopes
  BY <1>0, <1>1, Zenon DEF ScopesResolve, ClassOrNone
<1>2. ASSUME NEW d \in ScopeDefs, ScopeStep(d) PROVE ScopesResolve'
  <2>1. /\ DOMAIN image'.scopes = DOMAIN image.scopes
        /\ \A x \in DOMAIN image.scopes : x # d.id => image'.scopes[x] = image.scopes[x]
        /\ image'.scopes[d.id].def = d
    BY <1>2, Zenon DEF ScopeStep, Revised, Replaced
  <2>2. /\ d.unknown_default \in Defined(image.classes) \cup {Absent}
        /\ d.parent \in Defined(image.scopes) \cup {Absent}
    BY <1>2, ScopeAccepted, Zenon DEF ScopeStep
  <2> SUFFICES ASSUME NEW s \in Defined(image'.scopes)
               PROVE  /\ image'.scopes[s].def.unknown_default \in Defined(image'.classes) \cup {Absent}
                      /\ image'.scopes[s].def.parent \in Defined(image'.scopes) \cup {Absent}
    BY Zenon DEF ScopesResolve, ClassOrNone
  <2>3. CASE s = d.id
    BY <1>0, <2>1, <2>2, <2>3, Zenon
  <2>4. CASE s # d.id
    <3>1. s \in Defined(image.scopes) /\ image'.scopes[s] = image.scopes[s]
      BY <2>1, <2>4, Zenon DEF Defined
    <3> QED BY <1>0, <3>1, Zenon DEF ClassOrNone, ScopesResolve
  <2> QED BY <2>3, <2>4, Zenon
<1> QED BY <1>1, <1>2, TableSteps, Zenon

\* A generation that was reached stays reached.
LEMMA ReachedStays ==
    ASSUME Shape, Known, [Next]_vars, NEW t, t \in Tables, NEW x, NEW g, g \in 1 .. image[t][x].gen,
           x \in DOMAIN image[t]
    PROVE  g \in 1 .. image'[t][x].gen
<1>1. image'[t][x].gen >= image[t][x].gen /\ x \in DOMAIN image'[t]
  BY GenerationsGrow, Zenon
<1>2. image[t][x].gen \in Nat /\ image'[t][x].gen \in Nat
  BY <1>1, ShapeStep, Zenon DEF Shape
<1> QED BY <1>1, <1>2

\* Every step keeps what policies name defined, and the scope generation they are bound to reached.
LEMMA PoliciesStep ==
    ASSUME Shape, Known, [Next]_vars, PoliciesResolve
    PROVE  PoliciesResolve'
<1>0. Defined(image.classes) \subseteq Defined(image'.classes)
  BY DefinedStays, Zenon DEF Tables
<1>1. ASSUME NEW p \in Defined(image.policies), NEW d, d = image.policies[p].def
      PROVE  /\ d.scope_generation \in 1 .. image'.scopes[d.scope].gen
             /\ d.visible_classes \subseteq Defined(image'.classes)
             /\ ClassOrNone(d.unknown_default)'
  <2>1. d.scope \in DOMAIN image.scopes
    <3>1. p \in DOMAIN image.policies /\ image.policies[p].gen # 0
      BY DEF Defined, Shape, Tables
    <3>2. PICK q \in PolicyDefs, g \in 0 .. MaxGeneration : d = [q EXCEPT !.scope_generation = g]
      BY <1>1, <3>1 DEF Known, FromSubmitted, StampedPolicies
    <3>3. d.scope = q.scope
      BY <3>2, DefinitionFields, Zenon
    <3> QED BY <3>3, RegistryBounds, Zenon DEF Shape
  <2>2. d.scope_generation \in 1 .. image.scopes[d.scope].gen
    BY <1>1, Zenon DEF PoliciesResolve
  <2>3. d.scope_generation \in 1 .. image'.scopes[d.scope].gen
    BY <2>1, <2>2, ReachedStays, Zenon DEF Tables
  <2> QED BY <1>0, <1>1, <2>3, Zenon DEF PoliciesResolve, ClassOrNone
<1>2. CASE image'.policies = image.policies
  BY <1>1, <1>2, Zenon DEF PoliciesResolve
<1>3. ASSUME NEW q \in PolicyDefs, PolicyStep(q) PROVE PoliciesResolve'
  <2>1. /\ DOMAIN image'.policies = DOMAIN image.policies
        /\ \A x \in DOMAIN image.policies : x # q.id => image'.policies[x] = image.policies[x]
    BY <1>3, Zenon DEF PolicyStep, Revised, Replaced
  <2>2. /\ q.scope \in Defined(image.scopes)
        /\ q.visible_classes \subseteq Defined(image.classes)
        /\ q.unknown_default \in Defined(image.classes) \cup {Absent}
    BY <1>3, PolicyAccepted, Zenon DEF PolicyStep
  <2>3. q.id \in DOMAIN image.policies
    BY RegistryBounds, Zenon DEF Shape
  <2> SUFFICES ASSUME NEW p \in Defined(image'.policies), NEW d, d = image'.policies[p].def
               PROVE  /\ d.scope_generation \in 1 .. image'.scopes[d.scope].gen
                      /\ d.visible_classes \subseteq Defined(image'.classes)
                      /\ ClassOrNone(d.unknown_default)'
    BY Zenon DEF PoliciesResolve
  <2>4. CASE p # q.id
    <3>1. p \in Defined(image.policies) /\ d = image.policies[p].def
      BY <2>1, <2>4, Zenon DEF Defined
    <3> QED BY <1>1, <3>1, Zenon
  <2>5. CASE p = q.id /\ d = image.policies[p].def /\ image.policies[p].gen > 0
    <3>1. p \in Defined(image.policies)
      BY <2>3, <2>5, Zenon DEF Defined
    <3> QED BY <1>1, <2>5, <3>1, Zenon
  <2>6. CASE p = q.id /\ d = [q EXCEPT !.scope_generation = image.scopes[q.scope].gen]
    <3>1. /\ d.scope_generation = image.scopes[q.scope].gen
          /\ d.scope = q.scope
          /\ d.visible_classes = q.visible_classes
          /\ d.unknown_default = q.unknown_default
      BY <2>6, DefinitionFields, Zenon
    <3>2. q.scope \in DOMAIN image.scopes /\ image.scopes[q.scope].gen \in Nat /\ image.scopes[q.scope].gen > 0
      BY <2>2, Zenon DEF Defined, Shape, Tables
    <3>3. d.scope_generation \in 1 .. image.scopes[q.scope].gen
      BY <3>1, <3>2
    <3>4. d.scope_generation \in 1 .. image'.scopes[d.scope].gen
      BY <3>1, <3>2, <3>3, ReachedStays, Zenon DEF Tables
    <3> QED BY <1>0, <2>2, <3>1, <3>4, Zenon DEF ClassOrNone
  <2> QED BY <1>3, <2>4, <2>5, <2>6, Zenon DEF PolicyStep
<1> QED BY <1>2, <1>3, TableSteps, Zenon

\* Every step keeps what assignments name defined, and the generations they are bound to reached.
LEMMA AssignmentsStep ==
    ASSUME Shape, Known, [Next]_vars, AssignmentsResolve
    PROVE  AssignmentsResolve'
<1>0. Defined(image.classes) \subseteq Defined(image'.classes)
  BY DefinedStays, Zenon DEF Tables
<1> DEFINE Bound(d) ==
               /\ d.subject \in DOMAIN image.subjects /\ d.subject_generation \in 1 .. image.subjects[d.subject].gen
               /\ d.scope \in DOMAIN image.scopes /\ d.scope_generation \in 1 .. image.scopes[d.scope].gen
               /\ d.cls \in DOMAIN image.classes /\ d.class_generation \in 1 .. image.classes[d.cls].gen
               /\ d.policy # Absent =>
                     /\ d.policy \in DOMAIN image.policies
                     /\ d.policy_generation \in 1 .. image.policies[d.policy].gen
               /\ ClassOrNone(d.displaces)
           Kept(d) ==
               /\ d.subject_generation \in 1 .. image'.subjects[d.subject].gen
               /\ d.scope_generation \in 1 .. image'.scopes[d.scope].gen
               /\ d.class_generation \in 1 .. image'.classes[d.cls].gen
               /\ d.policy # Absent => d.policy_generation \in 1 .. image'.policies[d.policy].gen
               /\ d.displaces \in Defined(image'.classes) \cup {Absent}
<1>1. ASSUME NEW d, Bound(d) PROVE Kept(d)
  <2>1. {"subjects", "scopes", "classes", "policies"} \subseteq Tables
    BY Zenon DEF Tables
  <2>2. d.subject_generation \in 1 .. image'.subjects[d.subject].gen
    BY <1>1, <2>1, ReachedStays, Zenon
  <2>3. d.scope_generation \in 1 .. image'.scopes[d.scope].gen
    BY <1>1, <2>1, ReachedStays, Zenon
  <2>4. d.class_generation \in 1 .. image'.classes[d.cls].gen
    BY <1>1, <2>1, ReachedStays, Zenon
  <2>5. d.policy # Absent => d.policy_generation \in 1 .. image'.policies[d.policy].gen
    BY <1>1, <2>1, ReachedStays, Zenon
  <2> QED BY <1>0, <1>1, <2>2, <2>3, <2>4, <2>5, Zenon DEF ClassOrNone
<1> SUFFICES ASSUME NEW a \in Defined(image'.assignments) PROVE Kept(image'.assignments[a].def)
  BY Zenon DEF AssignmentsResolve, ClassOrNone
<1>2. a \in Assignments
  BY ShapeStep, Zenon DEF Defined, Shape
<1>3. CASE image'.assignments[a].def = image.assignments[a].def /\ a \in Defined(image.assignments)
  <2>1. Bound(image.assignments[a].def)
    BY <1>3, Zenon DEF AssignmentsResolve, Known, NamesKnown, Shape
  <2> HIDE DEF Bound, Kept
  <2> QED BY <1>1, <1>3, <2>1, Zenon
<1>4. ASSUME NEW q \in AssignmentDefs, q.id = a, PublishStep(q) PROVE Kept(image'.assignments[a].def)
  <2>1. image'.assignments[a].def = Stamped(image, q) /\ AssignStatus(image, q) = "Ok"
    BY <1>4, Zenon DEF PublishStep
  <2>2. Bound(Stamped(image, q))
    <3>1. /\ q.subject \in Defined(image.subjects)
          /\ q.scope \in Defined(image.scopes)
          /\ q.cls \in Defined(image.classes)
          /\ q.policy \in Defined(image.policies) \cup {Absent}
          /\ q.displaces \in Defined(image.classes) \cup {Absent}
      BY <2>1, AssignmentAccepted, Zenon
    <3>2. \A t \in Tables : \A x \in Defined(image[t]) :
              x \in DOMAIN image[t] /\ image[t][x].gen \in 1 .. image[t][x].gen
      BY DEF Shape, Defined
    <3> QED BY <3>1, <3>2, Zenon DEF Stamped, Tables, ClassOrNone
  <2> HIDE DEF Bound, Kept
  <2> QED BY <1>1, <2>1, <2>2, Zenon
<1> QED BY <1>2, <1>3, <1>4, AssignmentEntries, Zenon

-----------------------------------------------------------------------------
(* Hierarchies.                                                            *)

\* A redefinition that validate_inheritance accepts keeps a table acyclic.
LEMMA AcyclicKept ==
    ASSUME NEW t, NEW d, Revised(t, d.id), image'[t][d.id].def = d, d.id \in DOMAIN image[t],
           IsFiniteSet(DOMAIN image[t]), \A x \in DOMAIN image[t] : image[t][x].gen \in Nat,
           InheritanceStatus(image[t], d) = "Ok", ParentsDefined(image[t]), Acyclic(image[t])
    PROVE  Acyclic(image'[t])
<1>1. /\ DOMAIN image'[t] = DOMAIN image[t]
      /\ \A x \in DOMAIN image[t] : x # d.id => image'[t][x] = image[t][x]
      /\ image'[t][d.id].gen \in Nat \ {0}
  BY Zenon DEF Revised, Replaced
<1>2. d.parents \subseteq DOMAIN image[t] /\ d.id \notin Reachable([image[t] EXCEPT ![d.id] = Undefined], d.parents)
  BY InheritanceAccepted, Zenon DEF Defined
<1>3. Upward(image[t], DOMAIN image[t])
  BY InheritanceUpward, Zenon
<1> DEFINE table == image[t]
           new == image'[t]
           k == d.id
           parents == d.parents
<1>4. /\ k \in DOMAIN table /\ IsFiniteSet(DOMAIN table) /\ Upward(table, DOMAIN table)
      /\ \A y \in DOMAIN table : table[y].gen \in Nat
      /\ DOMAIN new = DOMAIN table /\ \A y \in DOMAIN table \ {k} : new[y] = table[y]
      /\ new[k].gen \in Nat \ {0} /\ new[k].def.parents = parents /\ parents \subseteq DOMAIN table
      /\ k \notin Reachable([table EXCEPT ![k] = Undefined], parents)
      /\ Acyclic(table)
  BY <1>1, <1>2, <1>3, Zenon
<1> HIDE DEF table, new, k, parents
<1>5. Acyclic(new)
  BY <1>4, RedefinitionAcyclic
<1> QED BY <1>5, Zenon DEF new

\* Every step keeps class and subject inheritance acyclic.
LEMMA AcyclicStep ==
    ASSUME Shape, Known, [Next]_vars, ParentsDefined(image.classes), ParentsDefined(image.subjects),
           Acyclic(image.classes), Acyclic(image.subjects)
    PROVE  Acyclic(image'.classes) /\ Acyclic(image'.subjects)
<1>1. ASSUME NEW d \in ClassDefs, ClassStep(d) PROVE Acyclic(image'.classes)
  <2>1. /\ d.id \in DOMAIN image.classes
        /\ IsFiniteSet(DOMAIN image.classes)
        /\ \A x \in DOMAIN image.classes : image.classes[x].gen \in Nat
    BY RegistryBounds, IdentifiersFinite, Zenon DEF Shape, Tables
  <2> QED BY <1>1, <2>1, ClassAccepted, AcyclicKept, Zenon DEF ClassStep
<1>2. ASSUME NEW d \in SubjectDefs, SubjectStep(d) PROVE Acyclic(image'.subjects)
  <2>1. /\ d.id \in DOMAIN image.subjects
        /\ IsFiniteSet(DOMAIN image.subjects)
        /\ \A x \in DOMAIN image.subjects : image.subjects[x].gen \in Nat
    BY RegistryBounds, IdentifiersFinite, Zenon DEF Shape, Tables
  <2> QED BY <1>2, <2>1, SubjectAccepted, AcyclicKept, Zenon DEF SubjectStep
<1> QED BY <1>1, <1>2, TableSteps, Zenon

\* Every step keeps the scope tree free of cycles.
LEMMA RootedStep ==
    ASSUME Shape, Known, [Next]_vars, ScopesResolve, Rooted(image.scopes)
    PROVE  Rooted(image'.scopes)
<1>1. ASSUME NEW d \in ScopeDefs, ScopeStep(d) PROVE Rooted(image'.scopes)
  <2>1. /\ DOMAIN image'.scopes = DOMAIN image.scopes
        /\ \A x \in DOMAIN image.scopes : x # d.id => image'.scopes[x] = image.scopes[x]
        /\ image'.scopes[d.id].def = d
    BY <1>1, Zenon DEF ScopeStep, Revised, Replaced
  <2>2. Attachable(image, d.id, d.parent, MaxScopeDepth)
    BY <1>1, ScopeAccepted, Zenon DEF ScopeStep
  <2>3. Absent \notin Scopes /\ d.id \in Scopes /\ MaxScopeDepth \in Nat
    BY RegistryBounds, Zenon DEF Ids
  <2>4. /\ DOMAIN image.scopes = Scopes
        /\ \A s \in Scopes : image.scopes[s].gen \in Nat
        /\ \A s \in Defined(image.scopes) : image.scopes[s].def.parent \in Defined(image.scopes) \cup {Absent}
    BY Zenon DEF Shape, Tables, ScopesResolve
  <2>5. ScopeRedefined(image, image'.scopes, d.id, MaxScopeDepth)
    BY <2>1, <2>2, <2>3, <2>4, Zenon DEF ScopeRedefined
  <2> QED BY <2>3, <2>5, RedefinitionRooted, Zenon
<1> QED BY <1>1, TableSteps, Zenon

\* Every step keeps ranks unique: a class that skips check_precedence_free is stored as it is.
LEMMA RanksStep ==
    ASSUME Shape, Known, [Next]_vars, RanksUnique
    PROVE  RanksUnique'
<1>1. CASE image'.classes = image.classes
  BY <1>1, Zenon DEF RanksUnique
<1>2. ASSUME NEW d \in ClassDefs, ClassStep(d) PROVE RanksUnique'
  <2>1. /\ DOMAIN image'.classes = DOMAIN image.classes
        /\ \A x \in DOMAIN image.classes : x # d.id => image'.classes[x] = image.classes[x]
        /\ image'.classes[d.id].def = d
    BY <1>2, Zenon DEF ClassStep, Revised, Replaced
  <2>2. \/ image.classes[d.id].def = d
        \/ \A c \in Defined(image.classes) \ {d.id} : image.classes[c].def.rank # d.rank
    BY <1>2, ClassAccepted, Zenon DEF ClassStep
  <2>3. \A c \in Defined(image'.classes) \ {d.id} : c \in Defined(image.classes) /\ image'.classes[c] = image.classes[c]
    BY <2>1, Zenon DEF Defined
  <2>4. image.classes[d.id].def = d => d.id \in Defined(image.classes)
    <3>1. d.id \in DOMAIN image.classes /\ image.classes[d.id].gen \in Nat /\ d # Absent
      BY RegistryBounds, DefinitionFields, Zenon DEF Shape, Tables
    <3> QED BY <3>1 DEF Known, FromSubmitted, Defined
  <2>5. \A c \in Defined(image.classes) \ {d.id} : image.classes[c].def.rank # d.rank
    BY <2>2, <2>4, Zenon DEF RanksUnique
  <2> QED BY <2>1, <2>3, <2>5 DEF RanksUnique
<1> QED BY <1>1, <1>2, TableSteps, Zenon

\* An insertion adds one occurrence of x to the bucket of k and takes nothing away.
LEMMA InsertCounts ==
    ASSUME NEW index, index \in [Subjects -> [Assignments -> Nat]], NEW k, k \in Subjects,
           NEW x, x \in Assignments, NEW s, s \in Subjects, NEW a, a \in Assignments
    PROVE  /\ Insert(index, k, x)[k][x] > 0
           /\ index[s][a] > 0 => Insert(index, k, x)[s][a] > 0
BY DEF Insert

\* Every step keeps both indexes complete: an insertion adds to a bucket, a checkpoint indexes
\* every defined assignment, and a reopening takes over an index that was complete.
LEMMA IndexStep ==
    ASSUME Shape, Known, [Next]_vars, IndexComplete
    PROVE  IndexComplete'
<1> DEFINE Found(index, i, a) == index[i.assignments[a].def.subject][a] > 0
<1>0. \A a \in Defined(image.assignments) :
          /\ a \in Assignments
          /\ image.assignments[a].def.subject \in Subjects
          /\ Found(image.assignments_by_subject, image, a)
          /\ Found(replayed, image, a)
  BY Zenon DEF Shape, Defined, Known, NamesKnown, IndexComplete
<1>1. ASSUME image'.assignments_by_subject = image.assignments_by_subject, replayed' = replayed,
             \A d \in AssignmentDefs : ~PublishStep(d)
      PROVE  IndexComplete'
  <2> SUFFICES ASSUME NEW a \in Defined(image'.assignments)
               PROVE  Found(image.assignments_by_subject, image', a) /\ Found(replayed, image', a)
    BY <1>1, Zenon DEF IndexComplete
  <2>1. a \in Assignments
    BY ShapeStep, Zenon DEF Shape, Defined
  <2>2. image'.assignments[a].def = image.assignments[a].def /\ a \in Defined(image.assignments)
    BY <1>1, <2>1, AssignmentEntries, Zenon
  <2> QED BY <1>0, <2>2, Zenon
<1>2. ASSUME NEW d \in AssignmentDefs, PublishStep(d) PROVE IndexComplete'
  <2>1. d.id \in Assignments /\ d.subject \in Subjects
    BY RegistryBounds, Zenon
  <2>2. /\ image'.assignments_by_subject = Insert(image.assignments_by_subject, d.subject, d.id)
        /\ replayed' = Insert(replayed, d.subject, d.id)
        /\ image'.assignments[d.id].def.subject = d.subject
    BY <1>2 DEF PublishStep, Stamped
  <2> SUFFICES ASSUME NEW a \in Defined(image'.assignments)
               PROVE  Found(image'.assignments_by_subject, image', a) /\ Found(replayed', image', a)
    BY Zenon DEF IndexComplete
  <2>3. a \in Assignments /\ a \in DOMAIN image.assignments /\ image'.assignments[a].gen > 0
    BY ShapeStep, Zenon DEF Shape, Defined
  <2>4. /\ image.assignments_by_subject \in [Subjects -> [Assignments -> Nat]]
        /\ replayed \in [Subjects -> [Assignments -> Nat]]
    BY DEF Shape
  <2>5. CASE a = d.id
    <3>1. /\ Insert(image.assignments_by_subject, d.subject, d.id)[d.subject][d.id] > 0
          /\ Insert(replayed, d.subject, d.id)[d.subject][d.id] > 0
      BY <2>1, <2>4, InsertCounts, Zenon
    <3> QED BY <2>2, <2>5, <3>1, Zenon
  <2>6. CASE a # d.id
    <3>1. image'.assignments[a] = image.assignments[a]
      <4>1. image'.assignments = [image.assignments EXCEPT ![d.id] = image'.assignments[d.id]]
        BY <1>2, Zenon DEF PublishStep
      <4> QED BY <2>3, <2>6, <4>1
    <3>2. a \in Defined(image.assignments)
      BY <2>3, <3>1, Zenon DEF Defined
    <3>3. PICK s \in Subjects : /\ s = image'.assignments[a].def.subject
                                /\ image.assignments_by_subject[s][a] > 0
                                /\ replayed[s][a] > 0
      BY <1>0, <3>1, <3>2, Zenon
    <3>4. /\ Insert(image.assignments_by_subject, d.subject, d.id)[s][a] > 0
          /\ Insert(replayed, d.subject, d.id)[s][a] > 0
      BY <2>1, <2>3, <2>4, <3>3, InsertCounts, Zenon
    <3> QED BY <2>2, <3>3, <3>4, Zenon
  <2> QED BY <2>5, <2>6, Zenon
<1>3. CASE CheckpointStep
  <2> SUFFICES ASSUME NEW a \in Defined(image.assignments) PROVE Found(rebuild_indexes(image.assignments), image, a)
    BY <1>0, <1>3, Zenon DEF CheckpointStep, IndexComplete
  <2>1. image.assignments[a].gen > 0
    BY Zenon DEF Defined
  <2> QED BY <1>0, <2>1, SMTT(30) DEF rebuild_indexes
<1>4. CASE ReopenStep
  BY <1>0, <1>4, Zenon DEF ReopenStep, IndexComplete, Tables
<1>5. \/ image'.assignments_by_subject = image.assignments_by_subject /\ replayed' = replayed
      \/ \E d \in AssignmentDefs : PublishStep(d)
      \/ CheckpointStep
      \/ ReopenStep
  <2>1. ASSUME NEW t, NEW x, NEW e, Replaced(t, x, e)
        PROVE  image'.assignments_by_subject = image.assignments_by_subject /\ replayed' = replayed
    BY <2>1, Zenon DEF Replaced
  <2>2. \A d : (ClassStep(d) \/ ScopeStep(d) \/ PolicyStep(d) \/ SubjectStep(d)) => \E t, x, e : Replaced(t, x, e)
    BY Zenon DEF ClassStep, ScopeStep, PolicyStep, SubjectStep, Revised
  <2>3. \A a : (RepublishStep(a) \/ RetireStep(a)) => \E t, x, e : Replaced(t, x, e)
    BY Zenon DEF RepublishStep, RetireStep
  <2> QED BY <2>1, <2>2, <2>3, StepKinds, Zenon
<1> QED BY <1>1, <1>2, <1>3, <1>4, <1>5, Zenon

-----------------------------------------------------------------------------
(* The invariant is inductive.                                             *)

\* The empty registry satisfies it.
LEMMA InitEstablishes ==
    ASSUME Init
    PROVE  RegistryInv
<1>1. /\ \A t \in Tables : DOMAIN image[t] \subseteq Ids
      /\ \A t \in Definable : \A x \in DOMAIN image[t] : image[t][x] = Undefined
      /\ \A a \in Assignments : image.assignments[a] = [gen |-> 0, def |-> Absent, by |-> Absent, active |-> FALSE]
  BY DEF Init, EmptyImage, Tables, Definable, Ids
<1>2. \A t \in Tables : \A x \in DOMAIN image[t] :
          {"gen", "def", "by"} \subseteq DOMAIN image[t][x] /\ image[t][x].gen = 0 /\ image[t][x].def = Absent
  <2>1. \A t \in Definable : \A x \in DOMAIN image[t] :
          {"gen", "def", "by"} \subseteq DOMAIN image[t][x] /\ image[t][x].gen = 0 /\ image[t][x].def = Absent
    BY <1>1 DEF Undefined
  <2>2. \A x \in DOMAIN image.assignments :
          /\ {"gen", "def", "by"} \subseteq DOMAIN image.assignments[x]
          /\ image.assignments[x].gen = 0 /\ image.assignments[x].def = Absent
    BY <1>1, Zenon DEF Init, EmptyImage
  <2> QED BY <2>1, <2>2, Zenon DEF Definable
<1>3. \A t \in Tables : Defined(image[t]) = {}
  BY <1>2 DEF Defined
<1>4. Shape
  <2>1. /\ DOMAIN image = Tables \cup {"assignments_by_subject"}
        /\ DOMAIN image.classes = Classes
        /\ DOMAIN image.scopes = Scopes
        /\ DOMAIN image.policies = Policies
        /\ DOMAIN image.subjects = Subjects
        /\ DOMAIN image.assignments = Assignments
    BY Zenon DEF Init, EmptyImage, Tables
  <2>2. /\ image.assignments_by_subject \in [Subjects -> [Assignments -> Nat]]
        /\ replayed \in [Subjects -> [Assignments -> Nat]]
    BY Zenon DEF Init, EmptyImage, EmptyIndex
  <2>3. \A a \in Assignments : /\ "active" \in DOMAIN image.assignments[a]
                               /\ image.assignments[a].active = FALSE
    BY <1>1
  <2>4. \A a \in Assignments : /\ image.assignments[a].active \in BOOLEAN
                               /\ image.assignments[a].active => image.assignments[a].gen > 0
    BY <2>3, Zenon
  <2>5. MaxGeneration \in Nat
    BY RegistryBounds, Zenon
  <2> QED BY <1>2, <2>1, <2>2, <2>3, <2>4, <2>5 DEF Shape
<1>5. Known
  BY <1>2, <1>3, Zenon DEF Known, FromSubmitted, Tables
<1>6. AllResolve
  <2>1. /\ Defined(image.classes) = {} /\ Defined(image.subjects) = {} /\ Defined(image.scopes) = {}
        /\ Defined(image.policies) = {} /\ Defined(image.assignments) = {}
    BY <1>3, Zenon DEF Tables
  <2> QED BY <2>1, Zenon DEF AllResolve, ParentsDefined, ScopesResolve, PoliciesResolve, AssignmentsResolve
<1>7. Acyclic(image.classes) /\ Acyclic(image.subjects) /\ Rooted(image.scopes)
  <2>1. Defined(image.classes) = {} /\ Defined(image.subjects) = {} /\ Defined(image.scopes) = {}
    BY <1>3, Zenon DEF Tables
  <2>2. Rooted(image.scopes)
    BY <2>1, Zenon DEF Rooted, Rootless
  <2> QED BY <2>1, <2>2, Zenon DEF Acyclic
<1>8. RanksUnique /\ IndexComplete
  BY <1>3, Zenon DEF RanksUnique, IndexComplete, Tables
<1> QED BY <1>4, <1>5, <1>6, <1>7, <1>8, Zenon DEF RegistryInv

\* Every step keeps it.
LEMMA StepPreserves ==
    ASSUME RegistryInv, [Next]_vars
    PROVE  RegistryInv'
<1>1. /\ Shape /\ Known /\ RanksUnique /\ IndexComplete /\ Rooted(image.scopes)
      /\ Acyclic(image.classes) /\ Acyclic(image.subjects)
      /\ ParentsDefined(image.classes) /\ ParentsDefined(image.subjects)
      /\ ScopesResolve /\ PoliciesResolve /\ AssignmentsResolve
  BY Zenon DEF RegistryInv, AllResolve
<1>2. Shape' /\ Known'
  BY <1>1, ShapeStep, KnownStep, Zenon
<1>3. AllResolve'
  BY <1>1, ParentsStep, ScopesStep, PoliciesStep, AssignmentsStep, Zenon DEF AllResolve
<1>4. Acyclic(image.classes)' /\ Acyclic(image.subjects)' /\ Rooted(image.scopes)'
  BY <1>1, AcyclicStep, RootedStep, Zenon
<1>5. RanksUnique' /\ IndexComplete'
  BY <1>1, RanksStep, IndexStep, Zenon
<1> QED BY <1>2, <1>3, <1>4, <1>5, Zenon DEF RegistryInv

\* The inductive invariant holds in every reachable state of the registry, for any sets of
\* identifiers, definitions and incarnations and any limits.
THEOREM RegistryInvariant == Spec => []RegistryInv
<1>1. Init => RegistryInv
  BY InitEstablishes, Zenon
<1>2. RegistryInv /\ [Next]_vars => RegistryInv'
  BY StepPreserves, Zenon
<1> QED BY <1>1, <1>2, PTL DEF Spec

\* Whatever a stored definition or assignment names is defined, and the generations it is bound
\* to were reached, after any sequence of requests, checkpoints and restarts (validate_* in
\* state.cpp check a reference once, when it is made).
THEOREM ReferencesAlwaysResolve == Spec => []ReferencesResolve
<1>1. RegistryInv => ReferencesResolve
  BY ResolveIs, Zenon DEF RegistryInv
<1> QED BY <1>1, RegistryInvariant, PTL

\* No sequence of legal definitions and redefinitions closes a cycle in class inheritance, subject
\* inheritance or the scope tree, or gives two classes one rank (validate_inheritance,
\* validate_subject_inheritance, the walk in DefineScope and check_precedence_free).
THEOREM StructureAlwaysSound == Spec => []StructureSound
<1>1. ASSUME RegistryInv PROVE StructureSound
  <2>1. \A t \in {"classes", "subjects"} : \A x \in Defined(image[t]) :
            x \notin Reachable(image[t], image[t][x].def.parents)
    BY <1>1, Zenon DEF RegistryInv, Acyclic
  <2>2. ASSUME NEW s \in Defined(image.scopes)
        PROVE  \E n \in 1 .. Cardinality(Scopes) : Above(image, s, n) = Absent
    <3>1. IsFiniteSet(Scopes) /\ Absent \notin Scopes
      BY IdentifiersFinite, RegistryBounds, Zenon DEF Ids
    <3>2. /\ DOMAIN image.scopes = Scopes
          /\ Rooted(image.scopes)
          /\ \A x \in Defined(image.scopes) : image.scopes[x].def.parent \in Defined(image.scopes) \cup {Absent}
      BY <1>1, Zenon DEF RegistryInv, Shape, AllResolve, ScopesResolve
    <3> QED BY <3>1, <3>2, RootedScopesEnd, Zenon
  <2>3. HierarchiesAcyclic
    BY <2>1, <2>2, Zenon DEF HierarchiesAcyclic
  <2> QED BY <1>1, <2>3, Zenon DEF RegistryInv, StructureSound
<1> QED BY <1>1, RegistryInvariant, PTL

\* Every assignment is found through the bucket of its subject, in the running image and in the
\* one a reopening rebuilds (apply_mutation's insertion, rebuild_indexes).
THEOREM IndexAlwaysComplete == Spec => []IndexComplete
<1>1. RegistryInv => IndexComplete
  BY Zenon DEF RegistryInv
<1> QED BY <1>1, RegistryInvariant, PTL

-----------------------------------------------------------------------------
(* Generations and replies.                                                *)

\* What a definition says is never nothing.
LEMMA ContentOfDefinition ==
    ASSUME NEW d, d \in ClassDefs \cup ScopeDefs \cup SubjectDefs \cup StampedPolicies
    PROVE  Content(d) # Absent
<1>1. CASE d \in ClassDefs \cup ScopeDefs \cup SubjectDefs
  BY <1>1, PlainContent, DefinitionFields, Zenon
<1>2. CASE d \in StampedPolicies
  <2>1. PICK q \in PolicyDefs, g \in 0 .. MaxGeneration : d = [q EXCEPT !.scope_generation = g]
    BY <1>2 DEF StampedPolicies
  <2>2. {"scope_generation", "visible_classes"} \subseteq DOMAIN q
    BY DefinitionFields, Zenon
  <2>3. 0 \in 0 .. MaxGeneration
    BY RegistryBounds
  <2>4. d # Absent /\ [q EXCEPT !.scope_generation = 0] # Absent
    BY <2>1, <2>3, DefinitionFields, Zenon
  <2>5. Content(d) = [q EXCEPT !.scope_generation = 0]
    <3>1. DOMAIN d = DOMAIN q
      BY <2>1, Zenon
    <3>2. Content(d) = [d EXCEPT !.scope_generation = 0]
      BY <2>2, <2>4, <3>1, Zenon DEF Content
    <3>3. [d EXCEPT !.scope_generation = 0] = [q EXCEPT !.scope_generation = 0]
      <4>1. [d EXCEPT !.scope_generation = 0] = [f \in DOMAIN q |-> IF f = "scope_generation" THEN 0 ELSE d[f]]
        BY <3>1, Zenon
      <4>2. [q EXCEPT !.scope_generation = 0] = [f \in DOMAIN q |-> IF f = "scope_generation" THEN 0 ELSE q[f]]
        BY Zenon
      <4>3. \A f \in DOMAIN q : f # "scope_generation" => d[f] = q[f]
        BY <2>1, Zenon
      <4> QED BY <4>1, <4>2, <4>3, Zenon
    <3> QED BY <3>2, <3>3, Zenon
  <2> QED BY <2>4, <2>5, Zenon
<1> QED BY <1>1, <1>2, Zenon

\* What the four definition tables hold.
Submittable == {ClassDefs, ScopeDefs, SubjectDefs, StampedPolicies}

\* An entry says something exactly when it is defined.
LEMMA DefinitionsHaveContent ==
    ASSUME NEW table, NEW defs, FromSubmitted(table, defs), defs \in Submittable,
           NEW x, x \in DOMAIN table
    PROVE  /\ table[x].gen = 0 => Content(table[x].def) = Absent
           /\ table[x].gen # 0 => Content(table[x].def) # Absent
<1>1. table[x].gen = 0 => Content(table[x].def) = Absent
  BY Zenon DEF FromSubmitted, Content
<1>2. table[x].gen # 0 => Content(table[x].def) # Absent
  BY ContentOfDefinition, Zenon DEF FromSubmitted, Submittable
<1> QED BY <1>1, <1>2, Zenon

\* GenerationTracksContent for one entry.
Tracks(t, x) ==
    LET old == image[t][x]
        new == image'[t][x]
    IN  /\ new.gen >= old.gen
        /\ (new.gen = old.gen) <=> (Meaning(t, new) = Meaning(t, old))

\* A revision moves the generation exactly when the content changes.
LEMMA RevisionTracks ==
    ASSUME Shape, NEW t, t \in Definable, NEW x, x \in DOMAIN image[t], Revised(t, x),
           NEW defs, defs \in Submittable, FromSubmitted(image[t], defs), FromSubmitted(image'[t], defs)
    PROVE  Tracks(t, x)
<1> DEFINE old == image[t][x]
           new == image'[t][x]
<1>1. /\ new.gen \in Nat \ {0} /\ new.gen >= old.gen
      /\ new.gen = old.gen <=> (old.gen > 0 /\ Content(old.def) = Content(new.def))
      /\ x \in DOMAIN image'[t]
  BY Zenon DEF Revised, Replaced
<1>2. old.gen \in Nat /\ t # "assignments"
  BY Zenon DEF Shape, Definable
<1>3. Content(new.def) # Absent
  BY <1>1, DefinitionsHaveContent, Zenon
<1>4. old.gen = 0 => Content(old.def) = Absent
  BY DefinitionsHaveContent, Zenon
<1>5. (Meaning(t, new) = Meaning(t, old)) <=> (Content(new.def) = Content(old.def))
  BY <1>2, Zenon DEF Meaning
<1> HIDE DEF old, new
<1>6. (new.gen = old.gen) <=> (Meaning(t, new) = Meaning(t, old))
  BY <1>1, <1>2, <1>3, <1>4, <1>5
<1> QED BY <1>1, <1>6, Zenon DEF Tracks, old, new

\* What an assignment says is its content and whether it is active.
LEMMA AssignmentMeaning ==
    ASSUME NEW e, NEW f
    PROVE  Meaning("assignments", e) = Meaning("assignments", f) <=>
               (Content(e.def) = Content(f.def) /\ e.active = f.active)
<1>1. Meaning("assignments", e) = <<Content(e.def), e.active>> /\ Meaning("assignments", f) = <<Content(f.def), f.active>>
  BY Zenon DEF Meaning
<1> QED BY <1>1

\* Every step moves the generation of an entry exactly when what the entry says changes.
LEMMA EntriesTrack ==
    ASSUME RegistryInv, [Next]_vars, NEW t, t \in Tables, NEW x, x \in DOMAIN image[t]
    PROVE  Tracks(t, x)
<1>0. Shape /\ Known /\ Known' /\ image[t][x].gen \in Nat
  BY KnownStep, Zenon DEF RegistryInv, Shape
<1>1. CASE image'[t][x] = image[t][x]
  BY <1>0, <1>1 DEF Tracks
<1>2. ASSUME t \in Definable, Revised(t, x), NEW defs, defs \in Submittable,
             FromSubmitted(image[t], defs), FromSubmitted(image'[t], defs)
      PROVE  Tracks(t, x)
  BY <1>0, <1>2, RevisionTracks, Zenon
<1>3. CASE t = "classes"
  <2>1. ASSUME NEW d \in ClassDefs, ClassStep(d) PROVE Tracks(t, x)
    <3>1. x # d.id => image'[t][x] = image[t][x]
      BY <1>3, <2>1, Zenon DEF ClassStep, Revised, Replaced
    <3> QED BY <1>0, <1>1, <1>2, <1>3, <2>1, <3>1 DEF ClassStep, Known, Submittable, Definable
  <2> QED BY <1>0, <1>1, <1>3, <2>1, TableSteps, Zenon
<1>4. CASE t = "scopes"
  <2>1. ASSUME NEW d \in ScopeDefs, ScopeStep(d) PROVE Tracks(t, x)
    <3>1. x # d.id => image'[t][x] = image[t][x]
      BY <1>4, <2>1, Zenon DEF ScopeStep, Revised, Replaced
    <3> QED BY <1>0, <1>1, <1>2, <1>4, <2>1, <3>1, Zenon DEF ScopeStep, Known, Submittable, Definable
  <2> QED BY <1>0, <1>1, <1>4, <2>1, TableSteps, Zenon
<1>5. CASE t = "policies"
  <2>1. ASSUME NEW d \in PolicyDefs, PolicyStep(d) PROVE Tracks(t, x)
    <3>1. x # d.id => image'[t][x] = image[t][x]
      BY <1>5, <2>1, Zenon DEF PolicyStep, Revised, Replaced
    <3> QED BY <1>0, <1>1, <1>2, <1>5, <2>1, <3>1, Zenon DEF PolicyStep, Known, Submittable, Definable
  <2> QED BY <1>0, <1>1, <1>5, <2>1, TableSteps, Zenon
<1>6. CASE t = "subjects"
  <2>1. ASSUME NEW d \in SubjectDefs, SubjectStep(d) PROVE Tracks(t, x)
    <3>1. x # d.id => image'[t][x] = image[t][x]
      BY <1>6, <2>1, Zenon DEF SubjectStep, Revised, Replaced
    <3> QED BY <1>0, <1>1, <1>2, <1>6, <2>1, <3>1, Zenon DEF SubjectStep, Known, Submittable, Definable
  <2> QED BY <1>0, <1>1, <1>6, <2>1, TableSteps, Zenon
<1>7. CASE t = "assignments"
  <2> DEFINE old == image.assignments[x]
             new == image'.assignments[x]
  <2>1. /\ x \in Assignments /\ old.gen \in Nat /\ old.active \in BOOLEAN
        /\ old.active => old.gen > 0
    BY <1>0, <1>7, Zenon DEF Shape
  <2>2. ASSUME NEW a \in Assignments, RepublishStep(a) \/ RetireStep(a) PROVE Tracks(t, x)
    <3>1. CASE x # a
      <4>1. \E e : Replaced("assignments", a, e)
        BY <2>2, Zenon DEF RepublishStep, RetireStep
      <4>2. new = old
        BY <1>7, <3>1, <4>1, Zenon DEF Replaced
      <4> QED BY <1>1, <1>7, <4>2, Zenon
    <3>2. CASE x = a /\ RepublishStep(a)
      <4>1. new.gen = old.gen /\ new.def = old.def /\ new.active = old.active
        BY <3>2, Zenon DEF RepublishStep
      <4> QED BY <1>7, <2>1, <4>1 DEF Tracks, Meaning
    <3>3. CASE x = a /\ RetireStep(a)
      <4>1. new.def = old.def /\ new.active = FALSE /\ new.gen = IF old.active THEN old.gen + 1 ELSE old.gen
        BY <3>3, Zenon DEF RetireStep
      <4>2. CASE old.active = TRUE
        <5>1. new.gen = old.gen + 1
          BY <4>1, <4>2, Zenon
        <5>2. Meaning("assignments", new) # Meaning("assignments", old)
          BY <4>1, <4>2, AssignmentMeaning, Zenon
        <5> QED BY <1>7, <2>1, <5>1, <5>2 DEF Tracks
      <4>3. CASE old.active = FALSE
        <5>1. new.gen = old.gen
          BY <4>1, <4>3, Zenon
        <5>2. Meaning("assignments", new) = Meaning("assignments", old)
          BY <4>1, <4>3, AssignmentMeaning, Zenon
        <5> QED BY <1>7, <2>1, <5>1, <5>2 DEF Tracks
      <4> QED BY <2>1, <4>2, <4>3, Zenon
    <3> QED BY <2>2, <3>1, <3>2, <3>3, Zenon
  <2>3. ASSUME NEW d \in AssignmentDefs, PublishStep(d) PROVE Tracks(t, x)
    <3>1. CASE x # d.id
      <4>1. new = old
        BY <1>7, <2>3, <3>1, Zenon DEF PublishStep
      <4> QED BY <1>1, <1>7, <4>1, Zenon
    <3>2. CASE x = d.id
      <4>1. /\ new.gen = old.gen + 1 /\ new.def = Stamped(image, d) /\ new.active = TRUE
            /\ ~Unchanged(x, Stamped(image, d))
        BY <2>3, <3>2, Zenon DEF PublishStep
      <4>2. Meaning("assignments", new) # Meaning("assignments", old)
        <5>1. SUFFICES ASSUME Content(new.def) = Content(old.def), old.active = TRUE PROVE FALSE
          BY <4>1, AssignmentMeaning, Zenon
        <5> QED BY <2>1, <4>1, <5>1, Zenon DEF Unchanged, content_unchanged
      <4> QED BY <1>7, <2>1, <4>1, <4>2 DEF Tracks
    <3> QED BY <3>1, <3>2, Zenon
  <2> QED BY <1>0, <1>1, <1>7, <2>2, <2>3, TableSteps, Zenon
<1> QED BY <1>3, <1>4, <1>5, <1>6, <1>7, Zenon DEF Tables

\* A generation never goes back and names one content for ever, for every entity of every table
\* (content_unchanged and the generation arithmetic of apply_mutation).
THEOREM GenerationsTrackContent == Spec => GenerationTracksContent
<1>1. ASSUME RegistryInv, [Next]_vars
      PROVE  \A t \in Tables : \A x \in DOMAIN image[t] :
                 LET old == image[t][x]
                     new == image'[t][x]
                 IN  /\ new.gen >= old.gen
                     /\ (new.gen = old.gen) <=> (Meaning(t, new) = Meaning(t, old))
  BY <1>1, EntriesTrack, Zenon DEF Tracks
<1> QED BY <1>1, RegistryInvariant, PTL DEF Spec, GenerationTracksContent

\* Replacing an entry acknowledges its generation.
LEMMA ReplacedAcknowledged ==
    ASSUME NEW t, t \in Tables, NEW k, Replaced(t, k, image'[t][k]),
           NEW u, u \in Tables, NEW x, x \in DOMAIN image[u], image'[u][x] # image[u][x]
    PROVE  reply' = [status |-> "Ok", gen |-> image'[u][x].gen]
<1>1. u = t
  BY Zenon DEF Replaced
<1>2. x = k
  BY <1>1, Zenon DEF Replaced
<1> QED BY <1>1, <1>2, Zenon DEF Replaced

\* Whenever an entry changes, the request that changed it is answered with the generation the entry
\* now has (preview_entity_generation against apply_mutation).
THEOREM GenerationsAcknowledged == Spec => AcknowledgedGeneration
<1>1. ASSUME RegistryInv, [Next]_vars, NEW u \in Tables, NEW x \in DOMAIN image[u], image'[u][x] # image[u][x]
      PROVE  reply' = [status |-> "Ok", gen |-> image'[u][x].gen]
  <2>1. Shape /\ Known
    BY <1>1, Zenon DEF RegistryInv
  <2>2. ASSUME NEW t \in Tables, NEW k, Replaced(t, k, image'[t][k])
        PROVE  reply' = [status |-> "Ok", gen |-> image'[u][x].gen]
    BY <1>1, <2>2, ReplacedAcknowledged, Zenon
  <2>3. \A d : (ClassStep(d) \/ ScopeStep(d) \/ PolicyStep(d) \/ SubjectStep(d)) =>
               \E t \in Tables : \E k : Replaced(t, k, image'[t][k])
    BY Zenon DEF ClassStep, ScopeStep, PolicyStep, SubjectStep, Revised, Tables
  <2>4. \A a : (RepublishStep(a) \/ RetireStep(a)) => Replaced("assignments", a, image'["assignments"][a])
    BY Zenon DEF RepublishStep, RetireStep
  <2>5. ASSUME NEW d, PublishStep(d) PROVE reply' = [status |-> "Ok", gen |-> image'[u][x].gen]
    <3>1. u = "assignments"
      BY <1>1, <2>5, Zenon DEF PublishStep, Definable
    <3>2. x = d.id
      BY <1>1, <2>5, <3>1, Zenon DEF PublishStep
    <3> QED BY <2>5, <3>1, <3>2, Zenon DEF PublishStep
  <2>6. ~(UNCHANGED <<image, replayed>> \/ CheckpointStep \/ ReopenStep)
    BY <1>1, Zenon DEF CheckpointStep, ReopenStep
  <2>7. "assignments" \in Tables
    BY Zenon DEF Tables
  <2>8. \/ \E d : ClassStep(d) \/ ScopeStep(d) \/ PolicyStep(d) \/ SubjectStep(d)
        \/ \E a : RepublishStep(a) \/ RetireStep(a)
        \/ \E d : PublishStep(d)
    BY <1>1, <2>1, <2>6, StepKinds, Zenon
  <2> QED BY <2>2, <2>3, <2>4, <2>5, <2>7, <2>8, Zenon
<1>2. ASSUME RegistryInv, [Next]_vars
      PROVE  \A t \in Tables : \A x \in DOMAIN image[t] :
                 image'[t][x] # image[t][x] =>
                     reply' = [status |-> "Ok", gen |-> image'[t][x].gen]
  BY <1>1, <1>2, Zenon
<1> QED BY <1>2, RegistryInvariant, PTL DEF Spec, AcknowledgedGeneration

-----------------------------------------------------------------------------
(* Where the entries of the index come from.                               *)

\* Nothing was published at first.
LEMMA HonestInit ==
    ASSUME Init
    PROVE  HonestIndex
<1>1. /\ image.assignments = [a \in Assignments |-> image.assignments[a]]
      /\ \A a \in Assignments : image.assignments[a].gen = 0
      /\ image.assignments_by_subject = EmptyIndex /\ replayed = EmptyIndex
  BY DEF Init, EmptyImage, Undefined
<1>2. Defined(image.assignments) = {}
  BY <1>1 DEF Defined
<1>3. \A s \in Subjects, a \in Assignments : EmptyIndex[s][a] = 0
  BY DEF EmptyIndex
<1>4. ~(0 > 0)
  OBVIOUS
<1> QED BY <1>1, <1>2, <1>3, <1>4, Zenon DEF HonestIndex

\* A step that publishes nothing keeps what is stored and takes the index as it was, or makes it anew.
LEMMA HonestStep ==
    ASSUME RegistryInv, [Next]_vars, HonestIndex
    PROVE  HonestIndex'
<1>0. Shape /\ Known
  BY DEF RegistryInv
<1>1. ASSUME NEW a \in Defined(image'.assignments) PROVE Submitted(a, image'.assignments[a].def.subject)
  <2>1. a \in Assignments
    BY <1>0, ShapeStep DEF Shape, Defined
  <2>2. CASE image'.assignments[a].def = image.assignments[a].def /\ a \in Defined(image.assignments)
    BY <2>2 DEF HonestIndex
  <2>3. ASSUME NEW d \in AssignmentDefs, d.id = a, PublishStep(d)
        PROVE  Submitted(a, image'.assignments[a].def.subject)
    <3>1. image'.assignments[d.id].def.subject = d.subject
      BY <2>3 DEF PublishStep, Stamped
    <3> QED BY <2>3, <3>1 DEF Submitted
  <2> QED BY <1>0, <1>1, <2>1, <2>2, <2>3, AssignmentEntries, Zenon
<1>2. Defined(image.assignments) \subseteq Defined(image'.assignments)
  BY <1>0, DefinedStays DEF Tables
<1>3. ASSUME image'.assignments_by_subject \in {image.assignments_by_subject, replayed}, replayed' = replayed
      PROVE  HonestIndex'
  BY <1>1, <1>2, <1>3 DEF HonestIndex
<1>4. ASSUME CheckpointStep PROVE HonestIndex'
  <2>1. ASSUME NEW s \in Subjects, NEW a \in Assignments, rebuild_indexes(image.assignments)[s][a] > 0
        PROVE  Submitted(a, s) /\ a \in Defined(image.assignments)
    <3>1. image.assignments[a].gen > 0 /\ image.assignments[a].def.subject = s
      BY <2>1 DEF rebuild_indexes
    <3>2. a \in Defined(image.assignments)
      BY <1>0, <3>1 DEF Shape, Defined
    <3> QED BY <3>1, <3>2, Zenon DEF HonestIndex
  <2> QED BY <1>1, <1>4, <2>1 DEF HonestIndex, CheckpointStep
<1>5. ASSUME NEW d \in AssignmentDefs, PublishStep(d) PROVE HonestIndex'
  <2>1. d.id \in Assignments /\ d.subject \in Subjects
    BY RegistryBounds
  <2>2. /\ image.assignments_by_subject \in [Subjects -> [Assignments -> Nat]]
        /\ replayed \in [Subjects -> [Assignments -> Nat]]
    BY <1>0 DEF Shape
  <2>3. /\ image'.assignments_by_subject = Insert(image.assignments_by_subject, d.subject, d.id)
        /\ replayed' = Insert(replayed, d.subject, d.id)
        /\ image'.assignments[d.id].gen = image.assignments[d.id].gen + 1
    BY <1>5 DEF PublishStep
  <2>4. d.id \in Defined(image'.assignments) /\ Submitted(d.id, d.subject)
    <3>1. d.id \in DOMAIN image'.assignments /\ image.assignments[d.id].gen \in Nat
      BY <1>0, <2>1, ShapeStep DEF Shape, Tables
    <3>2. d.id \in Defined(image'.assignments)
      BY <2>3, <3>1 DEF Defined
    <3> QED BY <3>2 DEF Submitted
  <2>5. ASSUME NEW s \in Subjects, NEW a \in Assignments,
               image'.assignments_by_subject[s][a] > 0 \/ replayed'[s][a] > 0
        PROVE  Submitted(a, s) /\ a \in Defined(image'.assignments)
    <3>1. \/ image.assignments_by_subject[s][a] > 0 \/ replayed[s][a] > 0
          \/ s = d.subject /\ a = d.id
      <4>1. ASSUME image'.assignments_by_subject[s][a] > 0
            PROVE  image.assignments_by_subject[s][a] > 0 \/ (s = d.subject /\ a = d.id)
        <5>1. Insert(image.assignments_by_subject, d.subject, d.id)[s][a] > 0
          BY <2>3, <4>1
        <5> QED BY <2>1, <2>2, <5>1 DEF Insert
      <4>2. ASSUME replayed'[s][a] > 0
            PROVE  replayed[s][a] > 0 \/ (s = d.subject /\ a = d.id)
        <5>1. Insert(replayed, d.subject, d.id)[s][a] > 0
          BY <2>3, <4>2
        <5> QED BY <2>1, <2>2, <5>1 DEF Insert
      <4> QED BY <2>5, <4>1, <4>2
    <3>2. CASE image.assignments_by_subject[s][a] > 0 \/ replayed[s][a] > 0
      BY <1>2, <3>2 DEF HonestIndex
    <3> QED BY <2>4, <3>1, <3>2
  <2> QED BY <1>1, <2>5 DEF HonestIndex
<1>6. \/ image'.assignments_by_subject \in {image.assignments_by_subject, replayed} /\ replayed' = replayed
      \/ \E d \in AssignmentDefs : PublishStep(d)
      \/ CheckpointStep
  <2>1. ASSUME NEW t, NEW x, NEW e, Replaced(t, x, e)
        PROVE  image'.assignments_by_subject = image.assignments_by_subject /\ replayed' = replayed
    BY <2>1 DEF Replaced
  <2>2. \A d : (ClassStep(d) \/ ScopeStep(d) \/ PolicyStep(d) \/ SubjectStep(d)) => \E t, x, e : Replaced(t, x, e)
    BY DEF ClassStep, ScopeStep, PolicyStep, SubjectStep, Revised
  <2>3. \A a : (RepublishStep(a) \/ RetireStep(a)) => \E t, x, e : Replaced(t, x, e)
    BY DEF RepublishStep, RetireStep
  <2>4. ReopenStep => image'.assignments_by_subject = replayed /\ replayed' = replayed
    BY DEF ReopenStep
  <2> QED BY <1>0, <2>1, <2>2, <2>3, <2>4, StepKinds, Zenon
<1> QED BY <1>3, <1>4, <1>5, <1>6

\* No bucket ever holds an identifier that was not published for its subject.
THEOREM IndexIsHonest == Spec => []HonestIndex
<1>1. Init => HonestIndex
  BY HonestInit
<1>2. RegistryInv /\ [Next]_vars /\ HonestIndex => HonestIndex'
  BY HonestStep
<1> QED BY <1>1, <1>2, RegistryInvariant, PTL DEF Spec
=============================================================================
