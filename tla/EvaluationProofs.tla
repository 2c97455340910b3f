-------------------------- MODULE EvaluationProofs --------------------------
(***************************************************************************)
(* The theorems about evaluation, for any sets of identifiers, definitions *)
(* and queries and any limits, from the invariants that RegistryProofs     *)
(* shows and the lemmas of EvaluationLemmas about one state.               *)
(***************************************************************************)
EXTENDS RegistryProofs, EvaluationLemmas

(* Stale evidence.                                                         *)

\* Staleness is final for one step of the registry: generations never go back, so a bound
\* generation that was left behind is never reached again, and a retired assignment whose entry
\* does not change stays retired.
LEMMA StaleStays ==
    ASSUME RegistryInv, [Next]_vars, NEW a, a \in Defined(image.assignments),
           image'.assignments[a] = image.assignments[a],
           ~image.assignments[a].active \/ ~Bound(image, a)
    PROVE  Refusal(World(image', epoch', granted'), a) # "Ok"
<1> DEFINE w == World(image', epoch', granted')
           d == image.assignments[a].def
<1>1. /\ w.assignments = image'.assignments /\ w.subjects = image'.subjects
      /\ w.scopes = image'.scopes /\ w.classes = image'.classes /\ w.policies = image'.policies
  BY DEF World
<1> HIDE DEF w
<1>2. CASE ~image.assignments[a].active
  <2>1. w.assignments[a] = image.assignments[a]
    BY <1>1
  <2>2. ~w.assignments[a].active
    BY <1>2, <2>1
  <2> QED BY <2>2, RefusalOk DEF w
<1>3. CASE ~Bound(image, a)
  <2>1. d.subject \in Subjects /\ d.scope \in Scopes /\ d.cls \in Classes /\ d.policy \in Policies \cup {Absent}
    BY DEF RegistryInv, Known, NamesKnown
  <2>2. /\ d.subject_generation \in 1 .. image.subjects[d.subject].gen
        /\ d.scope_generation \in 1 .. image.scopes[d.scope].gen
        /\ d.class_generation \in 1 .. image.classes[d.cls].gen
        /\ d.policy # Absent => d.policy_generation \in 1 .. image.policies[d.policy].gen
    BY Zenon DEF RegistryInv, AllResolve, AssignmentsResolve
  <2>3. Shape /\ Known /\ Shape'
    BY ShapeStep DEF RegistryInv
  <2>4. \A x \in Subjects : image'.subjects[x].gen >= image.subjects[x].gen /\ image'.subjects[x].gen \in Nat
                            /\ image.subjects[x].gen \in Nat
    BY <2>3, GenerationsGrow DEF Shape, Tables
  <2>5. \A x \in Scopes : image'.scopes[x].gen >= image.scopes[x].gen /\ image'.scopes[x].gen \in Nat
                          /\ image.scopes[x].gen \in Nat
    BY <2>3, GenerationsGrow DEF Shape, Tables
  <2>6. \A x \in Classes : image'.classes[x].gen >= image.classes[x].gen /\ image'.classes[x].gen \in Nat
                           /\ image.classes[x].gen \in Nat
    BY <2>3, GenerationsGrow DEF Shape, Tables
  <2>7. \A x \in Policies : image'.policies[x].gen >= image.policies[x].gen /\ image'.policies[x].gen \in Nat
                            /\ image.policies[x].gen \in Nat
    BY <2>3, GenerationsGrow DEF Shape, Tables
  <2>8. \A g, m, n : (m \in Nat /\ n \in Nat /\ n >= m /\ g \in 1 .. m /\ g # m) => g # n
    OBVIOUS
  <2>9. \/ image.subjects[d.subject].gen # d.subject_generation
        \/ image.scopes[d.scope].gen # d.scope_generation
        \/ image.classes[d.cls].gen # d.class_generation
        \/ d.policy # Absent /\ image.policies[d.policy].gen # d.policy_generation
    BY <1>3, Zenon DEF Bound
  <2>10. \/ image'.subjects[d.subject].gen # d.subject_generation
         \/ image'.scopes[d.scope].gen # d.scope_generation
         \/ image'.classes[d.cls].gen # d.class_generation
         \/ d.policy # Absent /\ image'.policies[d.policy].gen # d.policy_generation
    <3>1. CASE image.subjects[d.subject].gen # d.subject_generation
      BY <3>1, <2>1, <2>2, <2>4, <2>8, Zenon
    <3>2. CASE image.scopes[d.scope].gen # d.scope_generation
      BY <3>2, <2>1, <2>2, <2>5, <2>8, Zenon
    <3>3. CASE image.classes[d.cls].gen # d.class_generation
      BY <3>3, <2>1, <2>2, <2>6, <2>8, Zenon
    <3>4. CASE d.policy # Absent /\ image.policies[d.policy].gen # d.policy_generation
      BY <3>4, <2>1, <2>2, <2>7, <2>8, Zenon
    <3> QED BY <2>9, <3>1, <3>2, <3>3, <3>4, Zenon
  <2>11. ~Bound(w, a)
    BY <1>1, <2>10, Zenon DEF Bound
  <2> QED BY <2>11, RefusalOk DEF w
<1> QED BY <1>2, <1>3, Zenon

\* A superseded definition never silently authorizes a decision again: evidence bound to it stays
\* refused until it is published again, even if the definition is changed back.
THEOREM StaleEvidenceIsFinal == Spec => StaleIsFinal
<1> DEFINE Final == \A a \in Defined(image.assignments) :
           LET d == image.assignments[a].def
           IN  (/\ image'.assignments[a] = image.assignments[a]
                /\ \/ ~image.assignments[a].active
                   \/ d.subject_generation # image.subjects[d.subject].gen
                   \/ d.scope_generation # image.scopes[d.scope].gen
                   \/ d.class_generation # image.classes[d.cls].gen
                   \/ d.policy # Absent /\ d.policy_generation # image.policies[d.policy].gen)
               => Refusal(World(image', epoch', granted'), a) # "Ok"
<1>1. ASSUME RegistryInv, [Next]_vars PROVE Final
  BY <1>1, StaleStays, Zenon DEF Bound
<1>2. RegistryInv /\ [Next]_vars => [Final]_vars
  BY <1>1, Zenon
<1> QED BY <1>2, RegistryInvariant, PTL DEF Spec, StaleIsFinal

-----------------------------------------------------------------------------
(* Identical republication.                                                *)

\* No definition says anything new in this step.
Quiet == \A t \in Tables : \A x \in DOMAIN image[t] : Meaning(t, image'[t][x]) = Meaning(t, image[t][x])

\* A step that says nothing new leaves every generation, and the tables with plain definitions say
\* the same.
LEMMA QuietTables ==
    ASSUME RegistryInv, [Next]_vars, Quiet, NEW t, t \in Tables
    PROVE  /\ DOMAIN image'[t] = DOMAIN image[t]
           /\ \A x \in DOMAIN image[t] : image'[t][x].gen = image[t][x].gen
           /\ \A defs \in {ClassDefs, ScopeDefs, SubjectDefs} :
                  FromSubmitted(image[t], defs) /\ FromSubmitted(image'[t], defs) => SameTable(image[t], image'[t])
<1>1. DOMAIN image'[t] = DOMAIN image[t]
  BY GenerationsGrow DEF RegistryInv
<1>2. \A x \in DOMAIN image[t] : image'[t][x].gen = image[t][x].gen
  BY EntriesTrack DEF Tracks, Quiet
<1>3. ASSUME NEW defs \in {ClassDefs, ScopeDefs, SubjectDefs},
             FromSubmitted(image[t], defs), FromSubmitted(image'[t], defs), NEW x \in DOMAIN image[t]
      PROVE  image'[t][x].def = image[t][x].def
  <2>1. Content(image'[t][x].def) = Content(image[t][x].def)
    <3>1. Meaning(t, image'[t][x]) = Meaning(t, image[t][x])
      BY <1>3 DEF Quiet
    <3> QED BY <3>1, MeaningContent
  <2>2. CASE image[t][x].gen = 0
    BY <1>1, <1>2, <1>3, <2>2, Zenon DEF FromSubmitted
  <2>3. CASE image[t][x].gen # 0
    <3>1. image[t][x].def \in defs /\ image'[t][x].def \in defs
      BY <1>1, <1>2, <1>3, <2>3, Zenon DEF FromSubmitted
    <3>2. defs \subseteq ClassDefs \cup ScopeDefs \cup SubjectDefs
      OBVIOUS
    <3> QED BY <2>1, <3>1, <3>2, PlainContent, Zenon
  <2> QED BY <2>2, <2>3
<1> QED BY <1>1, <1>2, <1>3 DEF SameTable

\* After a step that says nothing new, evaluation walks tables that say the same.
LEMMA QuietAlike ==
    ASSUME RegistryInv, [Next]_vars, Quiet
    PROVE  Alike(Now, World(image', epoch', granted')) /\ SameTable(image.subjects, image'.subjects)
<1>1. Known /\ Known' /\ Shape /\ Shape'
  BY StepPreserves DEF RegistryInv
<1>2. /\ FromSubmitted(image.classes, ClassDefs) /\ FromSubmitted(image'.classes, ClassDefs)
      /\ FromSubmitted(image.scopes, ScopeDefs) /\ FromSubmitted(image'.scopes, ScopeDefs)
      /\ FromSubmitted(image.subjects, SubjectDefs) /\ FromSubmitted(image'.subjects, SubjectDefs)
      /\ FromSubmitted(image.policies, StampedPolicies) /\ FromSubmitted(image'.policies, StampedPolicies)
  BY <1>1 DEF Known
<1>3. "classes" \in Tables /\ "scopes" \in Tables /\ "subjects" \in Tables /\ "policies" \in Tables
  BY DEF Tables
<1>4. SameTable(image.classes, image'.classes) /\ SameTable(image.scopes, image'.scopes)
      /\ SameTable(image.subjects, image'.subjects)
  BY <1>2, <1>3, QuietTables, Zenon
<1>5. SamePolicies(image.policies, image'.policies)
  <2>1. /\ DOMAIN image'.policies = DOMAIN image.policies
        /\ \A x \in DOMAIN image.policies : image'.policies[x].gen = image.policies[x].gen
    BY <1>3, QuietTables, Zenon
  <2>2. ASSUME NEW x \in DOMAIN image.policies
        PROVE  /\ image'.policies[x].def.scope = image.policies[x].def.scope
               /\ image'.policies[x].def.visible_classes = image.policies[x].def.visible_classes
    <3>1. CASE image.policies[x].gen = 0
      <4>1. image.policies[x].def = Absent
        BY <1>2, <2>2, <3>1 DEF FromSubmitted
      <4>2. image'.policies[x].def = Absent
        BY <1>2, <2>1, <2>2, <3>1, Zenon DEF FromSubmitted
      <4> QED BY <4>1, <4>2
    <3>2. CASE image.policies[x].gen # 0
      <4>1. image.policies[x].def \in StampedPolicies /\ image'.policies[x].def \in StampedPolicies
        BY <1>2, <2>1, <2>2, <3>2, Zenon DEF FromSubmitted
      <4>2. Content(image'.policies[x].def) = Content(image.policies[x].def)
        <5>1. Meaning("policies", image'.policies[x]) = Meaning("policies", image.policies[x])
          BY <1>3, <2>2 DEF Quiet
        <5> QED BY <1>3, <5>1, MeaningContent
      <4> QED BY <4>1, <4>2, PolicyContent
    <3> QED BY <3>1, <3>2, Zenon
  <2> QED BY <2>1, <2>2 DEF SamePolicies
<1>6. /\ Now.classes = image.classes /\ Now.scopes = image.scopes /\ Now.policies = image.policies
      /\ World(image', epoch', granted').classes = image'.classes
      /\ World(image', epoch', granted').scopes = image'.scopes
      /\ World(image', epoch', granted').policies = image'.policies
  BY DEF Now, World
<1> QED BY <1>4, <1>5, <1>6 DEF Alike

\* The authority a stored assignment was last published under.
BindingKept(a) ==
    \/ image'.assignments[a].by = image.assignments[a].by
    \/ \E actor \in granted : image'.assignments[a].by = Binding(actor)

\* An accepted definition leaves the assignments.
LEMMA DefineLeavesAssignments ==
    ASSUME RegistryInv, NEW actor, NEW name, name \in Definable, NEW def, NEW status,
           def.id \in DOMAIN image[name], Define(actor, name, def, status)
    PROVE  image'.assignments = image.assignments
<1>1. "assignments" \in Tables /\ "assignments" # name
  BY DEF Tables, Definable
<1>2. Shape
  BY DEF RegistryInv
<1> DEFINE e == Applied(image[name][def.id], def, Binding(actor))
<1>3. UNCHANGED <<image, replayed>> \/ Replaced(name, def.id, e)
  BY <1>2, DefineReplaces
<1> HIDE DEF e
<1>4. CASE Replaced(name, def.id, e)
  BY <1>1, <1>4 DEF Replaced
<1> QED BY <1>3, <1>4

\* Whoever republishes an assignment without moving its generation holds authority; nobody else
\* changes the authority it is bound to.
LEMMA BindingsKept ==
    ASSUME RegistryInv, [Next]_vars, NEW a, a \in Assignments,
           image'.assignments[a].gen = image.assignments[a].gen
    PROVE  BindingKept(a)
<1>0. /\ "assignments" \in DOMAIN image /\ DOMAIN image.assignments = Assignments
      /\ \A x \in Assignments : {"gen", "def", "by", "active"} \subseteq DOMAIN image.assignments[x]
                                /\ image.assignments[x].gen \in Nat
  BY DEF RegistryInv, Shape, Tables
<1>1. CASE image'.assignments = image.assignments
  BY <1>1 DEF BindingKept
<1>2. ASSUME NEW actor, NEW d \in AssignmentDefs, Assign(actor, d), image'.assignments # image.assignments
      PROVE  BindingKept(a)
  <2>1. /\ Authorized(actor, AssignStatus(image, d)) = "Ok"
        /\ Republish(actor, d.id, Stamped(image, d)) \/ Publish(actor, d.id, Stamped(image, d))
    BY <1>2 DEF Assign, Refuse
  <2>2. actor \in granted
    BY <2>1, AuthorizedIsGranted
  <2>3. d.id \in Assignments
    BY RegistryBounds
  <2>4. CASE Republish(actor, d.id, Stamped(image, d))
    <3>1. image'.assignments = [image.assignments EXCEPT ![d.id].by = Binding(actor)]
      BY <1>0, <2>4 DEF Republish
    <3>2. image'.assignments[a].by = IF a = d.id THEN Binding(actor) ELSE image.assignments[a].by
      <4> DEFINE b == Binding(actor)
      <4> HIDE DEF b
      <4>1. image'.assignments = [image.assignments EXCEPT ![d.id].by = b]
        BY <3>1 DEF b
      <4> QED BY <1>0, <2>3, <4>1 DEF b
    <3> QED BY <2>2, <3>2 DEF BindingKept
  <2>5. CASE Publish(actor, d.id, Stamped(image, d))
    <3> DEFINE entry == Reassigned(image.assignments[d.id], Stamped(image, d), actor)
    <3>1. image'.assignments = [image.assignments EXCEPT ![d.id] = entry]
      BY <1>0, <2>5 DEF Publish
    <3>2. entry.gen = image.assignments[d.id].gen + 1
      BY DEF Reassigned
    <3>3. a # d.id
      <4> HIDE DEF entry
      <4> QED BY <1>0, <2>3, <3>1, <3>2
    <3>4. image'.assignments[a] = image.assignments[a]
      <4> HIDE DEF entry
      <4> QED BY <1>0, <3>1, <3>3
    <3> QED BY <3>4 DEF BindingKept
  <2> QED BY <2>1, <2>4, <2>5
<1>3. ASSUME NEW actor, NEW x \in Assignments, RetireAssignment(actor, x), image'.assignments # image.assignments
      PROVE  BindingKept(a)
  <2>1. image'.assignments = [image.assignments EXCEPT ![x] = Retired(image.assignments[x])]
    BY <1>0, <1>3 DEF RetireAssignment, Refuse
  <2>2. Retired(image.assignments[x]).by = image.assignments[x].by
    BY <1>0 DEF Retired
  <2>3. image'.assignments[a].by = image.assignments[a].by
    <3> DEFINE e == Retired(image.assignments[x])
    <3> HIDE DEF e
    <3>1. image'.assignments = [image.assignments EXCEPT ![x] = e] /\ e.by = image.assignments[x].by
      BY <2>1, <2>2 DEF e
    <3> QED BY <1>0, <3>1
  <2> QED BY <2>3 DEF BindingKept
<1>4. ASSUME NEW actor, NEW d, \/ d \in ClassDefs /\ DefineClass(actor, d)
                               \/ d \in ScopeDefs /\ DefineScope(actor, d)
                               \/ d \in SubjectDefs /\ DefineSubject(actor, d)
      PROVE  image'.assignments = image.assignments
  <2>1. /\ "classes" \in Definable /\ "scopes" \in Definable /\ "subjects" \in Definable
        /\ image["classes"] = image.classes /\ image["scopes"] = image.scopes /\ image["subjects"] = image.subjects
    BY DEF Definable, Tables
  <2>2. /\ d \in ClassDefs => d.id \in DOMAIN image["classes"]
        /\ d \in ScopeDefs => d.id \in DOMAIN image["scopes"]
        /\ d \in SubjectDefs => d.id \in DOMAIN image["subjects"]
    BY RegistryBounds DEF RegistryInv, Shape
  <2> QED BY <1>4, <2>1, <2>2, DefineLeavesAssignments DEF DefineClass, DefineScope, DefineSubject
<1>5. ASSUME NEW actor, NEW d \in PolicyDefs, DefinePolicy(actor, d)
      PROVE  image'.assignments = image.assignments
  <2> DEFINE stamped == [d EXCEPT !.scope_generation = image.scopes[d.scope].gen]
  <2>1. stamped.id = d.id
    BY DefinitionFields
  <2>2. "policies" \in Definable /\ stamped.id \in DOMAIN image["policies"]
    BY <2>1, RegistryBounds, Zenon DEF RegistryInv, Shape, Definable, Tables
  <2>3. Define(actor, "policies", stamped, DefinePolicyStatus(image, d))
    BY <1>5 DEF DefinePolicy
  <2> HIDE DEF stamped
  <2> QED BY <2>2, <2>3, DefineLeavesAssignments
<1>6. ASSUME \/ UNCHANGED vars
             \/ \E i \in Incarnations : Grant(i) \/ Fence(i)
             \/ AdvanceEpoch \/ Checkpoint \/ Reopen
      PROVE  image'.assignments = image.assignments
  <2>1. CASE Reopen
    BY <1>0, <2>1 DEF Reopen
  <2>2. CASE ~Reopen
    BY <1>6, <2>2 DEF vars, Grant, Fence, AdvanceEpoch, Checkpoint
  <2> QED BY <2>1, <2>2
<1> QED BY <1>1, <1>2, <1>3, <1>4, <1>5, <1>6, Zenon DEF Next

\* Publishing identical content again never invalidates evidence: the generations stay, the tables
\* that admit a class say the same, and a republished assignment is bound to live authority.
THEOREM RepublishingIsHarmless == Spec => RepublicationHarmless
<1> DEFINE Harmless == (/\ granted \subseteq granted' /\ epoch' = epoch
                        /\ \A t \in Tables : \A x \in DOMAIN image[t] :
                               Meaning(t, image'[t][x]) = Meaning(t, image[t][x]))
                       => \A a \in Defined(image.assignments) :
                              Refusal(World(image, epoch, granted), a) = "Ok" =>
                                  Refusal(World(image', epoch', granted'), a) = "Ok"
<1>1. ASSUME RegistryInv, [Next]_vars, granted \subseteq granted', epoch' = epoch, Quiet,
             NEW a \in Defined(image.assignments), Refusal(Now, a) = "Ok"
      PROVE  Refusal(World(image', epoch', granted'), a) = "Ok"
  <2> DEFINE w == World(image', epoch', granted')
             d == image.assignments[a].def
  <2>1. a \in Assignments /\ a \in DOMAIN image.assignments
    BY <1>1 DEF RegistryInv, Shape, Defined
  <2>2. /\ w.assignments = image'.assignments /\ w.subjects = image'.subjects
        /\ w.scopes = image'.scopes /\ w.classes = image'.classes /\ w.policies = image'.policies
        /\ w.granted = granted' /\ w.epoch = epoch'
        /\ Now.assignments = image.assignments /\ Now.subjects = image.subjects
        /\ Now.scopes = image.scopes /\ Now.classes = image.classes /\ Now.policies = image.policies
        /\ Now.granted = granted /\ Now.epoch = epoch
    BY DEF World, Now
  <2>3. image.assignments[a].active /\ image.assignments[a].by.incarnation \in granted
        /\ image.assignments[a].by.epoch = epoch /\ Bound(image, a) /\ Visible(Now, d.cls, d.scope)
    <3> HIDE DEF Now
    <3>1. /\ Now.assignments[a].active /\ Now.assignments[a].by.incarnation \in Now.granted
          /\ Now.assignments[a].by.epoch = Now.epoch /\ Bound(Now, a)
          /\ Visible(Now, Now.assignments[a].def.cls, Now.assignments[a].def.scope)
      BY <1>1, RefusalOk
    <3>2. image.assignments[a].active
      BY <2>2, <3>1
    <3>3. Bound(image, a)
      BY <2>2, <3>1, Zenon DEF Bound
    <3>4. Visible(Now, d.cls, d.scope)
      BY <2>2, <3>1
    <3> QED BY <2>2, <3>1, <3>2, <3>3, <3>4, Zenon
  <2> HIDE DEF w
  <2>4. "assignments" \in Tables /\ "classes" \in Tables /\ "scopes" \in Tables /\ "subjects" \in Tables
        /\ "policies" \in Tables
    BY DEF Tables
  <2>5. image'.assignments[a].gen = image.assignments[a].gen
    BY <1>1, <2>1, <2>4, QuietTables
  <2>6. image'.assignments[a].def = d
    <3>1. image.assignments[a].gen \in Nat /\ Shape /\ Known
      BY <1>1, <2>1, <2>4 DEF RegistryInv, Shape
    <3>2. ASSUME NEW x \in AssignmentDefs, x.id = a, PublishStep(x) PROVE FALSE
      <4>1. image'.assignments[a].gen = image.assignments[a].gen + 1
        BY <3>2 DEF PublishStep
      <4> QED BY <2>5, <3>1, <4>1
    <3> QED BY <1>1, <2>1, <3>1, <3>2, AssignmentEntries, Zenon
  <2>7. image'.assignments[a].active
    <3>1. Meaning("assignments", image'.assignments[a]) = Meaning("assignments", image.assignments[a])
      BY <1>1, <2>1, <2>4 DEF Quiet
    <3>2. image'.assignments[a].active = image.assignments[a].active
      BY <3>1, AssignmentMeaning
    <3> QED BY <2>3, <3>2
  <2>8. image'.assignments[a].by.incarnation \in granted' /\ image'.assignments[a].by.epoch = epoch'
    <3>1. BindingKept(a)
      BY <1>1, <2>1, <2>5, BindingsKept, Zenon
    <3>2. CASE image'.assignments[a].by = image.assignments[a].by
      BY <1>1, <2>3, <3>2
    <3>3. ASSUME NEW actor \in granted, image'.assignments[a].by = Binding(actor)
          PROVE  image'.assignments[a].by.incarnation \in granted' /\ image'.assignments[a].by.epoch = epoch'
      <4>1. Binding(actor).incarnation = actor /\ Binding(actor).epoch = epoch
        BY DEF Binding
      <4> QED BY <1>1, <3>3, <4>1
    <3> QED BY <3>1, <3>2, <3>3 DEF BindingKept
  <2>9. d.subject \in Subjects /\ d.scope \in Scopes /\ d.cls \in Classes /\ d.policy \in Policies \cup {Absent}
    BY <1>1 DEF RegistryInv, Known, NamesKnown
  <2>10. Bound(w, a)
    <3>1. /\ \A x \in Subjects : image'.subjects[x].gen = image.subjects[x].gen
          /\ \A x \in Scopes : image'.scopes[x].gen = image.scopes[x].gen
          /\ \A x \in Classes : image'.classes[x].gen = image.classes[x].gen
          /\ \A x \in Policies : image'.policies[x].gen = image.policies[x].gen
      BY <1>1, <2>4, QuietTables DEF RegistryInv, Shape
    <3>2. /\ image'.subjects[d.subject].gen = d.subject_generation
          /\ image'.scopes[d.scope].gen = d.scope_generation
          /\ image'.classes[d.cls].gen = d.class_generation
          /\ d.policy # Absent => image'.policies[d.policy].gen = d.policy_generation
      BY <2>3, <2>9, <3>1, Zenon DEF Bound
    <3> QED BY <2>2, <2>6, <3>2, Zenon DEF Bound
  <2>11. Visible(w, d.cls, d.scope)
    <3>1. Sound(Now) /\ Alike(Now, w)
      BY <1>1, SoundNow, QuietAlike DEF w
    <3>2. d.scope_generation \in 1 .. image.scopes[d.scope].gen /\ d.scope \in DOMAIN image.scopes
      BY <1>1, <2>9, Zenon DEF RegistryInv, AllResolve, AssignmentsResolve, Shape
    <3>3. image.scopes[d.scope].gen \in Nat
      BY <1>1, <2>9 DEF RegistryInv, Shape, Tables
    <3>4. image.scopes[d.scope].gen > 0
      <4>1. ASSUME NEW g \in Nat, NEW n \in 1 .. g PROVE g > 0
        OBVIOUS
      <4> QED BY <3>2, <3>3, <4>1, Zenon
    <3>5. d.scope \in Defined(Now.scopes)
      <4> HIDE DEF Now
      <4> QED BY <2>2, <3>2, <3>4, Zenon DEF Defined
    <3> HIDE DEF Now, d
    <3> QED BY <2>3, <2>9, <3>1, <3>5, VisibleAlike, Zenon
  <2> QED
    <3> HIDE DEF Now, d
    <3>1. w.assignments[a].def = d
      BY <2>2, <2>6
    <3>2. w.assignments[a].active
      BY <2>2, <2>7
    <3>3. w.assignments[a].by.incarnation \in w.granted /\ w.assignments[a].by.epoch = w.epoch
      BY <2>2, <2>8
    <3>4. Refusal(w, a) = "Ok"
      BY <2>10, <2>11, <3>1, <3>2, <3>3, RefusalOk, Zenon
    <3> QED BY <3>4 DEF w
<1>2. RegistryInv /\ [Next]_vars => [Harmless]_vars
  BY <1>1 DEF Quiet, Now
<1> QED BY <1>2, RegistryInvariant, PTL DEF Spec, RepublicationHarmless

-----------------------------------------------------------------------------
(* Decisions.                                                              *)

\* Absence of knowledge is never mistaken: evaluate_query answers UNKNOWN, or a scope's declared
\* default, only when no assignment at all was made for the query.
THEOREM UnknownHasNoEvidence == Spec => []UnknownMeansNoEvidence
<1>1. RegistryInv => UnknownMeansNoEvidence
  BY SilenceIsTrue
<1> QED BY <1>1, RegistryInvariant, PTL

\* Whatever happened before, no decision ever rests on evidence that is retired, whose publisher lost
\* its authority, or that is bound to a superseded epoch or definition (collect_for_subject).
THEOREM WinnersAreLive ==
    Spec => [](\A q \in Queries : Decision(q).winner # Absent => LiveWinner(Decision(q)))
<1>1. RegistryInv => \A q \in Queries : Decision(q).winner # Absent => LiveWinner(Decision(q))
  BY WinnerLives
<1> QED BY <1>1, RegistryInvariant, PTL

\* When an identifier always names the same subject, every decision rests on an assignment that was
\* made for the query and is live.
THEOREM DecisionsAreLive ==
    ASSUME SubjectsFixed
    PROVE  Spec => []DecisionsRestOnLiveEvidence
<1>1. RegistryInv /\ HonestIndex => DecisionsRestOnLiveEvidence
  BY LiveDecisions
<1> QED BY <1>1, RegistryInvariant, IndexIsHonest, PTL

\* Contradictory evidence never goes unnoticed: while identifiers keep their subject and no scan
\* meets its budget, contradictory assignments of the deciding level make the outcome CONFLICT and
\* are all named in it, whichever wins (resolve_conflict in evaluate_query).
THEOREM ContradictionsReported ==
    ASSUME SubjectsFixed
    PROVE  Spec => [](WithinBudget => ConflictsReported)
<1>1. RegistryInv /\ HonestIndex => (WithinBudget => ConflictsReported)
  BY RivalsNamed
<1> QED BY <1>1, RegistryInvariant, IndexIsHonest, PTL

\* A decision does not depend on how the registry came to be: while identifiers keep their subject and
\* no scan meets its budget, an image whose index was rebuilt from a snapshot decides every query as
\* the running one does, although their buckets may differ in how often they hold an identifier.
THEOREM HistoryIsIrrelevant ==
    ASSUME SubjectsFixed
    PROVE  Spec => [](WithinBudget => DecisionIgnoresHistory)
<1>1. RegistryInv /\ HonestIndex => (WithinBudget => DecisionIgnoresHistory)
  BY RebuiltDecides
<1> QED BY <1>1, RegistryInvariant, IndexIsHonest, PTL

-----------------------------------------------------------------------------
(* Narrower scopes.                                                        *)

\* The evidence of the subject itself is decided upon when any of it is usable.
LEMMA OwnDecides ==
    ASSUME NEW w, NEW q, Admitted(w, q), Accepted(Verdicts(w, q, q.subject, 0)) # {}
    PROVE  \E e : /\ evaluate_query(w, q) = Decide(w, q, e)
                  /\ e.accepted = Left(w, q, <<0, q.subject>>)
<1> DEFINE own == Verdicts(w, q, q.subject, 0)
           c == Collect(w, q)
           e == Filtered(w, q, c)
<1>1. evaluate_query(w, q) = Decide(w, q, e)
  BY DEF Admitted, evaluate_query
<1>2. c = Evidence(0, own, {})
  BY DEF Collect, CollectAfter
<1>3. c.accepted = Accepted(own)
  <2> HIDE DEF c, own
  <2> QED BY <1>2 DEF Evidence
<1>4. {"accepted", "rejected"} \subseteq DOMAIN c
  BY CollectDomain
<1>5. e.accepted = {a \in c.accepted : Misfit(w, q, c.accepted, a) = "Ok"}
  <2> HIDE DEF c
  <2> QED BY <1>4, FilterFields
<1>6. Left(w, q, <<0, q.subject>>) = {a \in Accepted(own) : Misfit(w, q, Accepted(own), a) = "Ok"}
  BY DEF Left
<1> HIDE DEF own, c, e
<1>7. e.accepted = Left(w, q, <<0, q.subject>>)
  BY <1>3, <1>5, <1>6, Zenon
<1> QED BY <1>1, <1>7

\* The winner and the class of a decision on evidence that is not empty.
LEMMA DecidedWinner ==
    ASSUME NEW w, NEW q, NEW e, e.accepted # {}
    PROVE  LET D == Decide(w, q, e)
               x == Winner(w, q, DecidingLevel(w, q, e.accepted), Winning(w, q, e.accepted))
           IN  D.winner = x /\ D.cls = IF x = Absent THEN Absent ELSE w.assignments[x].def.cls
<1> DEFINE T == Winning(w, q, e.accepted)
           x == Winner(w, q, DecidingLevel(w, q, e.accepted), T)
           D == Decide(w, q, e)
<1>1. D = Award(w, e, T, x)
  BY DEF Decide, AwardAt, Winning
<1>2. /\ Award(w, e, T, x).winner = x
      /\ Award(w, e, T, x).cls = IF x = Absent THEN Absent ELSE w.assignments[x].def.cls
  <2> HIDE DEF x, T
  <2> QED BY DEF Award
<1> HIDE DEF x, T, D
<1>3. D.winner = x /\ D.cls = IF x = Absent THEN Absent ELSE w.assignments[x].def.cls
  BY <1>1, <1>2
<1> QED BY <1>3 DEF x, T, D

\* World w is world v with assignment a published: nothing else of it changes.
Adds(v, w, a) ==
    /\ SameDefinitions(v, w) /\ w.epoch = v.epoch /\ w.granted = v.granted
    /\ \A b \in Assignments \ {a} :
          /\ w.assignments[b] = v.assignments[b]
          /\ \A s \in Subjects : w.assignments_by_subject[s][b] = v.assignments_by_subject[s][b]

\* The other assignments keep their levels and their verdicts.
LEMMA OthersStand ==
    ASSUME NEW v, NEW w, NEW a, Adds(v, w, a), NEW q, NEW b \in Assignments \ {a}
    PROVE  Level(w, q, b) = Level(v, q, b) /\ Refusal(w, b) = Refusal(v, b)
<1>0. SameDefinitions(v, w)
  BY DEF Adds
<1>1. scope_chain(w, q.scope) = scope_chain(v, q.scope)
  BY <1>0, SameChains
<1>2. w.assignments[b] = v.assignments[b]
  BY DEF Adds
<1>3. Level(w, q, b) = Level(v, q, b)
  BY <1>1, <1>2 DEF Level
<1> DEFINE d == v.assignments[b].def
<1>4. Visible(w, d.cls, d.scope) <=> Visible(v, d.cls, d.scope)
  BY <1>0, SameVisibility
<1>5. Refusal(w, b) = Refusal(v, b)
  BY <1>2, <1>4 DEF Adds, SameDefinitions, Refusal
<1> QED BY <1>3, <1>5

\* What the subject's own evidence accepts, but for the new assignment, is what it accepted.
LEMMA OthersAccepted ==
    ASSUME NEW v, NEW w, NEW a, Adds(v, w, a), NEW q, q.subject \in Subjects,
           Bucket(v, q.subject), OverBudget(v, q.subject) = {},
           Bucket(w, q.subject), OverBudget(w, q.subject) = {}, NEW b, b # a
    PROVE  b \in Accepted(Verdicts(w, q, q.subject, 0)) <=> b \in Accepted(Verdicts(v, q, q.subject, 0))
<1> DEFINE s == q.subject
<1>1. /\ b \in Accepted(Verdicts(w, q, s, 0)) <=> b \in Offered(w, q, s, 0) /\ Refusal(w, b) = "Ok"
      /\ b \in Accepted(Verdicts(v, q, s, 0)) <=> b \in Offered(v, q, s, 0) /\ Refusal(v, b) = "Ok"
  BY AcceptedEvidence
<1>2. CASE b \notin Assignments
  BY <1>1, <1>2 DEF Offered, Scanned
<1>3. CASE b \in Assignments
  <2>1. Level(w, q, b) = Level(v, q, b) /\ Refusal(w, b) = Refusal(v, b)
    BY <1>3, OthersStand
  <2>2. /\ Scanned(w, s) = {x \in Assignments : w.assignments_by_subject[s][x] > 0}
        /\ Scanned(v, s) = {x \in Assignments : v.assignments_by_subject[s][x] > 0}
    BY WholeBucket
  <2>3. w.assignments_by_subject[s][b] = v.assignments_by_subject[s][b] /\ w.assignments[b] = v.assignments[b]
    BY <1>3 DEF Adds
  <2>4. b \in Offered(w, q, s, 0) <=> b \in Offered(v, q, s, 0)
    BY <2>1, <2>2, <2>3, Zenon DEF Offered
  <2> QED BY <1>1, <2>1, <2>4, Zenon
<1> QED BY <1>2, <1>3

\* At the levels that are at least as broad as a level L the same evidence is left, when the new
\* assignment is narrower: an exception is only tested against broader evidence.
LEMMA BroaderLeft ==
    ASSUME NEW v, NEW w, NEW a, Adds(v, w, a), NEW q, q.subject \in Subjects,
           Bucket(v, q.subject), OverBudget(v, q.subject) = {},
           Bucket(w, q.subject), OverBudget(w, q.subject) = {},
           a \notin Accepted(Verdicts(v, q, q.subject, 0)),
           NEW L \in Nat, Level(w, q, a) \in 0 .. L - 1,
           NEW b
    PROVE  b \in Left(w, q, <<0, q.subject>>) /\ Level(w, q, b) >= L <=>
               b \in Left(v, q, <<0, q.subject>>) /\ Level(v, q, b) >= L
<1> DEFINE V == Accepted(Verdicts(v, q, q.subject, 0))
           W == Accepted(Verdicts(w, q, q.subject, 0))
<1>1. /\ Left(v, q, <<0, q.subject>>) = {x \in V : Misfit(v, q, V, x) = "Ok"}
      /\ Left(w, q, <<0, q.subject>>) = {x \in W : Misfit(w, q, W, x) = "Ok"}
  BY DEF Left
<1>2. \A x : x # a => (x \in W <=> x \in V)
  BY OthersAccepted
<1>3. \A x \in V : x \in Assignments \ {a} /\ Level(v, q, x) \in Nat
  <2> SUFFICES ASSUME NEW x \in V PROVE x \in Assignments \ {a} /\ Level(v, q, x) \in Nat
    OBVIOUS
  <2>1. x \in Offered(v, q, q.subject, 0)
    BY AcceptedEvidence
  <2>2. x \in Assignments /\ Level(v, q, x) >= 0
    BY <2>1 DEF Offered, Scanned
  <2> QED BY <2>2, LevelNumber
<1>4. \A x \in V : Level(w, q, x) = Level(v, q, x) /\ w.assignments[x] = v.assignments[x]
  <2>1. \A x \in Assignments \ {a} : Level(w, q, x) = Level(v, q, x)
    BY OthersStand
  <2>2. \A x \in Assignments \ {a} : w.assignments[x] = v.assignments[x]
    BY DEF Adds
  <2> QED BY <1>3, <2>1, <2>2, Zenon
<1> HIDE DEF V, W
<1>5. ASSUME b = a PROVE ~(Level(w, q, b) >= L) /\ b \notin V
  BY <1>5 DEF V
<1>6. ASSUME b # a, b \in V, Level(v, q, b) >= L PROVE Misfit(w, q, W, b) = Misfit(v, q, V, b)
  <2> DEFINE target == v.assignments[b].def.displaces
             Meets(u, A) == \E x \in A : Level(u, q, x) > Level(u, q, b) /\ u.assignments[x].def.cls = target
  <2>1. Level(w, q, b) = Level(v, q, b) /\ Level(v, q, b) \in Nat /\ w.assignments[b] = v.assignments[b]
    BY <1>3, <1>4, <1>6, Zenon
  <2>2. ~(Level(w, q, a) > Level(w, q, b))
    BY <1>6, <2>1
  <2>3. Meets(w, W) <=> Meets(v, V)
    BY <1>2, <1>3, <1>4, <2>1, <2>2, Zenon
  <2> QED BY <2>1, <2>3 DEF Misfit
<1> QED BY <1>1, <1>2, <1>4, <1>5, <1>6, Zenon

\* A new assignment is one that was just published, and nothing else changed with it.
LEMMA NewIsPublished ==
    ASSUME RegistryInv, [Next]_vars, NEW a \in Assignments, New(a)
    PROVE  Adds(Now, World(image', epoch', granted'), a)
<1>0. Shape /\ Known
  BY DEF RegistryInv
<1>1. a \in Defined(image'.assignments) /\ a \notin Defined(image.assignments)
  <2>1. a \in DOMAIN image'.assignments
    BY <1>0, ShapeStep DEF Shape, Tables
  <2> QED BY <2>1 DEF New, Defined
<1>2. PICK d \in AssignmentDefs : d.id = a /\ PublishStep(d)
  BY <1>0, <1>1, AssignmentEntries, Zenon
<1>3. image'.assignments # image.assignments
  BY DEF New
<1>4. epoch' = epoch /\ granted' = granted
  <2>1. ASSUME NEW i, Grant(i) \/ Fence(i) \/ AdvanceEpoch \/ Checkpoint \/ UNCHANGED vars PROVE FALSE
    BY <1>3, <2>1 DEF Grant, Fence, AdvanceEpoch, Checkpoint, vars
  <2>2. ASSUME Reopen PROVE FALSE
    <3>1. image' = [image EXCEPT !.assignments_by_subject = replayed]
      BY <2>2 DEF Reopen
    <3>2. "assignments" \in DOMAIN image
      BY <1>0 DEF Shape, Tables
    <3> QED BY <1>3, <3>1, <3>2
  <2>3. ASSUME NEW i, NEW name, NEW def, NEW status, Define(i, name, def, status)
        PROVE  epoch' = epoch /\ granted' = granted
    BY <2>3 DEF Define, Refuse
  <2>4. ASSUME NEW i, NEW e, Assign(i, e) PROVE epoch' = epoch /\ granted' = granted
    BY <2>4 DEF Assign, Refuse
  <2>5. ASSUME NEW i, NEW b, RetireAssignment(i, b) PROVE epoch' = epoch /\ granted' = granted
    BY <2>5 DEF RetireAssignment, Refuse
  <2> QED BY <2>1, <2>2, <2>3, <2>4, <2>5, Zenon
          DEF Next, DefineClass, DefineScope, DefinePolicy, DefineSubject
<1>5. /\ image'.classes = image.classes /\ image'.scopes = image.scopes
      /\ image'.policies = image.policies /\ image'.subjects = image.subjects
  BY <1>2 DEF PublishStep, Definable, Tables
<1>6. ASSUME NEW b \in Assignments \ {a}
      PROVE  /\ image'.assignments[b] = image.assignments[b]
             /\ \A s \in Subjects : image'.assignments_by_subject[s][b] = image.assignments_by_subject[s][b]
  <2>1. DOMAIN image.assignments = Assignments
    BY <1>0 DEF Shape
  <2>2. image'.assignments = [image.assignments EXCEPT ![d.id] = image'.assignments[d.id]]
    BY <1>2 DEF PublishStep
  <2>3. image'.assignments_by_subject = Insert(image.assignments_by_subject, d.subject, d.id)
    BY <1>2 DEF PublishStep
  <2>4. image.assignments_by_subject \in [Subjects -> [Assignments -> Nat]]
    BY <1>0 DEF Shape
  <2>5. ASSUME NEW s \in Subjects PROVE image'.assignments_by_subject[s][b] = image.assignments_by_subject[s][b]
    BY <1>2, <1>6, <2>3, <2>4, <2>5 DEF Insert
  <2>6. image'.assignments[b] = image.assignments[b]
    BY <1>2, <1>6, <2>1, <2>2, Zenon
  <2> QED BY <2>5, <2>6
<1>7. LET w == World(image', epoch', granted')
      IN  /\ w.classes = image'.classes /\ w.scopes = image'.scopes /\ w.policies = image'.policies
          /\ w.subjects = image'.subjects /\ w.assignments = image'.assignments
          /\ w.assignments_by_subject = image'.assignments_by_subject
          /\ w.epoch = epoch' /\ w.granted = granted'
  BY DEF World
<1> DEFINE w == World(image', epoch', granted')
<1> HIDE DEF w, Now
<1> QED BY <1>4, <1>5, <1>6, <1>7, NowFields, ZenonT(60) DEF Adds, SameDefinitions, w

\* An assignment on the query's chain binds the scope of its level.
LEMMA LevelScope ==
    ASSUME NEW w, NEW q, NEW x, Level(w, q, x) >= 0
    PROVE  scope_chain(w, q.scope)[Level(w, q, x)] = w.assignments[x].def.scope
<1> DEFINE chain == scope_chain(w, q.scope)
           at == {n \in DOMAIN chain : chain[n] = w.assignments[x].def.scope}
<1>1. Level(w, q, x) = IF at = {} THEN -1 ELSE Min(at)
  BY DEF Level, LevelOn
<1>2. at \subseteq Nat
  BY RegistryBounds DEF scope_chain
<1>3. Level(w, q, x) \in at
  <2> HIDE DEF at
  <2>1. at # {} => Min(at) \in at
    BY <1>2, MinIn, Zenon
  <2> QED BY <1>1, <2>1
<1> QED BY <1>3

\* The level of a scope that forbids overriding decides when the narrower ones allow it.
LEMMA ForbiddingDecides ==
    ASSUME NEW w, NEW q, NEW B, \A b \in B : Level(w, q, b) \in Nat, NEW x \in B,
           ~w.scopes[scope_chain(w, q.scope)[Level(w, q, x)]].def.allow_override,
           \A n \in 0 .. Level(w, q, x) - 1 : w.scopes[scope_chain(w, q.scope)[n]].def.allow_override
    PROVE  DecidingLevel(w, q, B) = Level(w, q, x)
<1> DEFINE levels == {Level(w, q, b) : b \in B}
           final  == {n \in levels : ~w.scopes[scope_chain(w, q.scope)[n]].def.allow_override}
           L == Level(w, q, x)
<1>1. levels \subseteq Nat /\ final \subseteq Nat /\ L \in final /\ L \in Nat
  OBVIOUS
<1>2. DecidingLevel(w, q, B) = Min(final)
  BY <1>1, Zenon DEF DecidingLevel
<1>3. \A n \in final : n \notin 0 .. L - 1
  OBVIOUS
<1> HIDE DEF levels, final, L
<1>4. Min(final) \in final /\ Min(final) <= L
  BY <1>1, MinIn, Zenon
<1>5. Min(final) = L
  <2>1. Min(final) \in Nat /\ Min(final) \notin 0 .. L - 1
    BY <1>1, <1>3, <1>4, Zenon
  <2> DEFINE m == Min(final)
  <2> HIDE DEF m
  <2>2. m \in Nat /\ m \notin 0 .. L - 1 /\ m <= L
    BY <1>4, <2>1, Zenon DEF m
  <2>3. m = L
    BY <1>1, <2>2
  <2> QED BY <2>3 DEF m
<1> QED BY <1>2, <1>5 DEF L

\* Evidence that the new assignment is not part of is resolved as before.
LEMMA WinnerStands ==
    ASSUME NEW v, NEW w, NEW a, Adds(v, w, a), NEW q, NEW T, T \subseteq Assignments \ {a}, NEW level
    PROVE  Winner(w, q, level, T) = Winner(v, q, level, T)
<1>1. SameDefinitions(v, w)
  BY DEF Adds
<1>2. \A b \in T : w.assignments[b] = v.assignments[b]
  BY DEF Adds
<1>3. scope_chain(w, q.scope) = scope_chain(v, q.scope)
  BY <1>1, SameChains
<1>4. \A s : ConflictMode(w, s) = ConflictMode(v, s)
  BY <1>1, SameAnswers
<1>5. Conflicting(w, T) <=> Conflicting(v, T)
  <2>1. {w.assignments[b].def.cls : b \in T} = {v.assignments[b].def.cls : b \in T}
    BY <1>2
  <2> QED BY <2>1, Zenon DEF Conflicting
<1>6. \A b \in T : Rank(w, b) = Rank(v, b)
  BY <1>1, <1>2, Zenon DEF Rank, SameDefinitions
<1>7. \A mode : Resolve(w, q, mode, T) = Resolve(v, q, mode, T)
  <2> DEFINE top(u) == {b \in T : \A c \in T : Rank(u, b) >= Rank(u, c)}
  <2>1. top(w) = top(v)
    BY <1>6
  <2>2. \A u, mode : Resolve(u, q, mode, T) = IF q.strict \/ mode = "Deny" THEN Absent
                                             ELSE IF mode = "HigherPrecedence" THEN Min(top(u)) ELSE Min(T)
    BY DEF Resolve
  <2> HIDE DEF top
  <2> QED BY <2>1, <2>2
<1> QED BY <1>3, <1>4, <1>5, <1>7, Zenon DEF Winner

\* The same queries are admitted.
LEMMA StillAdmitted ==
    ASSUME NEW v, NEW w, NEW a, Adds(v, w, a), NEW q, Admitted(v, q)
    PROVE  Admitted(w, q)
<1>1. SameDefinitions(v, w)
  BY DEF Adds
<1>2. ChainUsable(w, q.scope) <=> ChainUsable(v, q.scope)
  BY <1>1, SameChains
<1>3. \A among : NearestPolicy(w, q.scope, among) = NearestPolicy(v, q.scope, among)
  BY <1>1, SameVisibility
<1>4. effective_policy(w, q.scope) = effective_policy(v, q.scope)
  BY <1>1, <1>3 DEF effective_policy, SameDefinitions
<1>5. PolicyGeneration(w, q.scope) = PolicyGeneration(v, q.scope)
  BY <1>1, <1>4 DEF PolicyGeneration, SameDefinitions
<1> QED BY <1>1, <1>2, <1>5, Zenon DEF Admitted, Adds, SameDefinitions

\* A step that adds an assignment in a narrower scope leaves the decision as it was.
LEMMA NarrowerStep ==
    ASSUME RegistryInv, RegistryInv', HonestIndex, SubjectsFixed, WithinBudget, WithinBudget', [Next]_vars,
           NEW a \in Assignments, New(a), NEW q \in Queries, Displacing(q, a), NarrowerYield(q)
    PROVE  DecisionStands(q)
<1> DEFINE v == Now
           w == World(image', epoch', granted')
           s == q.subject
           x == Decision(q).winner
           L == Level(v, q, x)
           A == Left(v, q, <<0, s>>)
           B == Left(w, q, <<0, s>>)
<1>1. /\ x # Absent /\ image.assignments[x].def.subject = s
      /\ ~image.scopes[image.assignments[x].def.scope].def.allow_override
      /\ Level(w, q, a) \in 0 .. L - 1
  BY Zenon DEF Displacing
<1>2. s \in Subjects
  BY QueryBounds
<1>3. PICK r \in Sources(v, q) : x \in Winning(v, q, Left(v, q, r)) /\ s \in Defined(v.subjects)
  BY <1>1, DecisionSource, Zenon
<1>4. r[1] = 0 /\ r[2] = s
  <2>1. x \in Left(v, q, r)
    BY <1>3 DEF Winning
  <2>2. image.assignments[x].def.subject = r[2]
    BY <1>3, <2>1, LeftIsMadeFor
  <2>3. (r[1] = 0 /\ r[2] = s) \/ r[2] # s
    BY <1>3, SourceSubject, Zenon
  <2> QED BY <1>1, <2>2, <2>3, Zenon
<1>5. x \in A /\ DecidingLevel(v, q, A) = L
  <2>1. Left(v, q, r) = A
    <3> HIDE DEF v
    <3> QED BY <1>4 DEF Left
  <2> HIDE DEF v, A
  <2> QED BY <1>3, <2>1 DEF Winning
<1>6. Admitted(v, q) /\ Decision(q) = evaluate_query(v, q)
  BY <1>1, DecisionReached, Zenon DEF Considered, Decision
<1>7. Adds(v, w, a)
  BY NewIsPublished
<1>8. a \notin Accepted(Verdicts(v, q, s, 0))
  <2>1. a \notin Defined(image.assignments)
    BY DEF New, Defined
  <2>2. a \in Accepted(Verdicts(v, q, s, 0)) => Refusal(v, a) = "Ok"
    BY AcceptedEvidence
  <2> QED BY <2>1, <2>2, UsableRank, Zenon
<1>9. Bucket(v, s) /\ Bucket(w, s) /\ OverBudget(v, s) = {} /\ OverBudget(w, s) = {}
  <2>1. v.assignments_by_subject = image.assignments_by_subject
    BY NowFields
  <2>2. w.assignments_by_subject = image'.assignments_by_subject
    BY DEF World
  <2>3. /\ image.assignments_by_subject \in [Subjects -> [Assignments -> Nat]]
        /\ image'.assignments_by_subject \in [Subjects -> [Assignments -> Nat]]
    BY Zenon DEF RegistryInv, Shape
  <2>4. OverBudget(v, s) = {} /\ OverBudget(w, s) = {}
    BY <1>2 DEF WithinBudget, Now
  <2> HIDE DEF v, w
  <2>5. Bucket(v, s) /\ Bucket(w, s)
    BY <1>2, <2>1, <2>2, <2>3, Zenon DEF Bucket
  <2> QED BY <2>4, <2>5
<1>10. v.scopes = image.scopes /\ w.scopes = v.scopes /\ v.assignments = image.assignments
  BY <1>7, NowFields, Zenon DEF Adds, SameDefinitions
<1>11. \A n \in 0 .. L - 1 : v.scopes[scope_chain(v, q.scope)[n]].def.allow_override
  BY NowFields DEF NarrowerYield
<1> HIDE DEF v, w, x
<1>12. A \subseteq Assignments \ {a} /\ \A b \in A : Level(v, q, b) \in Nat
  <2> SUFFICES ASSUME NEW b \in A PROVE b \in Assignments \ {a} /\ Level(v, q, b) \in Nat
    OBVIOUS
  <2>1. b \in Assignments /\ Level(v, q, b) >= 0
    BY LeftEvidence
  <2>2. b # a
    BY <1>8 DEF Left
  <2> QED BY <2>1, <2>2, LevelNumber, Zenon
<1>13. L \in Nat
  BY <1>5, <1>12
<1>14. \A b : b \in B /\ Level(w, q, b) >= L <=> b \in A /\ Level(v, q, b) >= L
  <2> HIDE DEF L
  <2> QED BY <1>1, <1>2, <1>7, <1>8, <1>9, <1>13, BroaderLeft, Zenon
<1>15. Level(w, q, x) = L
  BY <1>5, <1>7, <1>12, OthersStand
<1>16. x \in B
  BY <1>5, <1>13, <1>14
<1>17. \A b \in B : Level(w, q, b) \in Nat
  <2> SUFFICES ASSUME NEW b \in B PROVE Level(w, q, b) \in Nat
    OBVIOUS
  <2>1. Level(w, q, b) >= 0
    BY LeftEvidence
  <2> QED BY <2>1, LevelNumber
<1>18. DecidingLevel(w, q, B) = L
  <2>1. scope_chain(w, q.scope) = scope_chain(v, q.scope)
    BY <1>7, SameChains DEF Adds
  <2>2. scope_chain(v, q.scope)[L] = v.assignments[x].def.scope
    BY <1>13, LevelScope
  <2>3. ~w.scopes[scope_chain(w, q.scope)[Level(w, q, x)]].def.allow_override
    BY <1>1, <1>10, <1>15, <2>1, <2>2, Zenon
  <2>4. \A n \in 0 .. Level(w, q, x) - 1 : w.scopes[scope_chain(w, q.scope)[n]].def.allow_override
    BY <1>10, <1>11, <1>15, <2>1, Zenon
  <2> HIDE DEF B, L
  <2> QED BY <1>15, <1>16, <1>17, <2>3, <2>4, ForbiddingDecides, Zenon
<1>19. Winning(w, q, B) = Winning(v, q, A)
  <2>1. \A b : b \in B /\ Level(w, q, b) = L <=> b \in A /\ Level(v, q, b) = L
    <3> SUFFICES ASSUME NEW b PROVE b \in B /\ Level(w, q, b) = L <=> b \in A /\ Level(v, q, b) = L
      OBVIOUS
    <3>1. CASE b \in A
      <4>1. Level(w, q, b) = Level(v, q, b)
        BY <1>7, <1>12, <3>1, OthersStand
      <4> QED BY <1>13, <1>14, <3>1, <4>1
    <3>2. CASE b \notin A
      BY <1>13, <1>14, <3>2
    <3> QED BY <3>1, <3>2
  <2> HIDE DEF A, B, L
  <2> QED BY <1>5, <1>18, <2>1, Zenon DEF Winning
<1> DEFINE T == Winning(v, q, A)
<1>20. Winner(w, q, L, T) = Winner(v, q, L, T)
  <2>1. T \subseteq Assignments \ {a}
    BY <1>12 DEF Winning
  <2> HIDE DEF T, L
  <2> QED BY <1>7, <2>1, WinnerStands
<1>21. Admitted(w, q)
  BY <1>6, <1>7, StillAdmitted
<1>22. Accepted(Verdicts(v, q, s, 0)) # {} /\ Accepted(Verdicts(w, q, s, 0)) # {}
  BY <1>5, <1>16 DEF Left
<1>23. PICK e : evaluate_query(v, q) = Decide(v, q, e) /\ e.accepted = A
  BY <1>6, <1>22, OwnDecides
<1>24. PICK f : evaluate_query(w, q) = Decide(w, q, f) /\ f.accepted = B
  BY <1>21, <1>22, OwnDecides
<1> HIDE DEF A, B, T, L
<1>25. LET y == Winner(v, q, L, T)
       IN  /\ evaluate_query(v, q).winner = y
           /\ evaluate_query(v, q).cls = IF y = Absent THEN Absent ELSE v.assignments[y].def.cls
  BY <1>5, <1>23, DecidedWinner, Zenon DEF T
<1>26. LET y == Winner(v, q, L, T)
       IN  /\ evaluate_query(w, q).winner = y
           /\ evaluate_query(w, q).cls = IF y = Absent THEN Absent ELSE w.assignments[y].def.cls
  BY <1>16, <1>18, <1>19, <1>20, <1>24, DecidedWinner, Zenon DEF T
<1>27. x = Winner(v, q, L, T)
  BY <1>6, <1>25 DEF x
<1>28. w.assignments[x] = v.assignments[x]
  BY <1>5, <1>7, <1>12, Zenon DEF Adds
<1>29. /\ evaluate_query(w, q).winner = evaluate_query(v, q).winner
       /\ evaluate_query(w, q).cls = evaluate_query(v, q).cls
  BY <1>25, <1>26, <1>27, <1>28, Zenon
<1> QED BY <1>6, <1>29, Zenon DEF DecisionStands, v, w

\* While identifiers keep their subject and no scan meets its budget, a scope that forbids overriding
\* and decides on the subject's own evidence goes on deciding when assignments are added in narrower
\* scopes that all allow it (evaluate_query's choice of the deciding level).
THEOREM NarrowerDisplacesNothing ==
    ASSUME SubjectsFixed
    PROVE  Spec /\ []WithinBudget => NarrowerCannotDisplace
<1> DEFINE Stands == \A a \in Assignments : New(a) =>
                         \A q \in Queries : Displacing(q, a) /\ NarrowerYield(q) => DecisionStands(q)
<1>1. RegistryInv /\ RegistryInv' /\ HonestIndex /\ WithinBudget /\ WithinBudget' /\ [Next]_vars => [Stands]_vars
  BY NarrowerStep
<1> QED BY <1>1, RegistryInvariant, IndexIsHonest, PTL DEF Spec, NarrowerCannotDisplace
=============================================================================
