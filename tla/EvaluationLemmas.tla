-------------------------- MODULE EvaluationLemmas --------------------------
(***************************************************************************)
(* What evaluate_query computes, step by step, in a registry that satisfies *)
(* its invariant: the scan of a bucket, the ancestors of a subject, the    *)
(* evidence collected and filtered, the winner, and what each of them      *)
(* depends on.  No lemma here is about a step of the registry.             *)
(***************************************************************************)
EXTENDS RegistryLemmas, Evaluation

(* Usable evidence.                                                        *)

\* Everything an assignment is bound to is as it was when it was published.
Bound(w, a) ==
    LET d == w.assignments[a].def
    IN  /\ w.subjects[d.subject].gen = d.subject_generation
        /\ w.scopes[d.scope].gen = d.scope_generation
        /\ w.classes[d.cls].gen = d.class_generation
        /\ d.policy # Absent => w.policies[d.policy].gen = d.policy_generation

\* collect_for_subject uses an assignment exactly when none of its checks fails.
LEMMA RefusalOk ==
    ASSUME NEW w, NEW a
    PROVE  Refusal(w, a) = "Ok" <=>
               /\ w.assignments[a].active
               /\ w.assignments[a].by.incarnation \in w.granted
               /\ w.assignments[a].by.epoch = w.epoch
               /\ Bound(w, a)
               /\ Visible(w, w.assignments[a].def.cls, w.assignments[a].def.scope)
<1> DEFINE e == w.assignments[a]
           d == e.def
           c1 == e.active
           c2 == e.by.incarnation \in w.granted
           c3 == e.by.epoch = w.epoch
           c4 == w.subjects[d.subject].gen = d.subject_generation
           c5 == w.scopes[d.scope].gen = d.scope_generation
           c6 == w.classes[d.cls].gen = d.class_generation
           c7 == d.policy # Absent => w.policies[d.policy].gen = d.policy_generation
           c8 == Visible(w, d.cls, d.scope)
<1>1. Refusal(w, a) = CASE ~c1 -> "assignment_retired"
                        [] ~c2 -> "publisher_incarnation_fenced"
                        [] ~c3 -> "epoch_superseded"
                        [] ~c4 -> "subject_generation_stale"
                        [] ~c5 -> "scope_generation_stale"
                        [] ~c6 -> "class_generation_stale"
                        [] ~c7 -> "policy_generation_stale"
                        [] ~c8 -> "class_not_visible"
                        [] OTHER -> "Ok"
  BY DEF Refusal
<1>2. Bound(w, a) <=> c4 /\ c5 /\ c6 /\ c7
  BY DEF Bound
<1> HIDE DEF c1, c2, c3, c4, c5, c6, c7, c8
<1>3. Refusal(w, a) = "Ok" <=> c1 /\ c2 /\ c3 /\ c4 /\ c5 /\ c6 /\ c7 /\ c8
  BY <1>1
<1> QED BY <1>2, <1>3 DEF c1, c2, c3, c8

-----------------------------------------------------------------------------
(* What an evaluation reads.                                               *)

\* The least of some numbers is one of them.
LEMMA MinIn ==
    ASSUME NEW T, T \subseteq Nat, T # {}
    PROVE  Min(T) \in T /\ \A y \in T : Min(T) <= y
<1>1. \E x \in T : \A y \in T : x <= y
  BY LeastNumber, Zenon
<1> QED BY <1>1, Zenon DEF Min

\* The tables an evaluation walks, as the invariant of the registry has them.
Sound(w) ==
    /\ DOMAIN w.classes = Classes /\ DOMAIN w.scopes = Scopes /\ DOMAIN w.policies = Policies
    /\ DOMAIN w.subjects = Subjects
    /\ \A x \in Classes : w.classes[x].gen \in Nat
    /\ \A x \in Scopes : w.scopes[x].gen \in Nat
    /\ \A x \in Subjects : w.subjects[x].gen \in Nat
    /\ ParentsDefined(w.classes)
    /\ ParentsDefined(w.subjects)
    /\ \A x \in Defined(w.scopes) : w.scopes[x].def.parent \in Defined(w.scopes) \cup {Absent}

\* Two tables say the same: the authority bindings of their entries may differ.
SameTable(t, u) ==
    /\ DOMAIN u = DOMAIN t
    /\ \A x \in DOMAIN t : u[x].gen = t[x].gen /\ u[x].def = t[x].def

\* Two policy tables restrict the same scopes to the same classes.
SamePolicies(t, u) ==
    /\ DOMAIN u = DOMAIN t
    /\ \A x \in DOMAIN t : /\ u[x].gen = t[x].gen
                            /\ u[x].def.scope = t[x].def.scope
                            /\ u[x].def.visible_classes = t[x].def.visible_classes

Alike(v, w) ==
    SameTable(v.classes, w.classes) /\ SameTable(v.scopes, w.scopes) /\ SamePolicies(v.policies, w.policies)

\* The chain of a scope depends only on what the scopes say.
LEMMA AboveAlike ==
    ASSUME NEW v, NEW w, Sound(v), Alike(v, w), NEW s, s \in Defined(v.scopes)
    PROVE  \A n \in Nat : Above(w, s, n) = Above(v, s, n) /\ Above(v, s, n) \in Defined(v.scopes) \cup {Absent}
<1> DEFINE S == Defined(v.scopes) \cup {Absent}
           P == {n \in Nat : Above(w, s, n) = Above(v, s, n)}
<1>1. \A x \in S : Parent(w, x) = Parent(v, x) /\ Parent(v, x) \in S
  BY DEF Parent, Sound, Alike, SameTable, Defined
<1>2. Closed(v, S) /\ Closed(w, S) /\ s \in S
  BY <1>1 DEF Closed
<1> HIDE DEF S
<1>a. /\ Above(v, s, 0) = s
      /\ \A n \in Nat : Above(v, s, n) \in S /\ Above(v, s, n + 1) = Parent(v, Above(v, s, n))
  BY <1>2, AboveUnfolds
<1>b. /\ Above(w, s, 0) = s
      /\ \A n \in Nat : Above(w, s, n) \in S /\ Above(w, s, n + 1) = Parent(w, Above(w, s, n))
  BY <1>2, AboveUnfolds
<1>3. /\ Above(v, s, 0) = s /\ Above(w, s, 0) = s
      /\ \A n \in Nat : /\ Above(v, s, n) \in S
                        /\ Above(v, s, n + 1) = Parent(v, Above(v, s, n))
                        /\ Above(w, s, n + 1) = Parent(w, Above(w, s, n))
  BY <1>a, <1>b
<1>4. 0 \in P
  BY <1>3
<1>5. \A n \in Nat : n \in P => n + 1 \in P
  BY <1>1, <1>3
<1>6. P \subseteq Nat
  OBVIOUS
<1> HIDE DEF P
<1>7. P = Nat
  BY <1>4, <1>5, <1>6, Induction, Zenon
<1> QED BY <1>3, <1>7 DEF P, S

\* What a class implies depends only on what the classes say.
LEMMA ReachableAlike ==
    ASSUME NEW t, NEW u, SameTable(t, u), IsFiniteSet(DOMAIN t), Upward(t, DOMAIN t),
           NEW start, start \subseteq DOMAIN t
    PROVE  Reachable(u, start) = Reachable(t, start)
<1>1. \A x \in DOMAIN t : InheritsFrom(u, x) = InheritsFrom(t, x)
  BY DEF InheritsFrom, SameTable
<1>2. DOMAIN u = DOMAIN t
  BY DEF SameTable
<1>3. Upward(u, DOMAIN u)
  BY <1>1, <1>2 DEF Upward
<1>4. /\ start \subseteq Reachable(t, start) /\ Reachable(t, start) \subseteq DOMAIN t
      /\ Upward(t, Reachable(t, start))
      /\ \A C : (start \subseteq C /\ Upward(t, C)) => Reachable(t, start) \subseteq C
  BY ReachableIsLeast
<1>5. /\ start \subseteq Reachable(u, start) /\ Reachable(u, start) \subseteq DOMAIN t
      /\ Upward(u, Reachable(u, start))
      /\ \A C : (start \subseteq C /\ Upward(u, C)) => Reachable(u, start) \subseteq C
  BY <1>2, <1>3, ReachableIsLeast
<1>6. Upward(u, Reachable(t, start)) /\ Upward(t, Reachable(u, start))
  BY <1>1, <1>4, <1>5 DEF Upward
<1> QED BY <1>4, <1>5, <1>6, Zenon

\* Whether a class is admitted in a scope depends only on what the tables say.
LEMMA VisibleAlike ==
    ASSUME NEW v, NEW w, Sound(v), Alike(v, w), NEW s, s \in Defined(v.scopes), NEW c, c \in Classes
    PROVE  Visible(w, c, s) <=> Visible(v, c, s)
<1>1. Policies \subseteq Nat /\ MaxScopeDepth \in Nat /\ IsFiniteSet(Classes)
  BY RegistryBounds, IdentifiersFinite DEF Ids
<1>2. \A n \in Nat : Above(w, s, n) = Above(v, s, n)
  BY AboveAlike
<1>3. \A n \in 0 .. MaxScopeDepth : n \in Nat
  BY <1>1
<1>4. scope_chain(w, s) = scope_chain(v, s)
  <2> DEFINE lv == {n \in 0 .. MaxScopeDepth : Above(v, s, n) # Absent}
             lw == {n \in 0 .. MaxScopeDepth : Above(w, s, n) # Absent}
  <2>1. lw = lv
    BY <1>2, <1>3
  <2>2. \A n \in lv : Above(w, s, n) = Above(v, s, n)
    BY <1>2, <1>3
  <2>3. scope_chain(v, s) = [n \in lv |-> Above(v, s, n)] /\ scope_chain(w, s) = [n \in lw |-> Above(w, s, n)]
    BY DEF scope_chain
  <2> HIDE DEF lv, lw
  <2> QED BY <2>1, <2>2, <2>3
<1>5. ChainUsable(w, s) <=> ChainUsable(v, s)
  BY <1>1, <1>2 DEF ChainUsable, Alike, SameTable, Defined
<1>6. /\ Restrictive(w) = Restrictive(v) /\ Restrictive(v) \subseteq Policies
      /\ \A p \in Policies : /\ w.policies[p].def.scope = v.policies[p].def.scope
                             /\ w.policies[p].def.visible_classes = v.policies[p].def.visible_classes
  <2>1. /\ DOMAIN v.policies = Policies /\ DOMAIN w.policies = Policies
        /\ \A p \in Policies : /\ w.policies[p].gen = v.policies[p].gen
                               /\ w.policies[p].def.scope = v.policies[p].def.scope
                               /\ w.policies[p].def.visible_classes = v.policies[p].def.visible_classes
    BY DEF Sound, Alike, SamePolicies
  <2> QED BY <2>1 DEF Restrictive, Defined
<1> DEFINE among == Restrictive(v)
<1>7. \A x : PoliciesAt(w, x, among) = PoliciesAt(v, x, among)
  BY <1>6 DEF PoliciesAt
<1>8. ASSUME NEW chain PROVE NearestOn(w, chain, among) = NearestOn(v, chain, among)
  <2> DEFINE lv == {n \in DOMAIN chain : PoliciesAt(v, chain[n], among) # {}}
             lw == {n \in DOMAIN chain : PoliciesAt(w, chain[n], among) # {}}
  <2>1. lw = lv
    BY <1>7
  <2>2. /\ NearestOn(v, chain, among) = IF lv = {} THEN Absent ELSE Min(PoliciesAt(v, chain[Min(lv)], among))
        /\ NearestOn(w, chain, among) = IF lw = {} THEN Absent ELSE Min(PoliciesAt(w, chain[Min(lw)], among))
    BY DEF NearestOn
  <2> HIDE DEF lv, lw, among
  <2>3. PoliciesAt(w, chain[Min(lv)], among) = PoliciesAt(v, chain[Min(lv)], among)
    BY <1>7
  <2> QED BY <2>1, <2>2, <2>3
<1>9. NearestPolicy(w, s, among) = NearestPolicy(v, s, among)
  BY <1>4, <1>5, <1>8 DEF NearestPolicy
<1> DEFINE p == NearestPolicy(v, s, among)
<1>10. p = Absent \/ p \in Policies
  <2> DEFINE chain == scope_chain(v, s)
             levels == {n \in DOMAIN chain : PoliciesAt(v, chain[n], among) # {}}
  <2>0. DOMAIN chain \subseteq Nat
    BY <1>3 DEF scope_chain
  <2>1. ASSUME levels # {} PROVE Min(PoliciesAt(v, chain[Min(levels)], among)) \in Policies
    <3>1. levels \subseteq Nat
      BY <2>0
    <3>2. Min(levels) \in levels
      BY <2>1, <3>1, MinIn, Zenon
    <3> DEFINE T == PoliciesAt(v, chain[Min(levels)], among)
    <3>3. T # {} /\ T \subseteq Policies
      BY <3>2, <1>6, Zenon DEF PoliciesAt
    <3> HIDE DEF T
    <3>4. Min(T) \in T
      BY <3>3, <1>1, MinIn, Zenon
    <3> QED BY <3>3, <3>4 DEF T
  <2>2. p = IF ChainUsable(v, s) THEN (IF levels = {} THEN Absent ELSE Min(PoliciesAt(v, chain[Min(levels)], among))) ELSE Absent
    BY DEF NearestPolicy, NearestOn
  <2> HIDE DEF levels, chain, p
  <2> QED BY <2>1, <2>2
<1>11. Reachable(w.classes, {c}) = Reachable(v.classes, {c})
  <2>1. Upward(v.classes, DOMAIN v.classes)
    BY InheritanceUpward DEF Sound
  <2>2. SameTable(v.classes, w.classes) /\ DOMAIN v.classes = Classes
    BY DEF Alike, Sound
  <2> QED BY <1>1, <2>1, <2>2, ReachableAlike, Zenon
<1> HIDE DEF p, among
<1>12. Admits(w, p, c) <=> Admits(v, p, c)
  BY <1>6, <1>10, <1>11, Zenon DEF Admits, class_implies
<1> QED BY <1>6, <1>9, <1>12 DEF Visible, p, among

\* The invariant of the registry gives an evaluation sound tables.
LEMMA SoundNow ==
    ASSUME RegistryInv
    PROVE  Sound(Now)
<1>1. /\ Now.classes = image.classes /\ Now.scopes = image.scopes /\ Now.policies = image.policies
      /\ Now.subjects = image.subjects
  BY DEF Now, World
<1>2. /\ DOMAIN image.classes = Classes /\ DOMAIN image.scopes = Scopes /\ DOMAIN image.policies = Policies
      /\ DOMAIN image.subjects = Subjects
      /\ \A x \in Classes : image.classes[x].gen \in Nat
      /\ \A x \in Scopes : image.scopes[x].gen \in Nat
      /\ \A x \in Subjects : image.subjects[x].gen \in Nat
  BY DEF RegistryInv, Shape, Tables
<1> HIDE DEF Now
<1> QED BY <1>1, <1>2 DEF RegistryInv, AllResolve, ScopesResolve, Sound

-----------------------------------------------------------------------------
(* What republication leaves alone.                                        *)

\* The content of a policy includes its scope and the classes it makes visible.
LEMMA PolicyContent ==
    ASSUME NEW d, d \in StampedPolicies
    PROVE  Content(d).scope = d.scope /\ Content(d).visible_classes = d.visible_classes
<1>1. PICK e \in PolicyDefs, g \in 0 .. MaxGeneration : d = [e EXCEPT !.scope_generation = g]
  BY DEF StampedPolicies
<1>2. {"id", "scope", "scope_generation", "visible_classes", "unknown_default"} \subseteq DOMAIN d /\ d # Absent
  BY <1>1, DefinitionFields
<1>3. Content(d) = [d EXCEPT !.scope_generation = 0]
  BY <1>2 DEF Content
<1> QED BY <1>2, <1>3

\* Equal meanings are equal contents.
LEMMA MeaningContent ==
    ASSUME NEW t, t \in Tables, NEW e, NEW f, Meaning(t, e) = Meaning(t, f)
    PROVE  Content(e.def) = Content(f.def)
BY DEF Meaning

\* A request is carried out only for an incarnation that holds authority.
LEMMA AuthorizedIsGranted ==
    ASSUME NEW actor, NEW status, Authorized(actor, status) = "Ok"
    PROVE  status = "Ok" /\ actor \in granted
BY DEF Authorized

-----------------------------------------------------------------------------
(* The scan of a bucket and its budget.                                    *)

\* How often the bucket of s holds an identifier.
Held(w, s, b) == IF b \in Assignments THEN w.assignments_by_subject[s][b] ELSE 0

\* f counts the entries of the bucket of s below each number up to h.
Counts(w, s, h, f) ==
    /\ DOMAIN f = 0 .. h
    /\ f[0] = 0
    /\ \A n \in 1 .. h : f[n] = f[n - 1] + Held(w, s, n - 1)

\* The bucket of s holds every identifier a number of times.
Bucket(w, s) == \A a \in Assignments : w.assignments_by_subject[s][a] \in Nat

\* Counting is possible as far as one likes.
LEMMA CountsExist ==
    ASSUME NEW w, NEW s, Bucket(w, s), NEW hops, hops \in Nat
    PROVE  \E f \in [0 .. hops -> Nat] : Counts(w, s, hops, f)
<1> DEFINE P == {h \in Nat : \E f \in [0 .. h -> Nat] : Counts(w, s, h, f)}
<1>0. \A b : Held(w, s, b) \in Nat
  BY DEF Held, Bucket
<1>1. 0 \in P
  <2>1. Counts(w, s, 0, [n \in 0 .. 0 |-> 0]) /\ [n \in 0 .. 0 |-> 0] \in [0 .. 0 -> Nat]
    BY DEF Counts
  <2> QED BY <2>1
<1>2. ASSUME NEW h \in Nat, h \in P PROVE h + 1 \in P
  <2>1. PICK f \in [0 .. h -> Nat] : Counts(w, s, h, f)
    BY <1>2
  <2> DEFINE g == [n \in 0 .. h + 1 |-> IF n = h + 1 THEN f[h] + Held(w, s, h) ELSE f[n]]
  <2>2. g \in [0 .. h + 1 -> Nat]
    BY <1>0, <2>1
  <2>3. Counts(w, s, h + 1, g)
    <3>1. DOMAIN g = 0 .. h + 1 /\ g[0] = 0
      BY <2>1 DEF Counts
    <3>2. ASSUME NEW n \in 1 .. h + 1 PROVE g[n] = g[n - 1] + Held(w, s, n - 1)
      <4>1. CASE n = h + 1
        BY <4>1
      <4>2. CASE n # h + 1
        <5>1. n \in 1 .. h /\ n - 1 \in 0 .. h + 1 /\ n - 1 # h + 1 /\ n \in 0 .. h + 1
          BY <4>2
        <5>2. g[n] = f[n] /\ g[n - 1] = f[n - 1]
          BY <4>2, <5>1
        <5> HIDE DEF g
        <5> QED BY <2>1, <5>1, <5>2 DEF Counts
      <4> QED BY <4>1, <4>2
    <3> HIDE DEF g
    <3> QED BY <3>1, <3>2 DEF Counts
  <2> HIDE DEF g
  <2>4. h + 1 \in Nat
    OBVIOUS
  <2> QED BY <2>2, <2>3, <2>4
<1>3. P \subseteq Nat
  OBVIOUS
<1> HIDE DEF P
<1>4. P = Nat
  BY <1>1, <1>2, <1>3, Induction, Zenon
<1> QED BY <1>4, Zenon DEF P

\* Two counts agree as far as both go.
LEMMA CountsAgree ==
    ASSUME NEW w, NEW s, NEW h \in Nat, NEW k \in Nat, h <= k,
           NEW f, NEW g, Counts(w, s, h, f), Counts(w, s, k, g)
    PROVE  \A n \in 0 .. h : f[n] = g[n]
<1> DEFINE P == {n \in Nat : n <= h => f[n] = g[n]}
<1>1. 0 \in P
  BY DEF Counts
<1>2. ASSUME NEW n \in Nat, n \in P PROVE n + 1 \in P
  <2> SUFFICES ASSUME n + 1 <= h PROVE f[n + 1] = g[n + 1]
    OBVIOUS
  <2>1. n + 1 \in 1 .. h /\ n + 1 \in 1 .. k /\ (n + 1) - 1 = n /\ f[n] = g[n]
    BY <1>2
  <2>2. f[n + 1] = f[(n + 1) - 1] + Held(w, s, (n + 1) - 1)
    BY <2>1 DEF Counts
  <2>3. g[n + 1] = g[(n + 1) - 1] + Held(w, s, (n + 1) - 1)
    BY <2>1 DEF Counts
  <2> QED BY <2>1, <2>2, <2>3
<1>3. P \subseteq Nat
  OBVIOUS
<1> HIDE DEF P
<1>4. P = Nat
  BY <1>1, <1>2, <1>3, Induction, Zenon
<1> QED BY <1>4 DEF P

\* Before returns the last entry of a count: its recursive function is the count.
LEMMA BeforeCounts ==
    ASSUME NEW w, NEW s, Bucket(w, s), NEW h, h \in Nat
    PROVE  \E f \in [0 .. h -> Nat] : Counts(w, s, h, f) /\ Before(w, s, h) = f[h]
<1>1. PICK f \in [0 .. h -> Nat] : Counts(w, s, h, f)
  BY CountsExist, Zenon
<1> DEFINE Def(g) == [b \in 0 .. h |-> IF b = 0 THEN 0
                                       ELSE g[b - 1] + (IF b - 1 \in Assignments
                                                        THEN w.assignments_by_subject[s][b - 1] ELSE 0)]
           count == CHOOSE g : g = Def(g)
<1>2. ASSUME NEW g PROVE g = Def(g) <=> (g = [b \in 0 .. h |-> g[b]] /\ Counts(w, s, h, g))
  <2>1. Def(g) = [b \in 0 .. h |-> IF b = 0 THEN 0 ELSE g[b - 1] + Held(w, s, b - 1)]
    BY DEF Held
  <2> HIDE DEF Def
  <2>2. 0 \in 0 .. h /\ \A n \in 0 .. h : n = 0 \/ n \in 1 .. h
    OBVIOUS
  <2>3. \A n \in 1 .. h : n \in 0 .. h /\ n # 0
    OBVIOUS
  <2>4. ASSUME g = Def(g) PROVE g = [b \in 0 .. h |-> g[b]] /\ Counts(w, s, h, g)
    <3>1. g = [b \in 0 .. h |-> IF b = 0 THEN 0 ELSE g[b - 1] + Held(w, s, b - 1)]
      BY <2>1, <2>4
    <3>2. DOMAIN g = 0 .. h /\ \A n \in 0 .. h : g[n] = IF n = 0 THEN 0 ELSE g[n - 1] + Held(w, s, n - 1)
      BY <3>1
    <3> QED BY <2>2, <2>3, <3>1, <3>2, Zenon DEF Counts
  <2>5. ASSUME g = [b \in 0 .. h |-> g[b]], Counts(w, s, h, g) PROVE g = Def(g)
    <3>1. \A n \in 0 .. h : g[n] = IF n = 0 THEN 0 ELSE g[n - 1] + Held(w, s, n - 1)
      BY <2>2, <2>5, Zenon DEF Counts
    <3> QED BY <2>1, <2>5, <3>1, Zenon
  <2> QED BY <2>4, <2>5, Zenon
<1>3. f = Def(f)
  <2> HIDE DEF Def
  <2>1. f = [b \in 0 .. h |-> f[b]]
    BY <1>1
  <2> QED BY <1>1, <1>2, <2>1
<1>4. count = Def(count)
  <2> HIDE DEF Def
  <2> QED BY <1>3
<1>5. Counts(w, s, h, count)
  <2> HIDE DEF Def, count
  <2> QED BY <1>2, <1>4
<1>6. Before(w, s, h) = count[h]
  BY DEF Before
<1> HIDE DEF count, Def
<1>7. count[h] = f[h]
  BY <1>1, <1>5, CountsAgree
<1> QED BY <1>1, <1>6, <1>7

\* The count before an identifier grows by what the bucket holds of it.
LEMMA BeforeUnfolds ==
    ASSUME NEW w, NEW s, Bucket(w, s)
    PROVE  /\ Before(w, s, 0) = 0
           /\ \A n \in Nat : /\ Before(w, s, n) \in Nat
                             /\ Before(w, s, n + 1) = Before(w, s, n) + Held(w, s, n)
<1>1. Before(w, s, 0) = 0
  <2>1. PICK f \in [0 .. 0 -> Nat] : Counts(w, s, 0, f) /\ Before(w, s, 0) = f[0]
    BY BeforeCounts, Zenon
  <2> QED BY <2>1 DEF Counts
<1>2. ASSUME NEW n \in Nat
      PROVE  Before(w, s, n) \in Nat /\ Before(w, s, n + 1) = Before(w, s, n) + Held(w, s, n)
  <2>1. PICK f \in [0 .. n -> Nat] : Counts(w, s, n, f) /\ Before(w, s, n) = f[n]
    BY BeforeCounts, Zenon
  <2>2. n + 1 \in Nat
    OBVIOUS
  <2>3. PICK g \in [0 .. n + 1 -> Nat] : Counts(w, s, n + 1, g) /\ Before(w, s, n + 1) = g[n + 1]
    BY <2>2, BeforeCounts, Zenon
  <2>4. f[n] = g[n]
    BY <2>1, <2>2, <2>3, CountsAgree
  <2>5. n + 1 \in 1 .. n + 1 /\ (n + 1) - 1 = n /\ n \in 0 .. n
    OBVIOUS
  <2>6. g[n + 1] = g[(n + 1) - 1] + Held(w, s, (n + 1) - 1)
    BY <2>3, <2>5, Zenon DEF Counts
  <2> QED BY <2>1, <2>3, <2>4, <2>5, <2>6, Zenon
<1> QED BY <1>1, <1>2

\* When more identifiers stand before some place than the budget allows, it ended on one of them.
LEMMA BudgetEnds ==
    ASSUME NEW w, NEW s, Bucket(w, s), NEW k \in Nat, Before(w, s, k) > MaxQuerySteps
    PROVE  OverBudget(w, s) # {}
<1>1. Assignments \subseteq Nat /\ MaxQuerySteps \in Nat
  BY RegistryBounds, QueryBounds DEF Ids
<1>2. /\ Before(w, s, 0) = 0
      /\ \A n \in Nat : /\ Before(w, s, n) \in Nat
                        /\ Before(w, s, n + 1) = Before(w, s, n) + Held(w, s, n)
  BY BeforeUnfolds
<1> DEFINE T == {n \in Nat : Before(w, s, n) > MaxQuerySteps}
<1>a. k \in T
  OBVIOUS
<1>3. T \subseteq Nat
  OBVIOUS
<1>4. PICK m \in T : \A n \in T : m <= n
  <2> HIDE DEF T
  <2> QED BY <1>a, <1>3, LeastNumber, Zenon
<1>5. m # 0 /\ m \in Nat
  BY <1>1, <1>2, <1>4
<1> DEFINE b == m - 1
<1>6. b \in Nat /\ b + 1 = m
  BY <1>5
<1>7. b \notin T
  BY <1>4, <1>6
<1>8. Before(w, s, b) <= MaxQuerySteps /\ Before(w, s, b) + Held(w, s, b) > MaxQuerySteps
  <2> HIDE DEF b
  <2>1. Before(w, s, m) > MaxQuerySteps
    BY <1>4
  <2>2. Before(w, s, b) \in Nat /\ Before(w, s, m) = Before(w, s, b) + Held(w, s, b)
    BY <1>2, <1>6
  <2>3. ~(Before(w, s, b) > MaxQuerySteps)
    BY <1>6, <1>7
  <2> QED BY <1>1, <2>1, <2>2, <2>3
<1> HIDE DEF b, T
<1>9. b \in Assignments /\ Held(w, s, b) = w.assignments_by_subject[s][b]
  <2>1. CASE b \notin Assignments
    <3>1. Held(w, s, b) = 0 /\ Before(w, s, b) \in Nat
      BY <1>2, <1>6, <2>1 DEF Held
    <3> QED BY <1>1, <1>8, <3>1
  <2> QED BY <2>1 DEF Held
<1>10. b \in OverBudget(w, s)
  BY <1>8, <1>9 DEF OverBudget, UpTo
<1> QED BY <1>10

\* The scan of a bucket reaches every identifier in it, unless the budget ends on one of them.
LEMMA ScanReaches ==
    ASSUME NEW w, NEW s, Bucket(w, s), NEW a, a \in Assignments, w.assignments_by_subject[s][a] > 0
    PROVE  a \in Scanned(w, s) \/ OverBudget(w, s) # {}
<1>1. Assignments \subseteq Nat /\ MaxQuerySteps \in Nat
  BY RegistryBounds, QueryBounds DEF Ids
<1>2. /\ Before(w, s, 0) = 0
      /\ \A n \in Nat : /\ Before(w, s, n) \in Nat
                        /\ Before(w, s, n + 1) = Before(w, s, n) + Held(w, s, n)
  BY BeforeUnfolds
<1>3. CASE Before(w, s, a) < MaxQuerySteps
  BY <1>3 DEF Scanned
<1>4. CASE ~(Before(w, s, a) < MaxQuerySteps)
  <2>1. a \in Nat /\ a + 1 \in Nat /\ Held(w, s, a) \in Nat /\ Held(w, s, a) > 0
    BY <1>1 DEF Held, Bucket
  <2>2. Before(w, s, a + 1) > MaxQuerySteps
    BY <1>1, <1>2, <1>4, <2>1
  <2> QED BY <2>1, <2>2, BudgetEnds
<1> QED BY <1>3, <1>4

\* The scan of a bucket never passes over evidence in silence: an indexed assignment that is
\* offered to the query is reported, or the identifier on which the budget ended is.
LEMMA ScanReports ==
    ASSUME NEW w, NEW q, NEW s, Bucket(w, s), NEW distance, NEW a, a \in Assignments,
           w.assignments_by_subject[s][a] > 0, Level(w, q, a) >= 0,
           distance > 0 => w.assignments[a].def.kind = "Inherited"
    PROVE  Verdicts(w, q, s, distance) # {}
<1>1. CASE a \in Scanned(w, s)
  <2>1. a \in Offered(w, q, s, distance)
    BY <1>1 DEF Offered
  <2>2. [id |-> a, code |-> Refusal(w, a)] \in Verdicts(w, q, s, distance)
    BY <2>1 DEF Verdicts
  <2> QED BY <2>2
<1>2. ASSUME NEW b \in OverBudget(w, s) PROVE Verdicts(w, q, s, distance) # {}
  <2>1. [id |-> b, code |-> "evidence_scan_budget_exhausted"] \in Verdicts(w, q, s, distance)
    BY <1>2 DEF Verdicts
  <2> QED BY <2>1
<1> QED BY <1>1, <1>2, ScanReaches, Zenon

-----------------------------------------------------------------------------
(* The ancestors of a subject.                                             *)

\* Some subjects and the ones they inherit from.
Wider(w, A) == A \cup UNION {w.subjects[x].def.parents : x \in A}

\* f lists {s} and the h sets that spread from it.
Spread(w, s, h, f) ==
    /\ DOMAIN f = 0 .. h
    /\ f[0] = {s}
    /\ \A n \in 1 .. h : f[n] = Wider(w, f[n - 1])

\* The breadth-first walk can go on as long as one likes, and stays among the defined subjects.
LEMMA SpreadExists ==
    ASSUME NEW w, Sound(w), NEW s, s \in Defined(w.subjects), NEW h, h \in Nat
    PROVE  \E f \in [0 .. h -> SUBSET Defined(w.subjects)] : Spread(w, s, h, f)
<1> DEFINE S == SUBSET Defined(w.subjects)
           step == [A \in S |-> Wider(w, A)]
<1>1. step \in [S -> S]
  BY DEF Wider, Sound, ParentsDefined
<1>2. {s} \in S
  OBVIOUS
<1>3. \A A \in S : step[A] = Wider(w, A)
  OBVIOUS
<1> HIDE DEF S, step
<1>4. IteratesOf(step, S, {s}, h) # {}
  BY <1>1, <1>2, Iterates, Zenon
<1>5. PICK f \in [0 .. h -> S] : f[0] = {s} /\ \A n \in 1 .. h : f[n] = step[f[n - 1]]
  BY <1>4 DEF IteratesOf
<1>6. \A n \in 1 .. h : n - 1 \in 0 .. h
  OBVIOUS
<1>7. Spread(w, s, h, f)
  BY <1>3, <1>5, <1>6, Zenon DEF Spread
<1> QED BY <1>5, <1>7 DEF S

\* Two walks agree as far as both go.
LEMMA SpreadsAgree ==
    ASSUME NEW w, NEW s, NEW h \in Nat, NEW k \in Nat, h <= k,
           NEW f, NEW g, Spread(w, s, h, f), Spread(w, s, k, g)
    PROVE  \A n \in 0 .. h : f[n] = g[n]
<1> DEFINE P == {n \in Nat : n <= h => f[n] = g[n]}
<1>1. 0 \in P
  BY Zenon DEF Spread
<1>2. ASSUME NEW n \in Nat, n \in P PROVE n + 1 \in P
  <2> SUFFICES ASSUME n + 1 <= h PROVE f[n + 1] = g[n + 1]
    OBVIOUS
  <2>1. n + 1 \in 1 .. h /\ n + 1 \in 1 .. k /\ (n + 1) - 1 = n /\ f[n] = g[n]
    BY <1>2
  <2>2. f[n + 1] = Wider(w, f[(n + 1) - 1]) /\ g[n + 1] = Wider(w, g[(n + 1) - 1])
    BY <2>1 DEF Spread
  <2> QED BY <2>1, <2>2
<1>3. P \subseteq Nat
  OBVIOUS
<1> HIDE DEF P
<1>4. P = Nat
  BY <1>1, <1>2, <1>3, Induction, Zenon
<1> QED BY <1>4 DEF P

\* A ring is what the walk meets for the first time.
LEMMA RingSpreads ==
    ASSUME NEW w, Sound(w), NEW s, s \in Defined(w.subjects), NEW h, h \in Nat \ {0}
    PROVE  \E f \in [0 .. h -> SUBSET Defined(w.subjects)] :
               Spread(w, s, h, f) /\ Ring(w, s, h) = f[h] \ f[h - 1]
<1>1. PICK f \in [0 .. h -> SUBSET Defined(w.subjects)] : Spread(w, s, h, f)
  BY SpreadExists, Zenon
<1> DEFINE Def(g) == [k \in 0 .. h |->
                        IF k = 0 THEN {s}
                        ELSE LET nearer == g[k - 1]
                             IN  nearer \cup UNION {w.subjects[x].def.parents : x \in nearer}]
           seen == CHOOSE g : g = Def(g)
<1>2. ASSUME NEW g PROVE g = Def(g) <=> (g = [k \in 0 .. h |-> g[k]] /\ Spread(w, s, h, g))
  <2>1. Def(g) = [k \in 0 .. h |-> IF k = 0 THEN {s} ELSE Wider(w, g[k - 1])]
    BY DEF Wider
  <2> HIDE DEF Def
  <2>2. 0 \in 0 .. h /\ \A n \in 0 .. h : n = 0 \/ n \in 1 .. h
    OBVIOUS
  <2>3. \A n \in 1 .. h : n \in 0 .. h /\ n # 0
    OBVIOUS
  <2>4. ASSUME g = Def(g) PROVE g = [k \in 0 .. h |-> g[k]] /\ Spread(w, s, h, g)
    <3>1. g = [k \in 0 .. h |-> IF k = 0 THEN {s} ELSE Wider(w, g[k - 1])]
      BY <2>1, <2>4
    <3>2. DOMAIN g = 0 .. h /\ \A n \in 0 .. h : g[n] = IF n = 0 THEN {s} ELSE Wider(w, g[n - 1])
      BY <3>1, Zenon
    <3> QED BY <2>2, <2>3, <3>1, <3>2, Zenon DEF Spread
  <2>5. ASSUME g = [k \in 0 .. h |-> g[k]], Spread(w, s, h, g) PROVE g = Def(g)
    <3>1. \A n \in 0 .. h : g[n] = IF n = 0 THEN {s} ELSE Wider(w, g[n - 1])
      BY <2>2, <2>5, Zenon DEF Spread
    <3> QED BY <2>1, <2>5, <3>1, Zenon
  <2> QED BY <2>4, <2>5
<1>3. f = Def(f)
  <2> HIDE DEF Def
  <2>1. f = [k \in 0 .. h |-> f[k]]
    BY <1>1
  <2> QED BY <1>1, <1>2, <2>1
<1>4. seen = Def(seen)
  <2> HIDE DEF Def
  <2> QED BY <1>3
<1>5. Spread(w, s, h, seen)
  <2> HIDE DEF Def, seen
  <2> QED BY <1>2, <1>4
<1>6. Ring(w, s, h) = seen[h] \ seen[h - 1]
  BY DEF Ring
<1> HIDE DEF seen, Def
<1>7. seen[h] = f[h] /\ seen[h - 1] = f[h - 1]
  BY <1>1, <1>5, SpreadsAgree
<1> QED BY <1>1, <1>6, <1>7

\* One walk gives all the rings up to its end.
Walk(w, s, N, g) ==
    /\ g \in [0 .. N -> SUBSET Defined(w.subjects)]
    /\ Spread(w, s, N, g)
    /\ \A n \in 1 .. N : Ring(w, s, n) = g[n] \ g[n - 1]

\* The rings of subject_ancestors are such a walk.
LEMMA RingsWalk ==
    ASSUME NEW w, Sound(w), NEW s, s \in Defined(w.subjects), NEW N, N \in Nat
    PROVE  \E g : Walk(w, s, N, g)
<1>1. PICK g \in [0 .. N -> SUBSET Defined(w.subjects)] : Spread(w, s, N, g)
  BY SpreadExists, Zenon
<1>2. ASSUME NEW n \in 1 .. N PROVE Ring(w, s, n) = g[n] \ g[n - 1]
  <2>1. n \in Nat \ {0} /\ n <= N /\ n \in 0 .. n /\ n - 1 \in 0 .. n /\ n \in Nat
    OBVIOUS
  <2>2. PICK f \in [0 .. n -> SUBSET Defined(w.subjects)] :
            Spread(w, s, n, f) /\ Ring(w, s, n) = f[n] \ f[n - 1]
    BY <2>1, RingSpreads, Zenon
  <2>3. \A k \in 0 .. n : f[k] = g[k]
    BY <1>1, <2>1, <2>2, SpreadsAgree
  <2> QED BY <2>1, <2>2, <2>3
<1> QED BY <1>1, <1>2 DEF Walk

\* The sets of a walk grow, and hold nothing that is not reachable.
LEMMA WalkGrows ==
    ASSUME NEW w, Sound(w), NEW s, s \in Defined(w.subjects), NEW N, N \in Nat, NEW g, Walk(w, s, N, g)
    PROVE  /\ \A n \in 1 .. N : g[n - 1] \subseteq g[n]
           /\ \A n \in 0 .. N : s \in g[n] /\ g[n] \subseteq Reachable(w.subjects, {s})
<1> DEFINE R == Reachable(w.subjects, {s})
           P == {n \in Nat : n <= N => (s \in g[n] /\ g[n] \subseteq R)}
<1>1. /\ g \in [0 .. N -> SUBSET Defined(w.subjects)]
      /\ g[0] = {s}
      /\ \A n \in 1 .. N : g[n] = Wider(w, g[n - 1])
  BY DEF Walk, Spread
<1>2. s \in R /\ Upward(w.subjects, R)
  <2>1. Upward(w.subjects, DOMAIN w.subjects) /\ IsFiniteSet(DOMAIN w.subjects) /\ s \in DOMAIN w.subjects
    BY InheritanceUpward, IdentifiersFinite DEF Sound, Defined
  <2> QED BY <2>1, ReachableIsLeast
<1>3. \A n \in 1 .. N : g[n - 1] \subseteq g[n]
  BY <1>1 DEF Wider
<1> HIDE DEF R
<1>4. \A x \in Defined(w.subjects) : InheritsFrom(w.subjects, x) = w.subjects[x].def.parents
  <2>1. \A x \in Defined(w.subjects) : w.subjects[x].gen # 0
    BY DEF Defined, Sound
  <2> QED BY <2>1 DEF InheritsFrom
<1>5. 0 \in P
  BY <1>1, <1>2
<1>6. ASSUME NEW n \in Nat, n \in P PROVE n + 1 \in P
  <2> SUFFICES ASSUME n + 1 <= N PROVE s \in g[n + 1] /\ g[n + 1] \subseteq R
    OBVIOUS
  <2>1. n + 1 \in 1 .. N /\ (n + 1) - 1 = n /\ n \in 0 .. N /\ s \in g[n] /\ g[n] \subseteq R
    BY <1>6
  <2>2. g[n + 1] = Wider(w, g[n]) /\ g[n] \subseteq Defined(w.subjects)
    BY <1>1, <2>1
  <2>3. \A x \in g[n] : w.subjects[x].def.parents \subseteq R
    BY <1>2, <1>4, <2>1, <2>2, Zenon DEF Upward
  <2> QED BY <2>1, <2>2, <2>3, Zenon DEF Wider
<1>7. P \subseteq Nat
  OBVIOUS
<1> HIDE DEF P
<1>8. P = Nat
  BY <1>5, <1>6, <1>7, Induction, Zenon
<1>9. \A n \in 0 .. N : s \in g[n] /\ g[n] \subseteq R
  BY <1>8 DEF P
<1> QED BY <1>3, <1>9, Zenon DEF R

\* subject_ancestors lists only subjects that the queried one inherits from, never itself.
LEMMA AncestorsSound ==
    ASSUME NEW w, Sound(w), NEW s, s \in Defined(w.subjects), NEW n, n \in 1 .. MaxInheritance,
           NEW x, x \in Ring(w, s, n)
    PROVE  x \in Reachable(w.subjects, {s}) /\ x # s /\ x \in Subjects
<1>1. MaxInheritance \in Nat
  BY RegistryBounds
<1>2. PICK g : Walk(w, s, MaxInheritance, g)
  BY <1>1, RingsWalk
<1>3. /\ g \in [0 .. MaxInheritance -> SUBSET Defined(w.subjects)]
      /\ x \in g[n] /\ x \notin g[n - 1]
  BY <1>2 DEF Walk
<1>4. n \in 0 .. MaxInheritance /\ n - 1 \in 0 .. MaxInheritance
  BY <1>1
<1>5. g[n] \subseteq Reachable(w.subjects, {s}) /\ s \in g[n - 1]
  BY <1>1, <1>2, <1>4, WalkGrows, Zenon
<1>6. x \in Subjects
  BY <1>3, <1>4 DEF Sound, Defined
<1> QED BY <1>3, <1>5, <1>6, Zenon

\* When subject_ancestors stays within its depth, it lists everything the subject inherits from.
LEMMA AncestorsComplete ==
    ASSUME NEW w, Sound(w), NEW s, s \in Defined(w.subjects), AncestorsUsable(w, s),
           NEW x, x \in Reachable(w.subjects, {s}), x # s
    PROVE  \E n \in 1 .. MaxInheritance : x \in Ring(w, s, n)
<1> DEFINE M == MaxInheritance
<1>1. M \in Nat /\ M + 1 \in Nat
  BY RegistryBounds
<1>2. PICK g : Walk(w, s, M + 1, g)
  BY <1>1, RingsWalk, Zenon
<1>3. M + 1 \in 1 .. M + 1 /\ (M + 1) - 1 = M /\ M \in 0 .. M + 1 /\ M + 1 \in 0 .. M + 1
  BY <1>1
<1>4. /\ g \in [0 .. M + 1 -> SUBSET Defined(w.subjects)]
      /\ g[0] = {s}
      /\ \A n \in 1 .. M + 1 : g[n] = Wider(w, g[n - 1]) /\ Ring(w, s, n) = g[n] \ g[n - 1]
  BY <1>2 DEF Walk, Spread
<1>5. s \in g[M]
  BY <1>1, <1>2, <1>3, WalkGrows, Zenon
<1>6. Ring(w, s, M + 1) = {}
  BY DEF AncestorsUsable
<1>7. \A y \in g[M] : w.subjects[y].def.parents \subseteq g[M]
  <2>1. Wider(w, g[M]) \ g[M] = {}
    BY <1>3, <1>4, <1>6
  <2> QED BY <2>1 DEF Wider
<1>8. Upward(w.subjects, g[M])
  <2>1. \A y \in g[M] : InheritsFrom(w.subjects, y) \subseteq g[M]
    BY <1>7 DEF InheritsFrom
  <2> QED BY <2>1 DEF Upward
<1>9. x \in g[M]
  <2>1. Upward(w.subjects, DOMAIN w.subjects) /\ IsFiniteSet(DOMAIN w.subjects) /\ s \in DOMAIN w.subjects
    BY InheritanceUpward, IdentifiersFinite DEF Sound, Defined
  <2>2. \A C : ({s} \subseteq C /\ Upward(w.subjects, C)) => Reachable(w.subjects, {s}) \subseteq C
    BY <2>1, ReachableIsLeast
  <2> QED BY <1>5, <1>8, <2>2
<1> DEFINE T == {n \in Nat : n <= M /\ x \in g[n]}
<1>10. T \subseteq Nat /\ M \in T
  BY <1>1, <1>9
<1>11. PICK n \in T : \A m \in T : n <= m
  <2> HIDE DEF T
  <2> QED BY <1>10, LeastNumber, Zenon
<1>12. n # 0
  BY <1>4, <1>11
<1>13. n \in 1 .. M /\ n \in 1 .. M + 1 /\ n - 1 \in Nat /\ n - 1 <= M /\ ~(n <= n - 1)
  BY <1>1, <1>11, <1>12
<1>14. x \in g[n] /\ x \notin g[n - 1]
  BY <1>11, <1>13
<1>15. x \in Ring(w, s, n)
  BY <1>4, <1>13, <1>14, Zenon
<1> QED BY <1>13, <1>15

-----------------------------------------------------------------------------
(* How a decision is reached.                                              *)

\* What evaluate_query reports without looking at evidence.
LEMMA UndecidedFields ==
    ASSUME NEW outcome, NEW reason, NEW rejected
    PROVE  /\ Undecided(outcome, reason, rejected).outcome = outcome
           /\ Undecided(outcome, reason, rejected).reason = reason
           /\ Undecided(outcome, reason, rejected).winner = Absent
BY DEF Undecided

\* The decisions that rest on evidence, or on finding none.
Considered(D) == D.winner # Absent \/ D.outcome = "Unknown" \/ D.reason = "policy_declared_default"

\* What a query must meet before its evidence is looked at.
Admitted(w, q) ==
    /\ ~(q.as_of_epoch # Absent /\ q.as_of_epoch > w.epoch)
    /\ ~(q.as_of_epoch # Absent /\ q.as_of_epoch < w.epoch)
    /\ w.subjects[q.subject].gen # 0
    /\ q.subject_generation \in {0, w.subjects[q.subject].gen}
    /\ ChainUsable(w, q.scope)
    /\ ~(PolicyGeneration(w, q.scope) < q.require_policy_generation)
    /\ ~(w.scopes[q.scope].gen < q.require_scope_generation)

\* evaluate_query considers evidence only for an admitted query, and only when the ancestors can be
\* listed or are not needed.
LEMMA DecisionReached ==
    ASSUME NEW w, NEW q, Considered(evaluate_query(w, q))
    PROVE  /\ Admitted(w, q)
           /\ Accepted(Verdicts(w, q, q.subject, 0)) = {} => AncestorsUsable(w, q.subject)
           /\ evaluate_query(w, q) = Decide(w, q, Filtered(w, q, Collect(w, q)))
<1> DEFINE c1 == q.as_of_epoch # Absent /\ q.as_of_epoch > w.epoch
           c2 == q.as_of_epoch # Absent /\ q.as_of_epoch < w.epoch
           c3 == w.subjects[q.subject].gen = 0
           c4 == q.subject_generation \notin {0, w.subjects[q.subject].gen}
           c5 == ~ChainUsable(w, q.scope)
           c6 == PolicyGeneration(w, q.scope) < q.require_policy_generation
           c7 == w.scopes[q.scope].gen < q.require_scope_generation
           c8 == Accepted(Verdicts(w, q, q.subject, 0)) = {} /\ ~AncestorsUsable(w, q.subject)
           D == Decide(w, q, Filtered(w, q, Collect(w, q)))
           u1 == Undecided("Rejected", "epoch_from_future", {})
           u2 == Undecided("Stale", "epoch_superseded", {})
           u3 == Undecided("Rejected", "subject_not_registered", {})
           u4 == Undecided("Stale", "subject_generation_superseded", {})
           u5 == Undecided("Rejected", "scope_unusable", {})
           u6 == Undecided("Stale", "required_policy_generation_not_reached", {})
           u7 == Undecided("Stale", "required_scope_generation_not_reached", {})
           u8 == Undecided("Rejected", "inheritance_unusable", {})
           r == evaluate_query(w, q)
<1>1. r = CASE c1 -> u1 [] c2 -> u2 [] c3 -> u3 [] c4 -> u4
            [] c5 -> u5 [] c6 -> u6 [] c7 -> u7 [] c8 -> u8 [] OTHER -> D
  BY DEF evaluate_query
<1>2. /\ ~Considered(u1) /\ ~Considered(u2) /\ ~Considered(u3) /\ ~Considered(u4)
      /\ ~Considered(u5) /\ ~Considered(u6) /\ ~Considered(u7) /\ ~Considered(u8)
  BY UndecidedFields DEF Considered
<1> HIDE DEF c1, c2, c3, c4, c5, c6, c7, c8, D, u1, u2, u3, u4, u5, u6, u7, u8, r
<1>3. Considered(r)
  BY DEF r
<1>4. ~c1 /\ ~c2 /\ ~c3 /\ ~c4 /\ ~c5 /\ ~c6 /\ ~c7 /\ ~c8
  BY <1>1, <1>2, <1>3
<1>5. r = D
  BY <1>1, <1>4
<1> QED BY <1>4, <1>5, Zenon DEF Admitted, c1, c2, c3, c4, c5, c6, c7, c8, D, r

\* Every verdict is an acceptance or a refusal.
LEMMA VerdictsSplit ==
    ASSUME NEW verdicts, Accepted(verdicts) = {}, Refused(verdicts) = {}
    PROVE  verdicts = {}
BY Zenon DEF Accepted, Refused

\* The closest ancestor that offers evidence is one that does.
LEMMA ClosestOffers ==
    ASSUME NEW offering, offering # {}, offering \subseteq Nat \X Nat
    PROVE  ClosestOf(offering) \in offering
<1> DEFINE near == {r[1] : r \in offering}
           n == Min(near)
           there == {r[2] : r \in {o \in offering : o[1] = n}}
<1>1. near \subseteq Nat /\ near # {}
  OBVIOUS
<1>2. n \in near
  <2> HIDE DEF near
  <2> QED BY <1>1, MinIn, Zenon
<1> HIDE DEF n
<1>3. there \subseteq Nat /\ there # {}
  BY <1>2
<1>4. Min(there) \in there
  <2> HIDE DEF there
  <2> QED BY <1>3, MinIn, Zenon
<1>5. ClosestOf(offering) = <<n, Min(there)>>
  BY DEF ClosestOf, n
<1> DEFINE x == Min(there)
<1> HIDE DEF x
<1>6. PICK r \in offering : r[1] = n /\ r[2] = x
  BY <1>4, Zenon DEF x
<1>7. r = <<n, x>>
  BY <1>6
<1> QED BY <1>5, <1>6, <1>7 DEF x

\* The ancestors are pairs of numbers.
LEMMA AncestorsNumbered ==
    ASSUME NEW w, Sound(w), NEW s, s \in Defined(w.subjects)
    PROVE  Ancestors(w, s) \subseteq Nat \X Nat
<1>1. Subjects \subseteq Nat /\ MaxInheritance \in Nat
  BY RegistryBounds DEF Ids
<1>2. ASSUME NEW n \in 1 .. MaxInheritance, NEW x \in Ring(w, s, n) PROVE <<n, x>> \in Nat \X Nat
  <2>1. x \in Subjects
    BY AncestorsSound, Zenon
  <2> QED BY <1>1, <2>1
<1> SUFFICES ASSUME NEW r \in Ancestors(w, s) PROVE r \in Nat \X Nat
  OBVIOUS
<1>3. PICK n \in 1 .. MaxInheritance : \E x \in Ring(w, s, n) : r = <<n, x>>
  BY DEF Ancestors
<1>4. PICK x \in Ring(w, s, n) : r = <<n, x>>
  BY <1>3
<1> QED BY <1>2, <1>4

\* Where evidence may come from: the subject itself, at distance 0, or an ancestor.
Sources(w, q) == {<<0, q.subject>>} \cup Ancestors(w, q.subject)

\* Evidence e was collected from source r.
CollectedFrom(w, q, e, r) ==
    /\ e.distance = r[1]
    /\ e.accepted = Accepted(Verdicts(w, q, r[2], r[1]))
    /\ Refused(Verdicts(w, q, r[2], r[1])) \subseteq e.rejected

\* evaluate_query collects from one source: the subject when it has usable evidence or nobody else
\* has any, otherwise an ancestor that has something to say.
LEMMA CollectSource ==
    ASSUME NEW w, NEW q, Sound(w), q.subject \in Defined(w.subjects)
    PROVE  \E r \in Sources(w, q) :
               /\ CollectedFrom(w, q, Collect(w, q), r)
               /\ \/ r = <<0, q.subject>> /\ (Accepted(Verdicts(w, q, q.subject, 0)) # {} \/ Offering(w, q) = {})
                  \/ r \in Offering(w, q)
<1> DEFINE own == Verdicts(w, q, q.subject, 0)
           offering == Offering(w, q)
<1>1. Collect(w, q) = IF Accepted(own) # {} \/ offering = {} THEN Evidence(0, own, {})
                      ELSE InheritedFrom(w, q, own, ClosestOf(offering))
  BY DEF Collect, CollectAfter
<1>2. CASE Accepted(own) # {} \/ offering = {}
  <2> DEFINE r == <<0, q.subject>>
  <2>1. r[1] = 0 /\ r[2] = q.subject /\ r \in Sources(w, q)
    BY DEF Sources
  <2>2. /\ Evidence(0, own, {}).distance = 0 /\ Evidence(0, own, {}).accepted = Accepted(own)
        /\ Evidence(0, own, {}).rejected = Refused(own) \cup {}
    <3> HIDE DEF own
    <3> QED BY DEF Evidence
  <2>3. CollectedFrom(w, q, Collect(w, q), r)
    BY <1>1, <1>2, <2>1, <2>2, Zenon DEF CollectedFrom
  <2> QED BY <1>2, <2>1, <2>3
<1>3. CASE ~(Accepted(own) # {} \/ offering = {})
  <2> DEFINE r == ClosestOf(offering)
             there == Verdicts(w, q, r[2], r[1])
  <2>1. offering \subseteq Ancestors(w, q.subject)
    BY DEF Offering
  <2>2. offering \subseteq Nat \X Nat
    BY <2>1, AncestorsNumbered
  <2>3. r \in offering
    <3> HIDE DEF offering
    <3> QED BY <1>3, <2>2, ClosestOffers, Zenon
  <2>4. Collect(w, q) = Evidence(r[1], there, Refused(own))
    BY <1>1, <1>3 DEF InheritedFrom
  <2>5. r \in Sources(w, q)
    BY <2>1, <2>3 DEF Sources
  <2> HIDE DEF there, own, r
  <2>6. /\ Evidence(r[1], there, Refused(own)).distance = r[1]
        /\ Evidence(r[1], there, Refused(own)).accepted = Accepted(there)
        /\ Evidence(r[1], there, Refused(own)).rejected = Refused(there) \cup Refused(own)
    BY DEF Evidence
  <2>7. CollectedFrom(w, q, Collect(w, q), r)
    BY <2>4, <2>6 DEF CollectedFrom, there
  <2> QED BY <2>3, <2>5, <2>7
<1> QED BY <1>2, <1>3

\* Filtering exceptions and overrides drops nothing in silence.
LEMMA FilterFields ==
    ASSUME NEW w, NEW q, NEW e, {"accepted", "rejected"} \subseteq DOMAIN e
    PROVE  /\ Filtered(w, q, e).accepted = {a \in e.accepted : Misfit(w, q, e.accepted, a) = "Ok"}
           /\ e.rejected \subseteq Filtered(w, q, e).rejected
           /\ Filtered(w, q, e).accepted = {} /\ Filtered(w, q, e).rejected = {} => e.accepted = {}
<1> DEFINE V == {[id |-> a, code |-> Misfit(w, q, e.accepted, a)] : a \in e.accepted}
<1>1. Filtered(w, q, e) = [e EXCEPT !.accepted = Accepted(V), !.rejected = @ \cup Refused(V)]
  BY DEF Filtered, Keep
<1>2. Filtered(w, q, e).accepted = Accepted(V) /\ Filtered(w, q, e).rejected = e.rejected \cup Refused(V)
  <2> HIDE DEF V
  <2> QED BY <1>1
<1>3. Accepted(V) = {a \in e.accepted : Misfit(w, q, e.accepted, a) = "Ok"}
  <2>1. \A a : [id |-> a, code |-> Misfit(w, q, e.accepted, a)].id = a
    OBVIOUS
  <2>2. \A a : [id |-> a, code |-> Misfit(w, q, e.accepted, a)].code = Misfit(w, q, e.accepted, a)
    OBVIOUS
  <2>3. \A a : a \in Accepted(V) <=> a \in e.accepted /\ Misfit(w, q, e.accepted, a) = "Ok"
    <3> SUFFICES ASSUME NEW a
                 PROVE  a \in Accepted(V) <=> a \in e.accepted /\ Misfit(w, q, e.accepted, a) = "Ok"
      OBVIOUS
    <3>1. ASSUME a \in Accepted(V) PROVE a \in e.accepted /\ Misfit(w, q, e.accepted, a) = "Ok"
      <4>1. PICK v \in V : v.code = "Ok" /\ v.id = a
        <5> HIDE DEF V
        <5> QED BY <3>1 DEF Accepted
      <4>2. PICK b \in e.accepted : v = [id |-> b, code |-> Misfit(w, q, e.accepted, b)]
        OBVIOUS
      <4> QED BY <4>1, <4>2
    <3>2. ASSUME a \in e.accepted, Misfit(w, q, e.accepted, a) = "Ok" PROVE a \in Accepted(V)
      <4> DEFINE v == [id |-> a, code |-> Misfit(w, q, e.accepted, a)]
      <4>1. v \in V /\ v.code = "Ok" /\ v.id = a
        BY <2>1, <2>2, <3>2
      <4> HIDE DEF v, V
      <4> QED BY <4>1 DEF Accepted
    <3> QED BY <3>1, <3>2
  <2> HIDE DEF V
  <2> QED BY <2>3
<1>4. ASSUME Accepted(V) = {}, Refused(V) = {} PROVE e.accepted = {}
  <2>1. V = {}
    <3> HIDE DEF V
    <3> QED BY <1>4, VerdictsSplit
  <2> QED BY <2>1, Zenon
<1> HIDE DEF V
<1> QED BY <1>2, <1>3, <1>4, Zenon

\* Collected evidence is a structure with these fields.
LEMMA CollectDomain ==
    ASSUME NEW w, NEW q
    PROVE  {"distance", "accepted", "rejected"} \subseteq DOMAIN Collect(w, q)
<1>1. ASSUME NEW d, NEW v, NEW r PROVE DOMAIN Evidence(d, v, r) = {"distance", "accepted", "rejected"}
  BY DEF Evidence
<1> QED BY <1>1 DEF Collect, CollectAfter, InheritedFrom

\* Only a decision without any evidence, used or refused, is Unknown or a default.
LEMMA SilentDecision ==
    ASSUME NEW w, NEW q, NEW e,
           Decide(w, q, e).outcome = "Unknown" \/ Decide(w, q, e).reason = "policy_declared_default"
    PROVE  e.accepted = {} /\ e.rejected = {}
<1>1. ASSUME NEW winning, NEW winner, NEW c, NEW o, NEW f
      PROVE  /\ Award(w, e, winning, winner).outcome \in {"Conflict", "Overridden", "Inherited", "Assigned"}
             /\ Award(w, e, winning, winner).reason \in {"conflict", "evidence"}
  BY DEF Award
<1>2. e.accepted = {}
  <2>1. ASSUME e.accepted # {}
        PROVE  \E winning, winner : Decide(w, q, e) = Award(w, e, winning, winner)
    BY <2>1, Zenon DEF Decide, AwardAt
  <2>2. ASSUME e.accepted # {} PROVE FALSE
    <3>1. PICK winning, winner : Decide(w, q, e) = Award(w, e, winning, winner)
      BY <2>1, <2>2
    <3> QED BY <1>1, <3>1
  <2> QED BY <2>2
<1>3. Decide(w, q, e) = Fallback(w, q, e.rejected, UnknownDefault(w, q))
  BY <1>2 DEF Decide
<1>4. ASSUME e.rejected # {} PROVE FALSE
  <2>1. \/ Decide(w, q, e) = Undecided("Fenced", "evidence_fenced", e.rejected)
        \/ Decide(w, q, e) = Undecided("Stale", "evidence_stale", e.rejected)
    BY <1>3, <1>4 DEF Fallback
  <2> QED BY <2>1, UndecidedFields
<1> QED BY <1>2, <1>4

\* When nothing was collected, neither the subject nor any ancestor had anything to say.
LEMMA NothingCollected ==
    ASSUME NEW w, NEW q, Sound(w), q.subject \in Defined(w.subjects),
           Filtered(w, q, Collect(w, q)).accepted = {}, Filtered(w, q, Collect(w, q)).rejected = {}
    PROVE  Verdicts(w, q, q.subject, 0) = {} /\ Offering(w, q) = {}
<1> DEFINE e == Collect(w, q)
<1>1. {"accepted", "rejected"} \subseteq DOMAIN e
  BY CollectDomain
<1>2. e.accepted = {} /\ e.rejected = {}
  <2> HIDE DEF e
  <2>1. e.rejected \subseteq Filtered(w, q, e).rejected /\ e.accepted = {}
    BY <1>1, FilterFields DEF e
  <2> QED BY <2>1 DEF e
<1>3. PICK r \in Sources(w, q) :
          /\ CollectedFrom(w, q, Collect(w, q), r)
          /\ \/ r = <<0, q.subject>> /\ (Accepted(Verdicts(w, q, q.subject, 0)) # {} \/ Offering(w, q) = {})
             \/ r \in Offering(w, q)
  BY CollectSource
<1>4. Verdicts(w, q, r[2], r[1]) = {}
  BY <1>2, <1>3, VerdictsSplit, Zenon DEF CollectedFrom
<1>5. r \notin Offering(w, q)
  BY <1>4 DEF Offering
<1>6. r[1] = 0 /\ r[2] = q.subject
  BY <1>3, <1>5
<1>7. Verdicts(w, q, q.subject, 0) = {}
  BY <1>4, <1>6
<1>8. Accepted(Verdicts(w, q, q.subject, 0)) = {}
  BY <1>7 DEF Accepted
<1> QED BY <1>3, <1>5, <1>7, <1>8

\* An assignment made for a query is met when its evidence is collected, whatever became of it.
LEMMA MadeForIsMet ==
    ASSUME RegistryInv, NEW q \in Queries, q.subject \in Defined(image.subjects), NEW a \in MadeFor(Now, q),
           AncestorsUsable(Now, q.subject)
    PROVE  Verdicts(Now, q, q.subject, 0) # {} \/ Offering(Now, q) # {}
<1> DEFINE d == image.assignments[a].def
<1>1. /\ Now.assignments = image.assignments /\ Now.subjects = image.subjects
      /\ Now.assignments_by_subject = image.assignments_by_subject
  BY DEF Now, World
<1>2. /\ a \in Defined(image.assignments) /\ Level(Now, q, a) >= 0
      /\ d.subject = q.subject \/ (d.kind = "Inherited" /\ d.subject \in Reachable(image.subjects, {q.subject}))
  <2> HIDE DEF Now
  <2>1. a \in Defined(Now.assignments) /\ Level(Now, q, a) >= 0
    BY DEF MadeFor
  <2>2. \/ Now.assignments[a].def.subject = q.subject
        \/ /\ Now.assignments[a].def.kind = "Inherited"
           /\ Now.assignments[a].def.subject \in Reachable(Now.subjects, {q.subject})
    BY DEF MadeFor
  <2>3. Now.assignments[a].def = d
    BY <1>1
  <2>4. d.subject = q.subject \/ (d.kind = "Inherited" /\ d.subject \in Reachable(image.subjects, {q.subject}))
    <3>1. d.subject = q.subject \/ (d.kind = "Inherited" /\ d.subject \in Reachable(Now.subjects, {q.subject}))
      <4> HIDE DEF d
      <4> QED BY <2>2, <2>3
    <3>2. Reachable(Now.subjects, {q.subject}) = Reachable(image.subjects, {q.subject})
      BY <1>1
    <3> HIDE DEF d
    <3> QED BY <3>1, <3>2
  <2>5. a \in Defined(image.assignments)
    BY <1>1, <2>1
  <2> HIDE DEF d
  <2> QED BY <2>1, <2>4, <2>5
<1>3. /\ a \in Assignments /\ image.assignments_by_subject[d.subject][a] > 0
      /\ d.subject \in Subjects
  <2>1. a \in Assignments
    BY <1>2 DEF RegistryInv, Shape, Defined
  <2>2. image.assignments_by_subject[d.subject][a] > 0
    BY <1>2 DEF RegistryInv, IndexComplete
  <2>4. d.subject \in Subjects
    BY <1>2 DEF RegistryInv, Known, NamesKnown
  <2> QED BY <2>1, <2>2, <2>4
<1>4. Bucket(Now, d.subject)
  BY <1>1, <1>3 DEF RegistryInv, Shape, Bucket
<1>5. CASE d.subject = q.subject
  <2>1. ~(0 > 0)
    OBVIOUS
  <2>2. Verdicts(Now, q, d.subject, 0) # {}
    BY <1>1, <1>2, <1>3, <1>4, <2>1, ScanReports, Zenon
  <2> QED BY <1>5, <2>2
<1>6. CASE d.subject # q.subject
  <2>1. PICK n \in 1 .. MaxInheritance : d.subject \in Ring(Now, q.subject, n)
    BY <1>1, <1>2, <1>6, SoundNow, AncestorsComplete, Zenon
  <2>2. Verdicts(Now, q, d.subject, n) # {}
    BY <1>1, <1>2, <1>3, <1>4, <1>6, ScanReports, Zenon
  <2> DEFINE r == <<n, d.subject>>
  <2>3. r \in Ancestors(Now, q.subject)
    BY <2>1 DEF Ancestors
  <2>4. r[1] = n /\ r[2] = d.subject
    OBVIOUS
  <2>5. r \in Offering(Now, q)
    <3> HIDE DEF r
    <3> QED BY <2>2, <2>3, <2>4 DEF Offering
  <2> QED BY <2>5
<1> QED BY <1>5, <1>6

\* In a sound registry UNKNOWN and a declared default say that nothing was published for the query.
LEMMA SilenceIsTrue ==
    ASSUME RegistryInv
    PROVE  UnknownMeansNoEvidence
<1> SUFFICES ASSUME NEW q \in Queries,
                    Decision(q).outcome = "Unknown" \/ Decision(q).reason = "policy_declared_default",
                    NEW a \in MadeFor(Now, q)
             PROVE  FALSE
  BY DEF UnknownMeansNoEvidence
<1> DEFINE e == Filtered(Now, q, Collect(Now, q))
<1>1. Considered(Decision(q))
  BY DEF Considered
<1>2. /\ Now.subjects[q.subject].gen # 0
      /\ Accepted(Verdicts(Now, q, q.subject, 0)) = {} => AncestorsUsable(Now, q.subject)
      /\ Decision(q) = Decide(Now, q, e)
  BY <1>1, DecisionReached DEF Decision, Admitted
<1>3. q.subject \in Defined(image.subjects) /\ q.subject \in Defined(Now.subjects)
  <2>1. Now.subjects = image.subjects /\ q.subject \in Subjects
    BY QueryBounds DEF Now, World
  <2>2. DOMAIN Now.subjects = Subjects
    BY SoundNow DEF Sound
  <2>3. Now.subjects[q.subject].gen \in Nat
    BY <2>1, SoundNow DEF Sound
  <2> QED BY <1>2, <2>1, <2>2, <2>3 DEF Defined
<1>4. e.accepted = {} /\ e.rejected = {}
  <2> HIDE DEF e
  <2> QED BY <1>2, SilentDecision
<1>5. Verdicts(Now, q, q.subject, 0) = {} /\ Offering(Now, q) = {}
  BY <1>3, <1>4, SoundNow, NothingCollected, Zenon
<1>6. AncestorsUsable(Now, q.subject)
  BY <1>2, <1>5 DEF Accepted
<1> QED BY <1>3, <1>5, <1>6, MadeForIsMet, Zenon

-----------------------------------------------------------------------------
(* The winner of a decision.                                               *)

\* Among finitely many assignments with ranks one has the highest.
LEMMA HighestRank ==
    ASSUME NEW w, NEW T, IsFiniteSet(T), T # {}, \A a \in T : Rank(w, a) \in Nat
    PROVE  \E a \in T : \A b \in T : Rank(w, a) >= Rank(w, b)
<1>1. PICK n \in Nat : ExistsSurjection(1 .. n, T)
  BY FS_NatSurjection
<1>2. PICK f \in Surjection(1 .. n, T) : TRUE
  BY <1>1 DEF ExistsSurjection
<1>3. f \in [1 .. n -> T] /\ \A a \in T : \E i \in 1 .. n : f[i] = a
  BY <1>2 DEF Surjection
<1> DEFINE Top(m) == \E k \in 1 .. n : \A i \in 1 .. m : i \in 1 .. n => Rank(w, f[k]) >= Rank(w, f[i])
           P == {m \in Nat : Top(m)}
<1>4. n # 0
  BY <1>3
<1>5. 0 \in P
  BY <1>4
<1>6. ASSUME NEW m \in Nat, m \in P PROVE m + 1 \in P
  <2>1. PICK k \in 1 .. n : \A i \in 1 .. m : i \in 1 .. n => Rank(w, f[k]) >= Rank(w, f[i])
    BY <1>6
  <2>2. \A i \in 1 .. n : Rank(w, f[i]) \in Nat
    BY <1>3
  <2>3. \A i \in 1 .. m + 1 : i \in 1 .. m \/ i = m + 1
    OBVIOUS
  <2>4. CASE m + 1 \notin 1 .. n \/ Rank(w, f[k]) >= Rank(w, f[m + 1])
    <3>1. Top(m + 1)
      BY <2>1, <2>3, <2>4, Zenon
    <3> QED BY <3>1
  <2>5. CASE m + 1 \in 1 .. n /\ ~(Rank(w, f[k]) >= Rank(w, f[m + 1]))
    <3>1. ASSUME NEW i \in 1 .. m + 1, i \in 1 .. n PROVE Rank(w, f[m + 1]) >= Rank(w, f[i])
      <4>1. CASE i = m + 1
        <5>1. Rank(w, f[m + 1]) \in Nat
          BY <2>2, <2>5
        <5> QED BY <4>1, <5>1
      <4>2. CASE i \in 1 .. m
        <5>1. Rank(w, f[k]) >= Rank(w, f[i])
          BY <2>1, <3>1, <4>2
        <5>2. Rank(w, f[k]) \in Nat /\ Rank(w, f[i]) \in Nat /\ Rank(w, f[m + 1]) \in Nat
          BY <2>2, <2>5, <3>1
        <5> QED BY <2>5, <5>1, <5>2
      <4> QED BY <2>3, <4>1, <4>2
    <3>2. Top(m + 1)
      BY <2>5, <3>1
    <3> QED BY <3>2
  <2> QED BY <2>4, <2>5
<1>7. n \in P
  <2>1. P \subseteq Nat
    OBVIOUS
  <2> HIDE DEF P
  <2> QED BY <1>1, <1>5, <1>6, <2>1, Induction, Zenon
<1>8. PICK k \in 1 .. n : \A i \in 1 .. n : Rank(w, f[k]) >= Rank(w, f[i])
  BY <1>7
<1>9. f[k] \in T
  BY <1>3
<1>10. ASSUME NEW b \in T PROVE Rank(w, f[k]) >= Rank(w, b)
  <2>1. PICK i \in 1 .. n : f[i] = b
    BY <1>3
  <2> QED BY <1>8, <2>1
<1> QED BY <1>9, <1>10, Zenon

\* Evidence that is decided upon: known assignments on the query's chain whose classes have ranks.
Decidable(w, q, A) ==
    \A a \in A : a \in Assignments /\ Level(w, q, a) \in Nat /\ Rank(w, a) \in Nat

\* The assignments of the deciding level.
Winning(w, q, A) == {a \in A : Level(w, q, a) = DecidingLevel(w, q, A)}

\* Some assignment is at the deciding level.
LEMMA DecidingHasEvidence ==
    ASSUME NEW w, NEW q, NEW A, A # {}, Decidable(w, q, A)
    PROVE  Winning(w, q, A) # {}
<1> DEFINE levels == {Level(w, q, a) : a \in A}
           final  == {n \in levels : ~w.scopes[scope_chain(w, q.scope)[n]].def.allow_override}
<1>1. levels \subseteq Nat /\ levels # {}
  BY DEF Decidable
<1>2. final \subseteq Nat /\ final \subseteq levels
  BY <1>1
<1>3. DecidingLevel(w, q, A) = IF final # {} THEN Min(final) ELSE Min(levels)
  BY DEF DecidingLevel
<1>4. DecidingLevel(w, q, A) \in levels
  <2> HIDE DEF levels, final
  <2> QED BY <1>1, <1>2, <1>3, MinIn, Zenon
<1>5. PICK a \in A : Level(w, q, a) = DecidingLevel(w, q, A)
  BY <1>4
<1> QED BY <1>5 DEF Winning

\* A winner is one of the assignments of the deciding level, however the conflict is resolved.
LEMMA WinnerIsWinning ==
    ASSUME NEW w, NEW q, NEW level, NEW T, T # {}, T \subseteq Assignments,
           \A a \in T : Rank(w, a) \in Nat, Winner(w, q, level, T) # Absent
    PROVE  Winner(w, q, level, T) \in T
<1>1. T \subseteq Nat /\ IsFiniteSet(T)
  BY RegistryBounds, FS_Subset DEF Ids
<1>2. Min(T) \in T
  BY <1>1, MinIn, Zenon
<1> DEFINE top == {a \in T : \A b \in T : Rank(w, a) >= Rank(w, b)}
<1>3. Min(top) \in T
  <2>1. top # {}
    BY <1>1, HighestRank, Zenon
  <2>2. top \subseteq T /\ top \subseteq Nat
    BY <1>1, Zenon
  <2> HIDE DEF top
  <2> QED BY <2>1, <2>2, MinIn, Zenon
<1>4. Winner(w, q, level, T) \in {Min(T), Absent, Min(top)}
  <2>1. ASSUME NEW mode PROVE Resolve(w, q, mode, T) \in {Min(T), Absent, Min(top)}
    BY DEF Resolve
  <2> HIDE DEF top
  <2> QED BY <2>1 DEF Winner
<1> HIDE DEF top
<1> QED BY <1>2, <1>3, <1>4, Zenon

\* A decision that names a winner awards it: the winner is at the deciding level, and the fields of
\* the decision are those Award gives.
LEMMA WinnerAwarded ==
    ASSUME NEW w, NEW q, NEW e, Decidable(w, q, e.accepted), Decide(w, q, e).winner # Absent
    PROVE  LET D == Decide(w, q, e)
               T == Winning(w, q, e.accepted)
           IN  /\ D.winner \in T
               /\ D.authoritative = TRUE
               /\ D.cls = w.assignments[D.winner].def.cls
               /\ Conflicting(w, T) => D.outcome = "Conflict" /\ D.conflicts = T
<1> DEFINE level == DecidingLevel(w, q, e.accepted)
           T == Winning(w, q, e.accepted)
           D == Decide(w, q, e)
           x == Winner(w, q, level, T)
<1>1. e.accepted # {}
  <2>1. ASSUME e.accepted = {} PROVE D = Fallback(w, q, e.rejected, UnknownDefault(w, q))
    BY <2>1 DEF Decide
  <2>2. ASSUME NEW rejected, NEW default PROVE Fallback(w, q, rejected, default).winner = Absent
    BY DEF Fallback, Undecided
  <2> HIDE DEF D
  <2> QED BY <2>1, <2>2 DEF D
<1>2. D = Award(w, e, T, x)
  BY <1>1 DEF Decide, AwardAt, Winning
<1>3. LET A == Award(w, e, T, x)
      IN  /\ A.winner = x
          /\ A.authoritative = (x # Absent)
          /\ x # Absent => A.cls = w.assignments[x].def.cls
          /\ Conflicting(w, T) => A.outcome = "Conflict" /\ A.conflicts = T
  <2> HIDE DEF x, T
  <2> QED BY DEF Award
<1>4. D.winner = x /\ x # Absent
  <2>1. D.winner = x
    <3> HIDE DEF x, T, D
    <3> QED BY <1>2, <1>3
  <2> QED BY <2>1
<1>5. T # {} /\ T \subseteq Assignments /\ \A a \in T : Rank(w, a) \in Nat
  <2>1. T # {}
    BY <1>1, DecidingHasEvidence
  <2> QED BY <2>1 DEF Winning, Decidable
<1>6. x \in T
  <2> HIDE DEF T
  <2> QED BY <1>4, <1>5, WinnerIsWinning
<1>7. /\ D.authoritative = TRUE /\ D.cls = w.assignments[D.winner].def.cls
      /\ Conflicting(w, T) => D.outcome = "Conflict" /\ D.conflicts = T
  <2> HIDE DEF x, T, D, level
  <2> QED BY <1>2, <1>3, <1>4, Zenon
<1> QED BY <1>4, <1>6, <1>7

\* A level on the chain is a number.
LEMMA LevelNumber ==
    ASSUME NEW w, NEW q, NEW a, Level(w, q, a) >= 0
    PROVE  Level(w, q, a) \in Nat
<1> DEFINE chain == scope_chain(w, q.scope)
           at == {n \in DOMAIN chain : chain[n] = w.assignments[a].def.scope}
<1>1. Level(w, q, a) = IF at = {} THEN -1 ELSE Min(at)
  BY DEF Level, LevelOn
<1>2. at \subseteq Nat
  BY RegistryBounds DEF scope_chain
<1> HIDE DEF at
<1>3. at # {} => Min(at) \in Nat
  BY <1>2, MinIn, Zenon
<1>4. at # {}
  BY <1>1
<1> QED BY <1>1, <1>3, <1>4

\* What the scan of a bucket accepts: identifiers it reached, on the query's chain, of the kind that
\* applies at the distance, and not refused.
LEMMA AcceptedEvidence ==
    ASSUME NEW w, NEW q, NEW s, NEW distance, NEW a
    PROVE  a \in Accepted(Verdicts(w, q, s, distance)) <=>
               a \in Offered(w, q, s, distance) /\ Refusal(w, a) = "Ok"
<1> DEFINE V == Verdicts(w, q, s, distance)
<1>1. ASSUME a \in Accepted(V) PROVE a \in Offered(w, q, s, distance) /\ Refusal(w, a) = "Ok"
  <2>1. PICK v \in V : v.code = "Ok" /\ v.id = a
    <3> HIDE DEF V
    <3> QED BY <1>1 DEF Accepted
  <2>2. CASE \E b \in Offered(w, q, s, distance) : v = [id |-> b, code |-> Refusal(w, b)]
    BY <2>1, <2>2
  <2>3. CASE \E b \in OverBudget(w, s) : v = [id |-> b, code |-> "evidence_scan_budget_exhausted"]
    BY <2>1, <2>3
  <2> QED BY <2>1, <2>2, <2>3 DEF Verdicts
<1>2. ASSUME a \in Offered(w, q, s, distance), Refusal(w, a) = "Ok" PROVE a \in Accepted(V)
  <2> DEFINE v == [id |-> a, code |-> Refusal(w, a)]
  <2>1. v \in V
    BY <1>2 DEF Verdicts
  <2>2. v.code = "Ok" /\ v.id = a
    BY <1>2
  <2> HIDE DEF v, V
  <2> QED BY <2>1, <2>2 DEF Accepted
<1> QED BY <1>1, <1>2

\* Usable evidence is defined, and its class has a rank.
LEMMA UsableRank ==
    ASSUME RegistryInv, NEW a \in Assignments, Refusal(Now, a) = "Ok"
    PROVE  a \in Defined(image.assignments) /\ Rank(Now, a) \in Nat
<1>1. Now.assignments = image.assignments /\ Now.classes = image.classes
  BY DEF Now, World
<1> DEFINE d == image.assignments[a].def
<1>2. image.assignments[a].active /\ image.classes[d.cls].gen = d.class_generation
  <2> HIDE DEF Now
  <2>1. Now.assignments[a].active /\ Now.classes[Now.assignments[a].def.cls].gen = Now.assignments[a].def.class_generation
    BY RefusalOk DEF Bound
  <2> QED BY <1>1, <2>1
<1>3. a \in Defined(image.assignments)
  BY <1>2 DEF RegistryInv, Shape, Defined
<1>4. d.class_generation \in 1 .. image.classes[d.cls].gen /\ d.cls \in Classes
  BY <1>3, Zenon DEF RegistryInv, AllResolve, AssignmentsResolve, Known, NamesKnown
<1>5. image.classes[d.cls].gen \in Nat /\ d.cls \in DOMAIN image.classes
  BY <1>4 DEF RegistryInv, Shape, Tables
<1>6. image.classes[d.cls].gen # 0
  <2> HIDE DEF d
  <2> QED BY <1>4, <1>5
<1>7. image.classes[d.cls].def \in ClassDefs
  BY <1>5, <1>6 DEF RegistryInv, Known, FromSubmitted
<1>8. image.classes[d.cls].def.rank \in Nat
  BY <1>7, RegistryBounds
<1>9. Rank(Now, a) = image.classes[d.cls].def.rank
  <2> HIDE DEF Now
  <2> QED BY <1>1 DEF Rank
<1> QED BY <1>3, <1>8, <1>9, Zenon

\* What is left of the evidence of a source once exceptions and overrides are filtered.
Left(w, q, r) ==
    LET V == Accepted(Verdicts(w, q, r[2], r[1])) IN {a \in V : Misfit(w, q, V, a) = "Ok"}

\* What is left can be decided upon.
LEMMA LeftDecidable ==
    ASSUME RegistryInv, NEW q, NEW r
    PROVE  Decidable(Now, q, Left(Now, q, r))
<1> SUFFICES ASSUME NEW a \in Left(Now, q, r)
             PROVE  a \in Assignments /\ Level(Now, q, a) \in Nat /\ Rank(Now, a) \in Nat
  BY DEF Decidable
<1>1. a \in Accepted(Verdicts(Now, q, r[2], r[1]))
  BY DEF Left
<1>2. a \in Offered(Now, q, r[2], r[1]) /\ Refusal(Now, a) = "Ok"
  BY <1>1, AcceptedEvidence
<1>3. a \in Assignments /\ Level(Now, q, a) >= 0
  BY <1>2 DEF Offered, Scanned
<1> QED BY <1>2, <1>3, LevelNumber, UsableRank, Zenon

\* A decision with a winner is awarded on what is left of the evidence of one source.
LEMMA DecisionSource ==
    ASSUME RegistryInv, NEW q \in Queries, Decision(q).winner # Absent
    PROVE  /\ q.subject \in Defined(Now.subjects)
           /\ \E r \in Sources(Now, q) :
                  LET D == Decision(q)
                      T == Winning(Now, q, Left(Now, q, r))
                  IN  /\ D.winner \in T
                      /\ D.authoritative = TRUE
                      /\ D.cls = Now.assignments[D.winner].def.cls
                      /\ Conflicting(Now, T) => D.outcome = "Conflict" /\ D.conflicts = T
<1> DEFINE c == Collect(Now, q)
           e == Filtered(Now, q, c)
<1>1. Considered(Decision(q))
  BY DEF Considered
<1>2. Now.subjects[q.subject].gen # 0 /\ Decision(q) = Decide(Now, q, e)
  BY <1>1, DecisionReached DEF Decision, Admitted
<1>3. q.subject \in Defined(Now.subjects)
  <2>1. q.subject \in Subjects
    BY QueryBounds
  <2>2. DOMAIN Now.subjects = Subjects /\ Now.subjects[q.subject].gen \in Nat
    BY <2>1, SoundNow DEF Sound
  <2> HIDE DEF Now
  <2> QED BY <1>2, <2>1, <2>2 DEF Defined
<1>4. PICK r \in Sources(Now, q) : CollectedFrom(Now, q, c, r)
  BY <1>3, SoundNow, CollectSource
<1>5. {"accepted", "rejected"} \subseteq DOMAIN c
  BY CollectDomain
<1>6. e.accepted = Left(Now, q, r)
  <2>1. c.accepted = Accepted(Verdicts(Now, q, r[2], r[1]))
    BY <1>4 DEF CollectedFrom
  <2>2. e.accepted = {a \in c.accepted : Misfit(Now, q, c.accepted, a) = "Ok"}
    <3> HIDE DEF c
    <3> QED BY <1>5, FilterFields
  <2> HIDE DEF c, e
  <2> QED BY <2>1, <2>2 DEF Left
<1>7. Decidable(Now, q, e.accepted)
  <2> HIDE DEF e
  <2> QED BY <1>6, LeftDecidable
<1> HIDE DEF e
<1>8. LET D == Decide(Now, q, e)
          T == Winning(Now, q, e.accepted)
      IN  /\ D.winner \in T
          /\ D.authoritative = TRUE
          /\ D.cls = Now.assignments[D.winner].def.cls
          /\ Conflicting(Now, T) => D.outcome = "Conflict" /\ D.conflicts = T
  BY <1>2, <1>7, WinnerAwarded, Zenon
<1> HIDE DEF Now
<1> QED BY <1>2, <1>3, <1>6, <1>8, Zenon

-----------------------------------------------------------------------------
(* Decisions rest on live evidence.                                        *)

\* The winner of decision D holds authority now and is bound to what is defined now.
LiveWinner(D) ==
    LET entry == image.assignments[D.winner]
        d     == entry.def
    IN  /\ D.authoritative /\ D.cls = d.cls
        /\ entry.active
        /\ entry.by.incarnation \in granted
        /\ entry.by.epoch = epoch
        /\ d.subject_generation = image.subjects[d.subject].gen
        /\ d.scope_generation = image.scopes[d.scope].gen
        /\ d.class_generation = image.classes[d.cls].gen
        /\ d.policy # Absent => d.policy_generation = image.policies[d.policy].gen

\* An identifier names one subject, whenever it is published.
SubjectsFixed == \A d, e \in AssignmentDefs : d.id = e.id => d.subject = e.subject

\* The fields of the present world.
LEMMA NowFields ==
    /\ Now.classes = image.classes /\ Now.scopes = image.scopes /\ Now.policies = image.policies
    /\ Now.subjects = image.subjects /\ Now.assignments = image.assignments
    /\ Now.assignments_by_subject = image.assignments_by_subject
    /\ Now.epoch = epoch /\ Now.granted = granted
BY DEF Now, World

\* Evidence that was left for a decision was reached in the bucket of its source, and not refused.
LEMMA LeftEvidence ==
    ASSUME NEW w, NEW q, NEW r, NEW a \in Left(w, q, r)
    PROVE  /\ a \in Assignments /\ w.assignments_by_subject[r[2]][a] > 0
           /\ Level(w, q, a) >= 0 /\ Refusal(w, a) = "Ok"
           /\ r[1] > 0 => w.assignments[a].def.kind = "Inherited"
<1>1. a \in Accepted(Verdicts(w, q, r[2], r[1]))
  BY DEF Left
<1>2. a \in Offered(w, q, r[2], r[1]) /\ Refusal(w, a) = "Ok"
  BY <1>1, AcceptedEvidence
<1> QED BY <1>2 DEF Offered, Scanned

\* An assignment that is not refused is live.
LEMMA UsableIsLive ==
    ASSUME NEW D, Refusal(Now, D.winner) = "Ok", D.authoritative = TRUE,
           D.cls = Now.assignments[D.winner].def.cls
    PROVE  LiveWinner(D)
<1> DEFINE entry == Now.assignments[D.winner]
           d == entry.def
<1>1. /\ entry.active /\ entry.by.incarnation \in Now.granted /\ entry.by.epoch = Now.epoch
      /\ Now.subjects[d.subject].gen = d.subject_generation
      /\ Now.scopes[d.scope].gen = d.scope_generation
      /\ Now.classes[d.cls].gen = d.class_generation
      /\ d.policy # Absent => Now.policies[d.policy].gen = d.policy_generation
  <2> HIDE DEF Now
  <2>1. entry.active /\ entry.by.incarnation \in Now.granted /\ entry.by.epoch = Now.epoch /\ Bound(Now, D.winner)
    BY RefusalOk
  <2> QED BY <2>1, Zenon DEF Bound
<1> HIDE DEF Now
<1> QED BY <1>1, NowFields DEF LiveWinner

\* A winner is live, in a sound registry.
LEMMA WinnerLives ==
    ASSUME RegistryInv, NEW q \in Queries, Decision(q).winner # Absent
    PROVE  LiveWinner(Decision(q))
<1> DEFINE D == Decision(q)
<1>1. PICK r \in Sources(Now, q) :
          /\ D.winner \in Winning(Now, q, Left(Now, q, r))
          /\ D.authoritative = TRUE
          /\ D.cls = Now.assignments[D.winner].def.cls
  BY DecisionSource, Zenon
<1>2. D.winner \in Left(Now, q, r)
  BY <1>1 DEF Winning
<1>3. Refusal(Now, D.winner) = "Ok"
  <2> HIDE DEF D, Now
  <2> QED BY <1>2, LeftEvidence
<1>4. LiveWinner(D)
  <2> HIDE DEF D
  <2> QED BY <1>1, <1>3, UsableIsLive, Zenon
<1> QED BY <1>4

\* When identifiers name one subject, a bucket holds the assignments of its subject.
LEMMA BucketOfSubject ==
    ASSUME SubjectsFixed, HonestIndex, NEW s \in Subjects, NEW a \in Assignments,
           image.assignments_by_subject[s][a] > 0
    PROVE  a \in Defined(image.assignments) /\ image.assignments[a].def.subject = s
<1>1. Submitted(a, s) /\ a \in Defined(image.assignments)
  BY DEF HonestIndex
<1>2. Submitted(a, image.assignments[a].def.subject)
  BY <1>1 DEF HonestIndex
<1> QED BY <1>1, <1>2 DEF Submitted, SubjectsFixed

\* A source is the subject or one of its ancestors, and a subject that is known.
LEMMA SourceSubject ==
    ASSUME RegistryInv, NEW q \in Queries, q.subject \in Defined(Now.subjects), NEW r \in Sources(Now, q)
    PROVE  /\ r[2] \in Subjects
           /\ \/ r[1] = 0 /\ r[2] = q.subject
              \/ r[1] > 0 /\ r[2] # q.subject /\ r[2] \in Reachable(Now.subjects, {q.subject})
<1>1. CASE r = <<0, q.subject>>
  BY <1>1, QueryBounds
<1>2. CASE r \in Ancestors(Now, q.subject)
  <2>1. PICK n \in 1 .. MaxInheritance : \E x \in Ring(Now, q.subject, n) : r = <<n, x>>
    BY <1>2 DEF Ancestors
  <2>2. PICK x \in Ring(Now, q.subject, n) : r = <<n, x>>
    BY <2>1
  <2>3. x \in Reachable(Now.subjects, {q.subject}) /\ x # q.subject /\ x \in Subjects
    BY SoundNow, AncestorsSound, Zenon
  <2>4. r[1] = n /\ r[2] = x /\ n > 0
    BY <2>2, RegistryBounds
  <2> QED BY <2>3, <2>4
<1> QED BY <1>1, <1>2 DEF Sources

\* When identifiers name one subject, what is left for a decision was made for the query.
LEMMA LeftIsMadeFor ==
    ASSUME RegistryInv, HonestIndex, SubjectsFixed, NEW q \in Queries, q.subject \in Defined(Now.subjects),
           NEW r \in Sources(Now, q), NEW a \in Left(Now, q, r)
    PROVE  a \in MadeFor(Now, q) /\ image.assignments[a].def.subject = r[2]
<1> HIDE DEF Now
<1>1. /\ a \in Assignments /\ Now.assignments_by_subject[r[2]][a] > 0 /\ Level(Now, q, a) >= 0
      /\ r[1] > 0 => Now.assignments[a].def.kind = "Inherited"
  BY LeftEvidence
<1>2. /\ r[2] \in Subjects
      /\ \/ r[1] = 0 /\ r[2] = q.subject
         \/ r[1] > 0 /\ r[2] # q.subject /\ r[2] \in Reachable(Now.subjects, {q.subject})
  BY SourceSubject
<1>3. a \in Defined(image.assignments) /\ image.assignments[a].def.subject = r[2]
  <2>1. image.assignments_by_subject[r[2]][a] > 0
    BY <1>1, NowFields
  <2> QED BY <1>1, <1>2, <2>1, BucketOfSubject, Zenon
<1>4. a \in Defined(Now.assignments) /\ Now.assignments[a].def.subject = r[2]
  BY <1>3, NowFields
<1> QED BY <1>1, <1>2, <1>3, <1>4, Zenon DEF MadeFor

\* When identifiers keep their subject, a winner was made for its query and is live.
LEMMA LiveDecisions ==
    ASSUME SubjectsFixed
    PROVE  RegistryInv /\ HonestIndex => DecisionsRestOnLiveEvidence
<1>1. ASSUME RegistryInv, HonestIndex PROVE DecisionsRestOnLiveEvidence
  <2>1. ASSUME NEW q \in Queries, Decision(q).winner # Absent PROVE Decision(q).winner \in MadeFor(Now, q)
    <3>1. q.subject \in Defined(Now.subjects) /\ \E r \in Sources(Now, q) : Decision(q).winner \in Left(Now, q, r)
      BY <1>1, <2>1, DecisionSource, Zenon DEF Winning
    <3> QED BY <1>1, <3>1, LeftIsMadeFor, Zenon
  <2>2. ASSUME NEW q \in Queries, Decision(q).winner # Absent PROVE LiveWinner(Decision(q))
    BY <1>1, <2>2, WinnerLives, Zenon
  <2> HIDE DEF Now
  <2> QED BY <2>1, <2>2, ZenonT(30) DEF DecisionsRestOnLiveEvidence, LiveWinner
<1> QED BY <1>1

-----------------------------------------------------------------------------
(* Contradictions are reported.                                            *)

\* Every scan of a bucket ends before its budget does.
WithinBudget == \A s \in Subjects : OverBudget(Now, s) = {}

\* The usable assignments that rival x: of its subject and on its level, displacing nothing.
Rivals(q, x) ==
    {a \in MadeFor(Now, q) :
        /\ Refusal(Now, a) = "Ok"
        /\ image.assignments[a].def.subject = image.assignments[x].def.subject
        /\ image.assignments[a].def.displaces = Absent
        /\ image.assignments[a].def.kind # "Exception"
        /\ Level(Now, q, a) = Level(Now, q, x)}

\* Two classes among the assignments of a level are a contradiction.
LEMMA TwoClassesConflict ==
    ASSUME NEW w, NEW T, IsFiniteSet(T), NEW a \in T, NEW b \in T,
           w.assignments[a].def.cls # w.assignments[b].def.cls
    PROVE  Conflicting(w, T)
<1> DEFINE S == {w.assignments[c].def.cls : c \in T}
           x == w.assignments[a].def.cls
           y == w.assignments[b].def.cls
<1>1. IsFiniteSet(S)
  <2> DEFINE f == [c \in T |-> w.assignments[c].def.cls]
  <2>1. f \in [T -> S] /\ \A z \in S : \E c \in T : f[c] = z
    OBVIOUS
  <2> HIDE DEF S, f
  <2>2. f \in Surjection(T, S)
    BY <2>1 DEF Surjection
  <2> QED BY <2>2, FS_Surjection
<1>2. {x, y} \subseteq S
  OBVIOUS
<1> HIDE DEF S
<1>3. Cardinality({x, y}) = 2
  <2>1. IsFiniteSet({x}) /\ Cardinality({x}) = 1
    BY FS_Singleton, Zenon
  <2>2. y \notin {x} /\ {x} \cup {y} = {x, y}
    <3> HIDE DEF x, y
    <3> QED BY DEF x, y
  <2> HIDE DEF x, y
  <2>3. Cardinality({x} \cup {y}) = Cardinality({x}) + 1
    BY <2>1, <2>2, FS_AddElement, Zenon
  <2> QED BY <2>1, <2>2, <2>3
<1>4. Cardinality({x, y}) <= Cardinality(S) /\ Cardinality(S) \in Nat
  BY <1>1, <1>2, FS_Subset, FS_CardinalityType, Zenon
<1>5. Cardinality(S) > 1
  <2> HIDE DEF x, y
  <2> QED BY <1>3, <1>4
<1> QED BY <1>5 DEF Conflicting, S

\* When no budget ends a scan, every rival of a winner is among the winning assignments: the scan
\* reaches it in the same bucket, and no filter drops it.
LEMMA RivalsWin ==
    ASSUME RegistryInv, HonestIndex, SubjectsFixed, WithinBudget,
           NEW q \in Queries, q.subject \in Defined(Now.subjects), NEW r \in Sources(Now, q),
           NEW x \in Winning(Now, q, Left(Now, q, r)), NEW a \in Rivals(q, x)
    PROVE  a \in Winning(Now, q, Left(Now, q, r))
<1> HIDE DEF Now
<1> DEFINE d == image.assignments[a].def
           L == Left(Now, q, r)
           V == Accepted(Verdicts(Now, q, r[2], r[1]))
<1>1. /\ a \in MadeFor(Now, q) /\ Refusal(Now, a) = "Ok" /\ d.subject = image.assignments[x].def.subject
      /\ d.displaces = Absent /\ d.kind # "Exception" /\ Level(Now, q, a) = Level(Now, q, x)
  BY DEF Rivals
<1>2. x \in L /\ Level(Now, q, x) = DecidingLevel(Now, q, L)
  BY DEF Winning
<1>3. d.subject = r[2]
  BY <1>1, <1>2, LeftIsMadeFor, Zenon
<1>4. Now.assignments[a].def = d
  BY NowFields
<1>5. /\ a \in Defined(Now.assignments) /\ Level(Now, q, a) >= 0
      /\ Now.assignments[a].def.subject = q.subject \/ Now.assignments[a].def.kind = "Inherited"
  BY <1>1 DEF MadeFor
<1>6. /\ r[2] \in Subjects
      /\ \/ r[1] = 0 /\ r[2] = q.subject
         \/ r[1] > 0 /\ r[2] # q.subject /\ r[2] \in Reachable(Now.subjects, {q.subject})
  BY SourceSubject
<1>7. r[1] > 0 => Now.assignments[a].def.kind = "Inherited"
  <2>1. ASSUME r[1] > 0 PROVE r[2] # q.subject
    <3>1. ~(0 > 0)
      OBVIOUS
    <3> QED BY <1>6, <2>1, <3>1, Zenon
  <2>2. Now.assignments[a].def.subject = r[2]
    BY <1>3, <1>4
  <2> QED BY <1>5, <2>1, <2>2, Zenon
<1>8. a \in Scanned(Now, r[2])
  <2>1. a \in Defined(image.assignments)
    BY <1>5, NowFields
  <2>2. a \in Assignments
    BY <2>1 DEF RegistryInv, Shape, Defined
  <2>3. image.assignments_by_subject[d.subject][a] > 0
    BY <2>1 DEF RegistryInv, IndexComplete
  <2>4. Now.assignments_by_subject[r[2]][a] > 0
    BY <1>3, <2>3, NowFields
  <2>5. Bucket(Now, r[2])
    <3>1. image.assignments_by_subject \in [Subjects -> [Assignments -> Nat]]
      BY DEF RegistryInv, Shape
    <3> QED BY <1>6, <3>1, NowFields DEF Bucket
  <2> QED BY <1>6, <2>2, <2>4, <2>5, ScanReaches, Zenon DEF WithinBudget
<1>9. a \in V
  <2>1. a \in Offered(Now, q, r[2], r[1])
    BY <1>5, <1>7, <1>8, Zenon DEF Offered
  <2> QED BY <1>1, <2>1, AcceptedEvidence, Zenon
<1>10. Misfit(Now, q, V, a) = "Ok"
  <2>1. Now.assignments[a].def.displaces = Absent /\ Now.assignments[a].def.kind # "Exception"
    BY <1>1, <1>4
  <2> HIDE DEF V
  <2> QED BY <2>1 DEF Misfit
<1>11. a \in L
  BY <1>9, <1>10 DEF Left
<1> HIDE DEF L
<1>12. a \in Winning(Now, q, L)
  BY <1>1, <1>2, <1>11, Zenon DEF Winning
<1> QED BY <1>12 DEF L

\* Usable rivals of a winner make the outcome a CONFLICT that names them.
LEMMA RivalsNamed ==
    ASSUME SubjectsFixed
    PROVE  RegistryInv /\ HonestIndex /\ WithinBudget => ConflictsReported
<1>1. ASSUME RegistryInv, HonestIndex, WithinBudget PROVE ConflictsReported
  <2>1. ASSUME NEW q \in Queries, Decision(q).winner # Absent,
               NEW a \in Rivals(q, Decision(q).winner),
               image.assignments[a].def.cls # Decision(q).cls
        PROVE  Decision(q).outcome = "Conflict" /\ Rivals(q, Decision(q).winner) \subseteq Decision(q).conflicts
    <3> DEFINE D == Decision(q)
    <3>1. q.subject \in Defined(Now.subjects)
      BY <1>1, <2>1, DecisionSource, Zenon
    <3>2. PICK r \in Sources(Now, q) :
              LET T == Winning(Now, q, Left(Now, q, r))
              IN  /\ D.winner \in T
                  /\ D.cls = Now.assignments[D.winner].def.cls
                  /\ Conflicting(Now, T) => D.outcome = "Conflict" /\ D.conflicts = T
      BY <1>1, <2>1, DecisionSource, Zenon
    <3> DEFINE T == Winning(Now, q, Left(Now, q, r))
    <3>3. Rivals(q, D.winner) \subseteq T
      <4> HIDE DEF D
      <4> QED BY <1>1, <3>1, <3>2, RivalsWin, Zenon
    <3>4. IsFiniteSet(T)
      <4>1. T \subseteq Assignments
        BY LeftEvidence DEF Winning
      <4> QED BY <4>1, RegistryBounds, FS_Subset DEF Ids
    <3>5. Now.assignments[a].def.cls # Now.assignments[D.winner].def.cls
      <4> HIDE DEF Now
      <4>1. Now.assignments[a].def.cls = image.assignments[a].def.cls
        BY NowFields
      <4> QED BY <2>1, <3>2, <4>1, Zenon
    <3>6. Conflicting(Now, T)
      <4> HIDE DEF T, D, Now
      <4> QED BY <2>1, <3>2, <3>3, <3>4, <3>5, TwoClassesConflict, Zenon DEF T, D
    <3> HIDE DEF Now
    <3> QED BY <3>2, <3>3, <3>6, Zenon
  <2> HIDE DEF Now
  <2> QED BY <2>1 DEF ConflictsReported, Rivals
<1> QED BY <1>1

-----------------------------------------------------------------------------
(* What a decision does not depend on.                                     *)

\* Two worlds with the same definitions, and two that differ at most in the index.
SameDefinitions(v, w) ==
    w.classes = v.classes /\ w.scopes = v.scopes /\ w.policies = v.policies /\ w.subjects = v.subjects

SameButIndex(v, w) ==
    SameDefinitions(v, w) /\ w.assignments = v.assignments /\ w.epoch = v.epoch /\ w.granted = v.granted

\* The same definitions give the same chains and ancestors, and the same policies apply.
LEMMA SameChains ==
    ASSUME NEW v, NEW w, SameDefinitions(v, w)
    PROVE  /\ \A s : ChainUsable(w, s) <=> ChainUsable(v, s)
           /\ \A s : scope_chain(w, s) = scope_chain(v, s)
           /\ \A s, n : Ring(w, s, n) = Ring(v, s, n)
<1>1. \A s, n : Above(w, s, n) = Above(v, s, n)
  BY DEF SameDefinitions, Above
<1>2. \A s : ChainUsable(w, s) <=> ChainUsable(v, s)
  BY <1>1 DEF SameDefinitions, ChainUsable
<1>3. \A s : scope_chain(w, s) = scope_chain(v, s)
  BY <1>1 DEF SameDefinitions, scope_chain
<1>4. \A s, n : Ring(w, s, n) = Ring(v, s, n)
  BY DEF SameDefinitions, Ring
<1> QED BY <1>2, <1>3, <1>4, Zenon

\* The same classes are visible.
LEMMA SameVisibility ==
    ASSUME NEW v, NEW w, SameDefinitions(v, w), NEW s
    PROVE  /\ \A among : PoliciesAt(w, s, among) = PoliciesAt(v, s, among)
           /\ \A among : NearestPolicy(w, s, among) = NearestPolicy(v, s, among)
           /\ \A c : Visible(w, c, s) <=> Visible(v, c, s)
<1>1. \A x, among : PoliciesAt(w, x, among) = PoliciesAt(v, x, among)
  BY DEF SameDefinitions, PoliciesAt
<1>2. \A chain, among : NearestOn(w, chain, among) = NearestOn(v, chain, among)
  BY <1>1, Zenon DEF NearestOn
<1>3. \A among : NearestPolicy(w, s, among) = NearestPolicy(v, s, among)
   <2>1. scope_chain(w, s) = scope_chain(v, s) /\ (ChainUsable(w, s) <=> ChainUsable(v, s))
     BY SameChains
   <2> QED BY <1>2, <2>1 DEF NearestPolicy
<1>4. Restrictive(w) = Restrictive(v)
  BY DEF SameDefinitions, Restrictive
<1>5. \A a, b : class_implies(w, a, b) <=> class_implies(v, a, b)
  BY DEF SameDefinitions, class_implies
<1>6. \A p, c : Admits(w, p, c) <=> Admits(v, p, c)
  BY <1>5 DEF SameDefinitions, Admits
<1>7. \A c : Visible(w, c, s) <=> Visible(v, c, s)
  BY <1>3, <1>4, <1>6, Zenon DEF Visible
<1> QED BY <1>1, <1>3, <1>7, Zenon

\* The policies and scopes declare the same defaults and ways to resolve a conflict.
LEMMA SameAnswers ==
    ASSUME NEW v, NEW w, SameDefinitions(v, w)
    PROVE  /\ \A s : DeclaredAt(w, s) = DeclaredAt(v, s)
           /\ \A s : ConflictMode(w, s) = ConflictMode(v, s)
<1>1. Defined(w.policies) = Defined(v.policies)
  BY DEF SameDefinitions
<1>2. \A s, among : PoliciesAt(w, s, among) = PoliciesAt(v, s, among)
  BY SameVisibility
<1>3. \A s : DeclaredAt(w, s) = DeclaredAt(v, s)
  <2> SUFFICES ASSUME NEW s PROVE DeclaredAt(w, s) = DeclaredAt(v, s)
    OBVIOUS
  <2> DEFINE D(u) == {p \in PoliciesAt(u, s, Defined(u.policies)) : u.policies[p].def.unknown_default # Absent}
  <2>1. PoliciesAt(w, s, Defined(w.policies)) = PoliciesAt(v, s, Defined(v.policies))
    BY <1>1, <1>2
  <2>2. D(w) = D(v)
    BY <2>1 DEF SameDefinitions
  <2>3. \A u : DeclaredAt(u, s) = IF D(u) # {} THEN u.policies[Min(D(u))].def.unknown_default
                           ELSE u.scopes[s].def.unknown_default
    BY DEF DeclaredAt
  <2> HIDE DEF D
  <2>4. DeclaredAt(w, s) = IF D(v) # {} THEN v.policies[Min(D(v))].def.unknown_default
                   ELSE v.scopes[s].def.unknown_default
    BY <2>2, <2>3 DEF SameDefinitions
  <2> QED BY <2>3, <2>4
<1>4. \A s : ConflictMode(w, s) = ConflictMode(v, s)
  <2> SUFFICES ASSUME NEW s PROVE ConflictMode(w, s) = ConflictMode(v, s)
    OBVIOUS
  <2> DEFINE D(u) == {p \in PoliciesAt(u, s, Defined(u.policies)) : u.policies[p].def.conflict_resolution # Absent}
  <2>1. PoliciesAt(w, s, Defined(w.policies)) = PoliciesAt(v, s, Defined(v.policies))
    BY <1>1, <1>2
  <2>2. D(w) = D(v)
    BY <2>1 DEF SameDefinitions
  <2>3. \A u : ConflictMode(u, s) = IF D(u) # {} THEN u.policies[Min(D(u))].def.conflict_resolution
                           ELSE u.scopes[s].def.conflict_resolution
    BY DEF ConflictMode
  <2> HIDE DEF D
  <2>4. ConflictMode(w, s) = IF D(v) # {} THEN v.policies[Min(D(v))].def.conflict_resolution
                   ELSE v.scopes[s].def.conflict_resolution
    BY <2>2, <2>3 DEF SameDefinitions
  <2> QED BY <2>3, <2>4
<1> QED BY <1>3, <1>4

\* Worlds that differ at most in the index agree on the levels of the evidence and on what filters it,
LEMMA SameLevels ==
    ASSUME NEW v, NEW w, SameButIndex(v, w), NEW q
    PROVE  /\ \A a : Level(w, q, a) = Level(v, q, a)
           /\ \A A, a : Misfit(w, q, A, a) = Misfit(v, q, A, a)
<1>0. scope_chain(w, q.scope) = scope_chain(v, q.scope)
  BY SameChains DEF SameButIndex
<1>1. \A a : Level(w, q, a) = Level(v, q, a)
  BY <1>0 DEF SameButIndex, Level
<1>2. \A A, a : Misfit(w, q, A, a) = Misfit(v, q, A, a)
  BY <1>1 DEF SameButIndex, Misfit
<1> QED BY <1>1, <1>2

\* ... what is refused,
LEMMA SameRefusals ==
    ASSUME NEW v, NEW w, SameButIndex(v, w), NEW a
    PROVE  Refusal(w, a) = Refusal(v, a)
<1> DEFINE d == v.assignments[a].def
<1>1. Visible(w, d.cls, d.scope) <=> Visible(v, d.cls, d.scope)
  BY SameVisibility DEF SameButIndex
<1> QED BY <1>1 DEF SameButIndex, SameDefinitions, Refusal

\* ... and what is decided on given evidence.
LEMMA SameVerdict ==
    ASSUME NEW v, NEW w, SameButIndex(v, w), NEW q, NEW e
    PROVE  Decide(w, q, e) = Decide(v, q, e)
<1>0. scope_chain(w, q.scope) = scope_chain(v, q.scope)
  BY SameChains DEF SameButIndex
<1>1. \A a : Level(w, q, a) = Level(v, q, a)
  BY SameLevels
<1>4. /\ \A s : DeclaredAt(w, s) = DeclaredAt(v, s)
      /\ \A s : ConflictMode(w, s) = ConflictMode(v, s)
  BY SameAnswers DEF SameButIndex
<1>5. UnknownDefault(w, q) = UnknownDefault(v, q)
  BY <1>0, <1>4 DEF UnknownDefault
<1>6. \A c : Visible(w, c, q.scope) <=> Visible(v, c, q.scope)
  BY SameVisibility DEF SameButIndex
<1>7. \A rejected, default : Fallback(w, q, rejected, default) = Fallback(v, q, rejected, default)
  BY <1>6 DEF Fallback
<1>9. \A A : DecidingLevel(w, q, A) = DecidingLevel(v, q, A)
  BY <1>0, <1>1, Zenon DEF SameButIndex, SameDefinitions, DecidingLevel
<1>10. \A a : Rank(w, a) = Rank(v, a)
  BY DEF SameButIndex, SameDefinitions, Rank
<1>11. \A mode, T : Resolve(w, q, mode, T) = Resolve(v, q, mode, T)
  BY <1>10 DEF Resolve
<1>12. \A T : Conflicting(w, T) <=> Conflicting(v, T)
  BY DEF SameButIndex, Conflicting
<1>13. \A level, T : Winner(w, q, level, T) = Winner(v, q, level, T)
  BY <1>0, <1>4, <1>11, <1>12, Zenon DEF Winner
<1>14. \A T, x : Award(w, e, T, x) = Award(v, e, T, x)
  BY <1>12 DEF SameButIndex, Award
<1>15. \A level : AwardAt(w, q, e, level) = AwardAt(v, q, e, level)
  BY <1>1, <1>13, <1>14 DEF AwardAt
<1> QED BY <1>5, <1>7, <1>9, <1>15, Zenon DEF Decide

\* A bucket with fewer entries leaves fewer before each place,
LEMMA FewerBefore ==
    ASSUME NEW v, NEW w, NEW s, Bucket(v, s), Bucket(w, s),
           \A a \in Assignments : v.assignments_by_subject[s][a] <= w.assignments_by_subject[s][a]
    PROVE  \A n \in Nat : Before(v, s, n) <= Before(w, s, n)
<1> DEFINE P == {n \in Nat : Before(v, s, n) <= Before(w, s, n)}
<1>1. /\ Before(v, s, 0) = 0
      /\ \A n \in Nat : /\ Before(v, s, n) \in Nat
                        /\ Before(v, s, n + 1) = Before(v, s, n) + Held(v, s, n)
  BY BeforeUnfolds
<1>2. /\ Before(w, s, 0) = 0
      /\ \A n \in Nat : /\ Before(w, s, n) \in Nat
                        /\ Before(w, s, n + 1) = Before(w, s, n) + Held(w, s, n)
  BY BeforeUnfolds
<1>3. 0 \in P
  BY <1>1, <1>2
<1>4. ASSUME NEW n \in Nat, n \in P PROVE n + 1 \in P
  <2>1. Held(v, s, n) \in Nat /\ Held(w, s, n) \in Nat /\ Held(v, s, n) <= Held(w, s, n)
    BY DEF Held, Bucket
  <2> QED BY <1>1, <1>2, <1>4, <2>1
<1>5. P \subseteq Nat
  OBVIOUS
<1>6. P = Nat
  <2> HIDE DEF P
  <2> QED BY <1>3, <1>4, <1>5, Induction, Zenon
<1> QED BY <1>6

\* ... so its scan ends within the budget if that of the fuller bucket does.
LEMMA FewerWithin ==
    ASSUME NEW v, NEW w, NEW s, Bucket(v, s), Bucket(w, s), OverBudget(w, s) = {},
           \A a \in Assignments : v.assignments_by_subject[s][a] <= w.assignments_by_subject[s][a]
    PROVE  OverBudget(v, s) = {}
<1> SUFFICES ASSUME NEW a \in OverBudget(v, s) PROVE FALSE
  OBVIOUS
<1>1. a \in Assignments /\ a \in Nat /\ a + 1 \in Nat /\ MaxQuerySteps \in Nat
  BY RegistryBounds, QueryBounds DEF Ids, OverBudget
<1>2. /\ Before(v, s, a) \in Nat /\ Before(v, s, a + 1) \in Nat
      /\ Before(v, s, a + 1) = Before(v, s, a) + Held(v, s, a)
  BY <1>1, BeforeUnfolds
<1>3. Before(v, s, a + 1) > MaxQuerySteps
  BY <1>1, <1>2 DEF OverBudget, UpTo, Held
<1>4. Before(w, s, a + 1) \in Nat /\ Before(v, s, a + 1) <= Before(w, s, a + 1)
  BY <1>1, BeforeUnfolds, FewerBefore, Zenon
<1>5. Before(w, s, a + 1) > MaxQuerySteps
  BY <1>1, <1>2, <1>3, <1>4
<1> QED BY <1>1, <1>5, BudgetEnds, Zenon

\* A scan within its budget reaches its bucket and nothing else.
LEMMA WholeBucket ==
    ASSUME NEW w, NEW s, Bucket(w, s), OverBudget(w, s) = {}
    PROVE  Scanned(w, s) = {a \in Assignments : w.assignments_by_subject[s][a] > 0}
<1>1. \A a \in Assignments : w.assignments_by_subject[s][a] > 0 => a \in Scanned(w, s)
  BY ScanReaches
<1> QED BY <1>1 DEF Scanned

\* The index matters to a decision only through what the scans reach.
LEMMA SameDecision ==
    ASSUME NEW v, NEW w, SameButIndex(v, w), Sound(v), NEW q, q.subject \in Subjects,
           \A s \in Subjects : Scanned(w, s) = Scanned(v, s) /\ OverBudget(w, s) = OverBudget(v, s)
    PROVE  evaluate_query(w, q) = evaluate_query(v, q)
<1>1. \A s \in Subjects : \A n : Verdicts(w, q, s, n) = Verdicts(v, q, s, n)
  <2> SUFFICES ASSUME NEW s \in Subjects, NEW n PROVE Verdicts(w, q, s, n) = Verdicts(v, q, s, n)
    OBVIOUS
  <2>1. \A a : Level(w, q, a) = Level(v, q, a)
    BY SameLevels
  <2>2. w.assignments = v.assignments
    BY DEF SameButIndex
  <2>3. Offered(w, q, s, n) = Offered(v, q, s, n)
    <3>1. Scanned(w, s) = Scanned(v, s)
      OBVIOUS
    <3> QED BY <2>1, <2>2, <3>1 DEF Offered
  <2>4. \A a : Refusal(w, a) = Refusal(v, a)
    BY SameRefusals
  <2> QED BY <2>3, <2>4 DEF Verdicts
<1>2. Verdicts(w, q, q.subject, 0) = Verdicts(v, q, q.subject, 0)
  BY <1>1
<1>3. Ancestors(w, q.subject) = Ancestors(v, q.subject)
  <2>1. \A n : Ring(w, q.subject, n) = Ring(v, q.subject, n)
    BY SameChains DEF SameButIndex
  <2> QED BY <2>1 DEF Ancestors
<1>4. AncestorsUsable(w, q.subject) <=> AncestorsUsable(v, q.subject)
  <2>1. \A n : Ring(w, q.subject, n) = Ring(v, q.subject, n)
    BY SameChains DEF SameButIndex
  <2> QED BY <1>3, <2>1 DEF AncestorsUsable
<1>5. ChainUsable(w, q.scope) <=> ChainUsable(v, q.scope)
  BY SameChains DEF SameButIndex
<1>6. PolicyGeneration(w, q.scope) = PolicyGeneration(v, q.scope)
  <2>1. effective_policy(w, q.scope) = effective_policy(v, q.scope)
    <3>1. Defined(w.policies) = Defined(v.policies)
      BY DEF SameButIndex, SameDefinitions
    <3>2. \A among : NearestPolicy(w, q.scope, among) = NearestPolicy(v, q.scope, among)
      BY SameVisibility DEF SameButIndex
    <3> QED BY <3>1, <3>2 DEF effective_policy
  <2> QED BY <2>1 DEF PolicyGeneration, SameButIndex, SameDefinitions
<1>7. CASE v.subjects[q.subject].gen # 0
  <2>1. q.subject \in Defined(v.subjects)
    BY <1>7 DEF Sound, Defined
  <2>2. \A r \in Ancestors(v, q.subject) : r[2] \in Subjects
    <3> SUFFICES ASSUME NEW n \in 1 .. MaxInheritance, NEW x \in Ring(v, q.subject, n), NEW r, r = <<n, x>>
                 PROVE  r[2] \in Subjects
      BY DEF Ancestors
    <3>1. x \in Subjects
      BY <2>1, AncestorsSound, Zenon
    <3> QED BY <3>1
  <2>3. Offering(w, q) = Offering(v, q)
    BY <1>1, <1>3, <2>2, Zenon DEF Offering
  <2>4. Collect(w, q) = Collect(v, q)
    <3>1. \A own, offering : CollectAfter(w, q, own, offering) =
              IF Accepted(own) # {} \/ offering = {} THEN Evidence(0, own, {})
              ELSE Evidence(ClosestOf(offering)[1], Verdicts(w, q, ClosestOf(offering)[2], ClosestOf(offering)[1]), Refused(own))
      BY DEF CollectAfter, InheritedFrom
    <3>2. \A own, offering : CollectAfter(v, q, own, offering) =
              IF Accepted(own) # {} \/ offering = {} THEN Evidence(0, own, {})
              ELSE Evidence(ClosestOf(offering)[1], Verdicts(v, q, ClosestOf(offering)[2], ClosestOf(offering)[1]), Refused(own))
      BY DEF CollectAfter, InheritedFrom
    <3> DEFINE off == Offering(v, q)
               r == ClosestOf(off)
    <3>3. ASSUME off # {} PROVE Verdicts(w, q, r[2], r[1]) = Verdicts(v, q, r[2], r[1])
      <4>1. off \subseteq Ancestors(v, q.subject)
        BY DEF Offering
      <4>2. off \subseteq Nat \X Nat
        BY <2>1, <4>1, AncestorsNumbered, Zenon
      <4>3. r \in off
        <5> HIDE DEF off
        <5> QED BY <3>3, <4>2, ClosestOffers, Zenon
      <4>4. r[2] \in Subjects
        <5> HIDE DEF off, r
        <5> QED BY <2>2, <4>1, <4>3, Zenon
      <4> HIDE DEF r
      <4> QED BY <1>1, <4>4
    <3> DEFINE own == Verdicts(v, q, q.subject, 0)
    <3>4. Collect(v, q) = CollectAfter(v, q, own, off)
      BY DEF Collect
    <3>5. Collect(w, q) = CollectAfter(w, q, own, off)
      BY <1>2, <2>3 DEF Collect
    <3> HIDE DEF off, own
    <3>6. CollectAfter(w, q, own, off) = CollectAfter(v, q, own, off)
      BY <3>1, <3>2, <3>3, ZenonT(30)
    <3> QED BY <3>4, <3>5, <3>6, Zenon
  <2>5. \A e : Filtered(w, q, e) = Filtered(v, q, e)
    <3>1. \A A, a : Misfit(w, q, A, a) = Misfit(v, q, A, a)
      BY SameLevels
    <3> QED BY <3>1 DEF Filtered
  <2>6. Decide(w, q, Filtered(w, q, Collect(w, q))) = Decide(v, q, Filtered(v, q, Collect(v, q)))
    <3>1. Filtered(w, q, Collect(w, q)) = Filtered(v, q, Collect(v, q))
      BY <2>4, <2>5
    <3>2. \A e : Decide(w, q, e) = Decide(v, q, e)
      BY SameVerdict
    <3> QED BY <3>1, <3>2
  <2> QED BY <1>2, <1>4, <1>5, <1>6, <2>6, Zenon DEF evaluate_query, SameButIndex, SameDefinitions
<1>8. CASE v.subjects[q.subject].gen = 0
  BY <1>2, <1>4, <1>5, <1>6, <1>8 DEF evaluate_query, SameButIndex, SameDefinitions
<1> QED BY <1>7, <1>8

\* Of two counts, one at most the other: both are positive or neither is.
LEMMA OftenIfOnce ==
    ASSUME NEW x \in Nat, NEW y \in Nat, x <= y, y > 0 => x > 0
    PROVE  x > 0 <=> y > 0
OBVIOUS

\* A rebuilt index holds what the running one holds, perhaps less often, and decides alike.
LEMMA RebuiltDecides ==
    ASSUME SubjectsFixed
    PROVE  RegistryInv /\ HonestIndex /\ WithinBudget => DecisionIgnoresHistory
<1>1. ASSUME RegistryInv, HonestIndex, WithinBudget PROVE DecisionIgnoresHistory
  <2> DEFINE rebuilt == rebuild_indexes(image.assignments)
             v == [Now EXCEPT !.assignments_by_subject = rebuilt]
  <2> SUFFICES ASSUME NEW q \in Queries PROVE evaluate_query(Now, q) = evaluate_query(v, q)
    BY DEF DecisionIgnoresHistory, Decision
  <2>1. SameButIndex(v, Now) /\ v.assignments_by_subject = rebuilt
    BY DEF Now, World, SameButIndex, SameDefinitions
  <2>2. ASSUME NEW s \in Subjects, NEW a \in Assignments
        PROVE  /\ rebuilt[s][a] \in Nat /\ image.assignments_by_subject[s][a] \in Nat
               /\ rebuilt[s][a] <= image.assignments_by_subject[s][a]
               /\ image.assignments_by_subject[s][a] > 0 => rebuilt[s][a] > 0
    <3>1. rebuilt[s][a] = IF image.assignments[a].gen > 0 /\ image.assignments[a].def.subject = s THEN 1 ELSE 0
      BY DEF rebuild_indexes
    <3>2. image.assignments_by_subject[s][a] \in Nat
      BY <1>1 DEF RegistryInv, Shape
    <3>3. ASSUME image.assignments_by_subject[s][a] > 0
          PROVE  image.assignments[a].gen > 0 /\ image.assignments[a].def.subject = s
      BY <1>1, <3>3, BucketOfSubject, Zenon DEF Defined
    <3>4. ASSUME image.assignments[a].gen > 0, image.assignments[a].def.subject = s
          PROVE  image.assignments_by_subject[s][a] > 0
      <4>1. a \in Defined(image.assignments)
        BY <1>1, <3>4 DEF RegistryInv, Shape, Defined
      <4> QED BY <1>1, <3>4, <4>1 DEF RegistryInv, IndexComplete
    <3> HIDE DEF rebuilt
    <3> QED BY <3>1, <3>2, <3>3, <3>4
  <2> HIDE DEF rebuilt, v
  <2>3. Now.assignments_by_subject = image.assignments_by_subject
    BY NowFields
  <2> HIDE DEF Now
  <2>4. ASSUME NEW s \in Subjects
        PROVE  Scanned(Now, s) = Scanned(v, s) /\ OverBudget(Now, s) = OverBudget(v, s)
    <3>1. Bucket(Now, s) /\ Bucket(v, s)
      BY <2>1, <2>2, <2>3, Zenon DEF Bucket
    <3>2. OverBudget(Now, s) = {}
      BY <1>1 DEF WithinBudget
    <3>3. OverBudget(v, s) = {}
      <4>1. \A a \in Assignments : v.assignments_by_subject[s][a] <= Now.assignments_by_subject[s][a]
        BY <2>1, <2>2, <2>3, Zenon
      <4> QED BY <3>1, <3>2, <4>1, FewerWithin, Zenon
    <3>4. \A a \in Assignments : v.assignments_by_subject[s][a] > 0 <=> Now.assignments_by_subject[s][a] > 0
      <4> SUFFICES ASSUME NEW a \in Assignments
                   PROVE  v.assignments_by_subject[s][a] > 0 <=> Now.assignments_by_subject[s][a] > 0
        BY Zenon
      <4> QED BY <2>1, <2>2, <2>3, OftenIfOnce, Zenon
    <3>5. Scanned(Now, s) = {a \in Assignments : Now.assignments_by_subject[s][a] > 0}
      BY <3>1, <3>2, WholeBucket, Zenon
    <3>6. Scanned(v, s) = {a \in Assignments : v.assignments_by_subject[s][a] > 0}
      BY <3>1, <3>3, WholeBucket, Zenon
    <3>7. Scanned(Now, s) = Scanned(v, s)
      BY <3>4, <3>5, <3>6, Zenon
    <3> QED BY <3>2, <3>3, <3>7, Zenon
  <2>5. Sound(v)
    <3>1. Sound(Now)
      BY <1>1, SoundNow
    <3> QED BY <2>1, <3>1 DEF Sound, SameButIndex, SameDefinitions
  <2>6. q.subject \in Subjects
    BY QueryBounds
  <2> QED BY <2>1, <2>4, <2>5, <2>6, SameDecision, Zenon
<1> QED BY <1>1
=============================================================================
