--------------------------- MODULE RegistryLemmas ---------------------------
(***************************************************************************)
(* What the proofs about module Registry rest on: induction over the       *)
(* natural numbers, what the recursive walks Above and Reachable compute,  *)
(* why one validated redefinition closes no cycle in a hierarchy, and the  *)
(* inductive invariant itself.  RegistryProofs shows that it is one.       *)
(***************************************************************************)
EXTENDS Registry, FiniteSetTheorems, TLAPS

(* Induction.                                                              *)

\* Every non-empty set of naturals has a least member.
LEMMA LeastNumber ==
    ASSUME NEW T, T \subseteq Nat, T # {}
    PROVE  \E n \in T : \A m \in T : n <= m
<1>1. \E x \in T : \A y \in T : ~ (<<y, x>> \in OpToRel(<, Nat))
  BY NatLessThanWellFounded, WFMin, Zenon
<1>2. ASSUME NEW x \in T, NEW y \in T, ~ (<<y, x>> \in OpToRel(<, Nat))
      PROVE  x <= y
  <2>1. x \in Nat /\ y \in Nat /\ ~(y < x)
    BY <1>2, Zenon DEF OpToRel
  <2> QED BY <2>1
<1> QED BY <1>1, <1>2, Zenon

\* A set of naturals that holds 0 and every successor of a member is all of Nat.  The set takes
\* the place of the predicate.
LEMMA Induction ==
    ASSUME NEW P, P \subseteq Nat, 0 \in P,
           \A n \in Nat : n \in P => n + 1 \in P
    PROVE  P = Nat
<1> SUFFICES ASSUME Nat \ P # {} PROVE FALSE
  BY Zenon
<1>1. PICK n \in Nat \ P : \A m \in Nat \ P : n <= m
  BY LeastNumber, Zenon
<1>2. n # 0 /\ n - 1 \in Nat /\ n - 1 < n /\ (n - 1) + 1 = n
  BY <1>1
<1>3. n - 1 \in P
  BY <1>1, <1>2
<1> QED BY <1>1, <1>2, <1>3, Zenon

\* The sequences s, step[s], step[step[s]], ... of length h + 1.
IteratesOf(step, S, s, h) ==
    {f \in [0 .. h -> S] : f[0] = s /\ \A n \in 1 .. h : f[n] = step[f[n - 1]]}

\* A function can be iterated any number of times: the recursive functions of Registry exist.
LEMMA Iterates ==
    ASSUME NEW S, NEW step, step \in [S -> S], NEW s, s \in S, NEW hops, hops \in Nat
    PROVE  IteratesOf(step, S, s, hops) # {}
<1> DEFINE Walk(h, f) == f \in [0 .. h -> S] /\ f[0] = s /\ \A n \in 1 .. h : f[n] = step[f[n - 1]]
           P == {h \in Nat : \E f : Walk(h, f)}
<1>1. 0 \in P
  <2>1. Walk(0, [n \in 0 .. 0 |-> s])
    OBVIOUS
  <2> QED BY <2>1, Zenon
<1>2. ASSUME NEW h \in Nat, h \in P PROVE h + 1 \in P
  <2>1. PICK f : Walk(h, f)
    BY <1>2, Zenon
  <2> DEFINE g == [n \in 0 .. h + 1 |-> IF n = h + 1 THEN step[f[h]] ELSE f[n]]
  <2>2. Walk(h + 1, g)
    BY <2>1
  <2> QED BY <2>2
<1>3. P = Nat
  <2> HIDE DEF P
  <2>1. P \subseteq Nat BY DEF P
  <2> QED BY <1>1, <1>2, <2>1, Induction, Zenon
<1> QED BY <1>3, Zenon DEF IteratesOf

-----------------------------------------------------------------------------
(* Scope chains and inheritance.                                           *)

\* One step of scope_chain: the parent of a scope, and nothing above nothing.
Parent(i, x) == IF x = Absent THEN Absent ELSE i.scopes[x].def.parent

\* f lists s and the h scopes above it.
Climb(i, s, h, f) ==
    /\ DOMAIN f = 0 .. h
    /\ f[0] = s
    /\ \A n \in 1 .. h : f[n] = Parent(i, f[n - 1])

\* Going up does not leave S.
Closed(i, S) == \A x \in S : Parent(i, x) \in S

\* The climbs from s whose last entry Above returns.
AboveClimb(i, S, s, h) ==
    {f \in [0 .. h -> S] : Climb(i, s, h, f) /\ Above(i, s, h) = f[h]}

\* Two climbs from one scope agree as far as both go.
LEMMA ClimbsAgree ==
    ASSUME NEW i, NEW s, NEW h \in Nat, NEW k \in Nat, h <= k,
           NEW f, NEW g, Climb(i, s, h, f), Climb(i, s, k, g)
    PROVE  \A n \in 0 .. h : f[n] = g[n]
<1> DEFINE P == {n \in Nat : n <= h => f[n] = g[n]}
<1>1. 0 \in P
  BY Zenon DEF Climb
<1>2. ASSUME NEW n \in Nat, n \in P PROVE n + 1 \in P
  <2> SUFFICES ASSUME n + 1 <= h PROVE f[n + 1] = g[n + 1]
    OBVIOUS
  <2>1. n + 1 \in 1 .. h /\ n + 1 \in 1 .. k /\ (n + 1) - 1 = n
    OBVIOUS
  <2>2. f[n] = g[n]
    BY <1>2
  <2> HIDE DEF P
  <2> QED BY <2>1, <2>2, Zenon DEF Climb
<1>3. P = Nat
  <2>1. P \subseteq Nat
    BY Zenon
  <2> HIDE DEF P
  <2> QED BY <1>1, <1>2, <2>1, Induction, Zenon
<1> QED BY <1>3

\* Above returns the last entry of a climb: its recursive function is the climb.
LEMMA AboveClimbs ==
    ASSUME NEW i, NEW S, NEW s, s \in S, Closed(i, S), NEW h, h \in Nat
    PROVE  AboveClimb(i, S, s, h) # {}
<1> DEFINE step == [x \in S |-> Parent(i, x)]
<1>1. PICK f \in [0 .. h -> S] : f[0] = s /\ \A n \in 1 .. h : f[n] = step[f[n - 1]]
  <2>1. step \in [S -> S]
    BY Zenon DEF Closed
  <2> HIDE DEF step
  <2>2. IteratesOf(step, S, s, h) # {}
    BY <2>1, Iterates, Zenon
  <2> QED BY <2>2, Zenon DEF IteratesOf
<1>2. Climb(i, s, h, f)
  <2>1. \A n \in 1 .. h : n - 1 \in 0 .. h
    OBVIOUS
  <2>2. \A x \in S : step[x] = Parent(i, x)
    BY Zenon
  <2> HIDE DEF step
  <2> QED BY <1>1, <2>1, <2>2, Zenon DEF Climb
<1> DEFINE Def(g) == [n \in 0 .. h |->
                        IF n = 0 THEN s
                        ELSE LET below == g[n - 1]
                             IN  IF below = Absent THEN Absent ELSE i.scopes[below].def.parent]
           up == CHOOSE g : g = Def(g)
<1>3. ASSUME NEW g PROVE (g = Def(g)) => Climb(i, s, h, g)
  <2>1. Def(g) = [n \in 0 .. h |-> IF n = 0 THEN s ELSE Parent(i, g[n - 1])]
    BY Zenon DEF Parent
  <2> HIDE DEF Def
  <2> SUFFICES ASSUME g = [n \in 0 .. h |-> IF n = 0 THEN s ELSE Parent(i, g[n - 1])]
               PROVE  Climb(i, s, h, g)
    BY <2>1, Zenon
  <2>2. DOMAIN g = 0 .. h /\ \A n \in 0 .. h : g[n] = IF n = 0 THEN s ELSE Parent(i, g[n - 1])
    BY Zenon
  <2>3. 0 \in 0 .. h /\ \A n \in 1 .. h : n \in 0 .. h /\ n # 0
    OBVIOUS
  <2> QED BY <2>2, <2>3, Zenon DEF Climb
<1>4. f = Def(f)
  <2>1. Def(f) = [n \in 0 .. h |-> IF n = 0 THEN s ELSE Parent(i, f[n - 1])]
    BY Zenon DEF Parent
  <2>2. f = [n \in 0 .. h |-> IF n = 0 THEN s ELSE Parent(i, f[n - 1])]
    <3> HIDE DEF Def, up, step
    <3>1. \A n \in 0 .. h : n = 0 \/ n \in 1 .. h
      OBVIOUS
    <3>2. \A n \in 0 .. h : f[n] = IF n = 0 THEN s ELSE Parent(i, f[n - 1])
      BY <1>2, <3>1, Zenon DEF Climb
    <3> QED BY <3>2, Zenon
  <2> QED BY <2>1, <2>2, Zenon
<1>5. up = Def(up)
  <2> HIDE DEF Def
  <2> QED BY <1>4, Zenon
<1>6. Climb(i, s, h, up)
  BY <1>3, <1>5, Zenon
<1>7. Above(i, s, h) = up[h]
  BY Zenon DEF Above
<1> HIDE DEF up
<1>8. up[h] = f[h]
  BY <1>2, <1>6, ClimbsAgree
<1> QED BY <1>2, <1>7, <1>8, Zenon DEF AboveClimb

\* Above goes up one parent at a time.
LEMMA AboveUnfolds ==
    ASSUME NEW i, NEW S, NEW s, s \in S, Closed(i, S)
    PROVE  /\ Above(i, s, 0) = s
           /\ \A n \in Nat : /\ Above(i, s, n) \in S
                             /\ Above(i, s, n + 1) = Parent(i, Above(i, s, n))
<1>1. Above(i, s, 0) = s
  BY AboveClimbs, 0 \in Nat DEF AboveClimb, Climb
<1>2. ASSUME NEW n \in Nat
      PROVE  /\ Above(i, s, n) \in S
             /\ Above(i, s, n + 1) = Parent(i, Above(i, s, n))
  <2>1. PICK f \in [0 .. n -> S] : Climb(i, s, n, f) /\ Above(i, s, n) = f[n]
    <3>1. AboveClimb(i, S, s, n) # {}
      BY AboveClimbs, Zenon
    <3> QED BY <3>1, Zenon DEF AboveClimb
  <2>2. PICK g \in [0 .. n + 1 -> S] : Climb(i, s, n + 1, g) /\ Above(i, s, n + 1) = g[n + 1]
    <3>1. AboveClimb(i, S, s, n + 1) # {}
      BY AboveClimbs, n + 1 \in Nat, Zenon
    <3> QED BY <3>1, Zenon DEF AboveClimb
  <2>3. f[n] = g[n]
    BY <2>1, <2>2, ClimbsAgree, n <= n + 1, n \in 0 .. n, n + 1 \in Nat
  <2>4. g[n + 1] = Parent(i, g[n])
    BY <2>2, n + 1 \in 1 .. n + 1, (n + 1) - 1 = n, Zenon DEF Climb
  <2> QED BY <2>1, <2>2, <2>3, <2>4
<1> QED BY <1>1, <1>2, Zenon

\* The inherits_from list of an entry of a table.
InheritsFrom(table, x) == IF table[x].gen = 0 THEN {} ELSE table[x].def.parents

\* A set and what its members inherit from.
Grown(table, A) == A \cup UNION {InheritsFrom(table, x) : x \in A}

\* A set that holds what its members inherit from.
Upward(table, A) == \A x \in A : InheritsFrom(table, x) \subseteq A

\* w lists start and the N sets that grow from it.
Growth(table, start, N, w) ==
    /\ w[0] = start
    /\ \A n \in 1 .. N : w[n] = Grown(table, w[n - 1])

\* The growths from start whose last set Reachable returns.
Growing(table, start) ==
    {w \in [0 .. Cardinality(DOMAIN table) -> SUBSET DOMAIN table] :
        /\ Growth(table, start, Cardinality(DOMAIN table), w)
        /\ Reachable(table, start) = w[Cardinality(DOMAIN table)]}

\* Reachable returns the last set of a growth: its recursive function is the growth.
LEMMA ReachableGrows ==
    ASSUME NEW table, NEW start, IsFiniteSet(DOMAIN table), start \subseteq DOMAIN table,
           Upward(table, DOMAIN table)
    PROVE  Growing(table, start) # {}
<1> DEFINE N == Cardinality(DOMAIN table)
           step == [A \in SUBSET DOMAIN table |-> Grown(table, A)]
<1>0. N \in Nat
  BY FS_CardinalityType, Zenon
<1> HIDE DEF N
<1>1. step \in [SUBSET DOMAIN table -> SUBSET DOMAIN table]
  BY Zenon DEF Grown, Upward
<1>2. PICK f \in [0 .. N -> SUBSET DOMAIN table] :
        f[0] = start /\ \A n \in 1 .. N : f[n] = step[f[n - 1]]
  <2> HIDE DEF step
  <2>2. IteratesOf(step, SUBSET DOMAIN table, start, N) # {}
    BY <1>0, <1>1, Iterates, Zenon
  <2> QED BY <2>2, Zenon DEF IteratesOf
<1>3. Growth(table, start, N, f)
  <2>1. \A n \in 1 .. N : n - 1 \in 0 .. N
    BY <1>0
  <2>2. \A A \in SUBSET DOMAIN table : step[A] = Grown(table, A)
    BY Zenon
  <2> HIDE DEF step
  <2> QED BY <1>2, <2>1, <2>2, Zenon DEF Growth
<1> HIDE DEF step
<1> DEFINE Def(g) == [n \in 0 .. N |->
                        IF n = 0 THEN start
                        ELSE LET nearer == g[n - 1]
                             IN  nearer \cup UNION {IF table[x].gen = 0 THEN {} ELSE table[x].def.parents : x \in nearer}]
           within == CHOOSE g : g = Def(g)
<1>4. ASSUME NEW g PROVE Def(g) = [n \in 0 .. N |-> IF n = 0 THEN start ELSE Grown(table, g[n - 1])]
  BY Zenon DEF Grown, InheritsFrom
<1>5. f = Def(f)
  <2>1. \A n \in 0 .. N : n = 0 \/ n \in 1 .. N
    BY <1>0
  <2> HIDE DEF Def, within
  <2>2. \A n \in 0 .. N : f[n] = IF n = 0 THEN start ELSE Grown(table, f[n - 1])
    BY <1>3, <2>1, Zenon DEF Growth
  <2>3. f = [n \in 0 .. N |-> IF n = 0 THEN start ELSE Grown(table, f[n - 1])]
    BY <2>2, Zenon
  <2> QED BY <1>4, <2>3, Zenon
<1>6. within = Def(within)
  <2> HIDE DEF Def
  <2> QED BY <1>5, Zenon
<1>7. Reachable(table, start) = within[N]
  BY Zenon DEF Reachable, N
<1> HIDE DEF within
<1>8. /\ DOMAIN within = 0 .. N
      /\ \A n \in 0 .. N : within[n] = IF n = 0 THEN start ELSE Grown(table, within[n - 1])
  <2> HIDE DEF Def
  <2>1. within = [n \in 0 .. N |-> IF n = 0 THEN start ELSE Grown(table, within[n - 1])]
    BY <1>4, <1>6, Zenon
  <2> QED BY <2>1, Zenon
<1> HIDE DEF Def
<1>9. Growth(table, start, N, within)
  <2>1. 0 \in 0 .. N /\ \A n \in 1 .. N : n \in 0 .. N /\ n # 0
    BY <1>0
  <2> QED BY <1>8, <2>1, Zenon DEF Growth
<1>10. \A n \in 0 .. N : within[n] = f[n]
  <2> DEFINE P == {n \in Nat : n <= N => within[n] = f[n]}
  <2>1. 0 \in P
    BY <1>3, <1>9, Zenon DEF Growth
  <2>2. ASSUME NEW n \in Nat, n \in P PROVE n + 1 \in P
    <3> SUFFICES ASSUME n + 1 <= N PROVE within[n + 1] = f[n + 1]
      OBVIOUS
    <3>1. n + 1 \in 1 .. N /\ (n + 1) - 1 = n
      BY <1>0
    <3>2. within[n] = f[n]
      BY <1>0, <2>2
    <3> HIDE DEF P
    <3> QED BY <1>3, <1>9, <3>1, <3>2, Zenon DEF Growth
  <2>3. P = Nat
    <3>1. P \subseteq Nat
      BY Zenon
    <3> HIDE DEF P
    <3> QED BY <2>1, <2>2, <3>1, Induction, Zenon
  <2> QED BY <1>0, <2>3
<1>11. within[N] = f[N]
  BY <1>0, <1>10
<1> QED BY <1>3, <1>7, <1>11, Zenon DEF Growing, N

\* After as many rounds as there are identifiers nothing new is reached, so that Registry's
\* bound on the walk (the code keeps a visited set) loses nothing.
LEMMA GrowthCloses ==
    ASSUME NEW table, NEW start, NEW w,
           IsFiniteSet(DOMAIN table), Upward(table, DOMAIN table),
           w \in [0 .. Cardinality(DOMAIN table) -> SUBSET DOMAIN table],
           Growth(table, start, Cardinality(DOMAIN table), w)
    PROVE  Upward(table, w[Cardinality(DOMAIN table)])
<1> DEFINE X == DOMAIN table
           N == Cardinality(X)
           P == {n \in Nat : n <= N => (Upward(table, w[n]) \/ Cardinality(w[n]) >= n)}
<1>0. N \in Nat
  BY FS_CardinalityType, Zenon
<1>1. \A n \in 0 .. N : w[n] \subseteq X /\ IsFiniteSet(w[n]) /\ Cardinality(w[n]) \in Nat
  <2> SUFFICES ASSUME NEW n \in 0 .. N
               PROVE  w[n] \subseteq X /\ IsFiniteSet(w[n]) /\ Cardinality(w[n]) \in Nat
    BY Zenon
  <2>1. w[n] \in SUBSET X
    BY Zenon
  <2> QED BY <2>1, FS_Subset, FS_CardinalityType, Zenon
<1> HIDE DEF X, N
<1>2. 0 \in P
  BY <1>0, <1>1
<1>3. ASSUME NEW n \in Nat, n \in P PROVE n + 1 \in P
  <2> SUFFICES ASSUME n + 1 <= N, ~Upward(table, w[n + 1])
               PROVE  Cardinality(w[n + 1]) >= n + 1
    OBVIOUS
  <2>1. n \in 0 .. N /\ n + 1 \in 0 .. N /\ n + 1 \in 1 .. N /\ (n + 1) - 1 = n /\ n <= N
    BY <1>0
  <2>2. w[n + 1] = Grown(table, w[n])
    BY <2>1, Zenon DEF Growth, N, X
  <2>3. ~Upward(table, w[n])
    <3> SUFFICES ASSUME Upward(table, w[n]) PROVE FALSE
      BY Zenon
    <3>1. Grown(table, w[n]) = w[n]
      BY Zenon DEF Grown, Upward
    <3> QED BY <2>2, <3>1, Zenon
  <2>4. Cardinality(w[n]) >= n
    BY <1>3, <2>1, <2>3, Zenon
  <2> HIDE DEF P
  <2>5. w[n] \in SUBSET w[n + 1] /\ w[n] # w[n + 1]
    BY <2>2, <2>3, Zenon DEF Grown, Upward
  <2>6. Cardinality(w[n]) <= Cardinality(w[n + 1]) /\ Cardinality(w[n]) # Cardinality(w[n + 1])
    BY <1>1, <2>1, <2>5, FS_Subset, Zenon
  <2> QED BY <1>1, <2>1, <2>4, <2>6
<1>4. P = Nat
  <2>1. P \subseteq Nat
    BY Zenon
  <2> HIDE DEF P
  <2> QED BY <1>2, <1>3, <2>1, Induction, Zenon
<1>5. Upward(table, w[N]) \/ Cardinality(w[N]) >= N
  BY <1>0, <1>4
<1>6. CASE Cardinality(w[N]) >= N
  <2> HIDE DEF P
  <2>1. w[N] \in SUBSET X /\ N \in 0 .. N
    BY <1>0, <1>1
  <2>2. Cardinality(w[N]) <= N /\ Cardinality(w[N]) \in Nat
    BY <1>1, <2>1, FS_Subset, Zenon DEF N, X
  <2>3. Cardinality(X) = Cardinality(w[N])
    BY <1>0, <1>6, <2>2 DEF N
  <2>4. w[N] = X
    BY <2>1, <2>3, FS_Subset, Zenon DEF X
  <2> QED BY <2>4, Zenon DEF X, N
<1> QED BY <1>5, <1>6, Zenon DEF N, X

\* reaches computes the least set that holds start and what its members inherit from.
LEMMA ReachableIsLeast ==
    ASSUME NEW table, NEW start, IsFiniteSet(DOMAIN table), start \subseteq DOMAIN table,
           Upward(table, DOMAIN table)
    PROVE  /\ start \subseteq Reachable(table, start)
           /\ Reachable(table, start) \subseteq DOMAIN table
           /\ Upward(table, Reachable(table, start))
           /\ \A C : (start \subseteq C /\ Upward(table, C)) => Reachable(table, start) \subseteq C
<1> DEFINE N == Cardinality(DOMAIN table)
<1>0. N \in Nat
  BY FS_CardinalityType, Zenon
<1>1. PICK w \in [0 .. N -> SUBSET DOMAIN table] :
        Growth(table, start, N, w) /\ Reachable(table, start) = w[N]
  <2>1. Growing(table, start) # {}
    BY ReachableGrows, Zenon
  <2> QED BY <2>1, Zenon DEF Growing
<1>2. Upward(table, w[N])
  BY <1>1, GrowthCloses, Zenon
<1> HIDE DEF N
<1>3. start \subseteq w[N]
  <2> DEFINE P == {n \in Nat : n <= N => start \subseteq w[n]}
  <2>1. 0 \in P
    BY <1>1, Zenon DEF Growth
  <2>2. ASSUME NEW n \in Nat, n \in P PROVE n + 1 \in P
    <3> SUFFICES ASSUME n + 1 <= N PROVE start \subseteq w[n + 1]
      OBVIOUS
    <3>1. n + 1 \in 1 .. N /\ (n + 1) - 1 = n
      BY <1>0
    <3>2. start \subseteq w[n]
      BY <1>0, <2>2
    <3> HIDE DEF P
    <3> QED BY <1>1, <3>1, <3>2, Zenon DEF Growth, Grown
  <2>3. P = Nat
    <3>1. P \subseteq Nat
      BY Zenon
    <3> HIDE DEF P
    <3> QED BY <2>1, <2>2, <3>1, Induction, Zenon
  <2> QED BY <1>0, <2>3
<1>4. ASSUME NEW C, start \subseteq C, Upward(table, C)
      PROVE  w[N] \subseteq C
  <2> DEFINE P == {n \in Nat : n <= N => w[n] \subseteq C}
  <2>1. 0 \in P
    BY <1>1, <1>4, Zenon DEF Growth
  <2>2. ASSUME NEW n \in Nat, n \in P PROVE n + 1 \in P
    <3> SUFFICES ASSUME n + 1 <= N PROVE w[n + 1] \subseteq C
      OBVIOUS
    <3>1. n + 1 \in 1 .. N /\ (n + 1) - 1 = n
      BY <1>0
    <3>2. w[n] \subseteq C
      BY <1>0, <2>2
    <3> HIDE DEF P
    <3>3. w[n + 1] = Grown(table, w[n])
      BY <1>1, <3>1, Zenon DEF Growth
    <3> QED BY <1>4, <3>2, <3>3, Zenon DEF Grown, Upward
  <2>3. P = Nat
    <3>1. P \subseteq Nat
      BY Zenon
    <3> HIDE DEF P
    <3> QED BY <2>1, <2>2, <3>1, Induction, Zenon
  <2> QED BY <1>0, <2>3
<1>5. w[N] \subseteq DOMAIN table
  BY <1>0, <1>1
<1> QED BY <1>1, <1>2, <1>3, <1>4, <1>5, Zenon

\* No entry inherits from itself, directly or not.
Acyclic(table) == \A x \in Defined(table) : x \notin Reachable(table, table[x].def.parents)

\* validate_inheritance looks at one entity: if the new parents of k do not reach k along the
\* other entities' lists, giving k those parents keeps the whole table acyclic.
LEMMA RedefinitionAcyclic ==
    ASSUME NEW table, NEW new, NEW k, k \in DOMAIN table, NEW parents,
           IsFiniteSet(DOMAIN table), Upward(table, DOMAIN table),
           \A y \in DOMAIN table : table[y].gen \in Nat,
           DOMAIN new = DOMAIN table, \A y \in DOMAIN table \ {k} : new[y] = table[y],
           new[k].gen \in Nat \ {0}, new[k].def.parents = parents, parents \subseteq DOMAIN table,
           k \notin Reachable([table EXCEPT ![k] = Undefined], parents),
           Acyclic(table)
    PROVE  Acyclic(new)
<1> DEFINE X == DOMAIN table
           without == [table EXCEPT ![k] = Undefined]
           C == Reachable(without, parents)
<1>1. /\ DOMAIN without = X
      /\ InheritsFrom(without, k) = {}
      /\ \A y \in X \ {k} : InheritsFrom(without, y) = InheritsFrom(table, y)
  BY Zenon DEF InheritsFrom, Undefined
<1>2. Upward(without, X)
  BY <1>1, Zenon DEF Upward
<1>3. /\ parents \subseteq C /\ C \subseteq X
      /\ Upward(without, C)
      /\ k \notin C
  <2> HIDE DEF without
  <2>1. IsFiniteSet(DOMAIN without) /\ parents \subseteq DOMAIN without /\ Upward(without, DOMAIN without)
    BY <1>1, <1>2, Zenon
  <2>2. parents \subseteq C /\ C \subseteq DOMAIN without /\ Upward(without, C)
    BY <2>1, ReachableIsLeast
  <2>3. k \notin C
    BY Zenon DEF without
  <2> QED BY <1>1, <2>2, <2>3, Zenon
<1> HIDE DEF C, without
<1>4. /\ InheritsFrom(new, k) = parents
      /\ \A y \in X \ {k} : InheritsFrom(new, y) = InheritsFrom(table, y)
  BY Zenon DEF InheritsFrom
<1>5. Upward(new, C) /\ Upward(table, C)
  BY <1>1, <1>3, <1>4, Zenon DEF Upward
<1>6. Upward(new, DOMAIN new) /\ IsFiniteSet(DOMAIN new)
  BY <1>4, Zenon DEF Upward
<1>7. ASSUME NEW x \in Defined(new) PROVE x \notin Reachable(new, new[x].def.parents)
  <2> DEFINE A == Reachable(table, InheritsFrom(table, x))
             R == Reachable(new, InheritsFrom(new, x))
  <2>1. x \in X /\ new[x].def.parents = InheritsFrom(new, x)
    BY DEF Defined, InheritsFrom
  <2>2. \A D : (InheritsFrom(new, x) \subseteq D /\ Upward(new, D)) => R \subseteq D
    <3>1. InheritsFrom(new, x) \subseteq DOMAIN new
      BY <1>6, <2>1, Zenon DEF Upward
    <3> QED BY <1>6, <3>1, ReachableIsLeast, Zenon
  <2>3. CASE x = k
    <3>1. R \subseteq C
      BY <1>3, <1>4, <1>5, <2>2, <2>3, Zenon
    <3> QED BY <1>3, <2>1, <2>3, <3>1, Zenon
  <2>4. CASE x # k
    <3>1. /\ InheritsFrom(table, x) \subseteq A
          /\ Upward(table, A)
          /\ \A D : (InheritsFrom(table, x) \subseteq D /\ Upward(table, D)) => A \subseteq D
      <4>1. InheritsFrom(table, x) \subseteq X
        BY <2>1, Zenon DEF Upward
      <4> QED BY <4>1, ReachableIsLeast, Zenon
    <3>2. x \notin A
      <4>1. x \in Defined(table) /\ table[x].def.parents = InheritsFrom(table, x)
        BY <2>1, <2>4, Zenon DEF Defined, InheritsFrom
      <4> QED BY <4>1, Zenon DEF Acyclic
    <3>3. InheritsFrom(new, x) = InheritsFrom(table, x)
      BY <1>4, <2>1, <2>4, Zenon
    <3> HIDE DEF A, R
    <3>4. CASE x \in C
      <4>1. A \subseteq C
        BY <1>5, <3>1, <3>4, Zenon DEF Upward
      <4>2. k \notin A
        BY <1>3, <4>1, Zenon
      <4>3. Upward(new, A)
        BY <1>3, <1>4, <3>1, <4>1, <4>2, Zenon DEF Upward
      <4>4. R \subseteq A
        BY <2>2, <3>1, <3>3, <4>3, Zenon
      <4> QED BY <2>1, <3>2, <4>4, Zenon DEF R
    <3>5. CASE x \notin C
      <4>1. Upward(new, A \cup C)
        <5> SUFFICES ASSUME NEW y \in A \cup C PROVE InheritsFrom(new, y) \subseteq A \cup C
          BY Zenon DEF Upward
        <5>1. CASE y \in C
          BY <1>5, <5>1, Zenon DEF Upward
        <5>2. CASE y = k
          BY <1>3, <1>4, <5>2, Zenon
        <5>3. CASE y \in A /\ y # k
          <6>1. y \in X
            <7>1. Reachable(table, InheritsFrom(table, x)) \subseteq X
              <8>1. InheritsFrom(table, x) \subseteq X
                BY <2>1, Zenon DEF Upward
              <8> QED BY <8>1, ReachableIsLeast, Zenon
            <7> QED BY <5>3, <7>1, Zenon DEF A
          <6> QED BY <1>4, <3>1, <5>3, <6>1, Zenon DEF Upward
        <5> QED BY <5>1, <5>2, <5>3, Zenon
      <4>2. R \subseteq A \cup C
        BY <2>2, <3>1, <3>3, <4>1, Zenon
      <4> QED BY <2>1, <3>2, <3>5, <4>2, Zenon DEF R
    <3> QED BY <3>4, <3>5, Zenon
  <2> QED BY <2>3, <2>4, Zenon
<1> QED BY <1>7, Zenon DEF Acyclic

\* A set of scopes from which going up leads nowhere else: a cycle, or scopes that end in one.
Rootless(scopes, C) ==
    /\ C \subseteq Defined(scopes)
    /\ C # {}
    /\ \A s \in C : scopes[s].def.parent \in C

\* The scope tree has no cycle.
Rooted(scopes) == \A C : ~Rootless(scopes, C)

\* In a scope tree without a cycle every chain ends after at most as many hops as there are scopes.
LEMMA RootedScopesEnd ==
    ASSUME NEW i, IsFiniteSet(Scopes), Absent \notin Scopes, DOMAIN i.scopes = Scopes,
           Rooted(i.scopes),
           \A s \in Defined(i.scopes) : i.scopes[s].def.parent \in Defined(i.scopes) \cup {Absent},
           NEW s, s \in Defined(i.scopes)
    PROVE  \E n \in 1 .. Cardinality(Scopes) : Above(i, s, n) = Absent
<1> DEFINE S == Defined(i.scopes) \cup {Absent}
           N == Cardinality(Scopes)
<1>0. N \in Nat /\ Defined(i.scopes) \subseteq Scopes
  BY FS_CardinalityType, Zenon DEF Defined
<1>1. Closed(i, S)
  BY <1>0, Zenon DEF Closed, Parent
<1> HIDE DEF N, S
<1>2. /\ Above(i, s, 0) = s
      /\ \A n \in Nat : /\ Above(i, s, n) \in S
                        /\ Above(i, s, n + 1) = Parent(i, Above(i, s, n))
  <2>1. s \in S
    BY Zenon DEF S
  <2> QED BY <1>1, <2>1, AboveUnfolds
<1> SUFFICES ASSUME \A n \in 1 .. N : Above(i, s, n) # Absent PROVE FALSE
  BY Zenon DEF N
<1>3. \A n \in 0 .. N : Above(i, s, n) \in Defined(i.scopes)
  <2> SUFFICES ASSUME NEW n \in 0 .. N PROVE Above(i, s, n) \in Defined(i.scopes)
    BY Zenon
  <2>1. n \in Nat /\ (n = 0 \/ n \in 1 .. N)
    BY <1>0
  <2> QED BY <1>2, <2>1, Zenon DEF S
<1> DEFINE f == [n \in 0 .. N |-> Above(i, s, n)]
<1>4. PICK x \in 0 .. N, y \in 0 .. N : x < y /\ Above(i, s, x) = Above(i, s, y)
  <2>1. f \in [0 .. N -> Scopes]
    BY <1>0, <1>3, Zenon
  <2>2. IsFiniteSet(0 .. N) /\ Cardinality(0 .. N) = N + 1
    BY <1>0, FS_Interval
  <2>3. Cardinality(Scopes) < Cardinality(0 .. N)
    BY <1>0, <2>2 DEF N
  <2>4. \E x, y \in 0 .. N : x # y /\ f[x] = f[y]
    <3> DEFINE J == 0 .. N
    <3> SUFFICES \E x, y \in J : x # y /\ f[x] = f[y]
      BY Zenon
    <3>1. IsFiniteSet(J) /\ Cardinality(Scopes) < Cardinality(J) /\ f \in [J -> Scopes]
      BY <2>1, <2>2, <2>3, Zenon
    <3> HIDE DEF f, J
    <3> QED BY <3>1, FS_PigeonHole
  <2> QED BY <1>0, <2>4
<1> DEFINE C == {Above(i, s, n) : n \in x .. y - 1}
<1>5. C \subseteq Defined(i.scopes) /\ C # {}
  <2>1. x \in x .. y - 1 /\ \A n \in x .. y - 1 : n \in 0 .. N
    BY <1>0, <1>4
  <2> QED BY <1>3, <2>1, Zenon
<1>6. ASSUME NEW n \in x .. y - 1 PROVE i.scopes[Above(i, s, n)].def.parent \in C
  <2>1. n \in 0 .. N /\ n \in Nat /\ (n + 1 = y \/ n + 1 \in x .. y - 1)
    BY <1>0, <1>4
  <2>2. Above(i, s, n + 1) = i.scopes[Above(i, s, n)].def.parent
    BY <1>0, <1>2, <1>3, <2>1, Zenon DEF Parent
  <2>3. CASE n + 1 = y
    <3>1. x \in x .. y - 1
      BY <1>4
    <3> QED BY <1>4, <2>2, <2>3, <3>1, Zenon
  <2>4. CASE n + 1 \in x .. y - 1
    BY <2>2, <2>4, Zenon
  <2> QED BY <2>1, <2>3, <2>4, Zenon
<1>7. Rootless(i.scopes, C)
  BY <1>5, <1>6, Zenon DEF Rootless
<1> QED BY <1>7, Zenon DEF Rooted

\* What DefineScope has found of a new parent: the walk up from it, of at most that many hops,
\* ends and does not meet k.
Attachable(i, k, parent, hops) ==
    LET above == {Above(i, parent, n) : n \in 0 .. hops}
    IN  /\ parent \in Defined(i.scopes) \cup {Absent}
        /\ parent # Absent => (k \notin above /\ Absent \in above)

\* The scope table i.scopes becomes new by giving k a parent that the walk accepted.
ScopeRedefined(i, new, k, hops) ==
    /\ DOMAIN i.scopes = Scopes /\ DOMAIN new = Scopes /\ k \in Scopes
    /\ \A s \in Scopes : i.scopes[s].gen \in Nat
    /\ \A s \in Defined(i.scopes) : i.scopes[s].def.parent \in Defined(i.scopes) \cup {Absent}
    /\ \A s \in Scopes \ {k} : new[s] = i.scopes[s]
    /\ Attachable(i, k, new[k].def.parent, hops)

\* The walk in DefineScope looks at one chain: redefining one scope under an attachable parent
\* closes no cycle anywhere, although the chains of the scopes below k grow as well.
LEMMA RedefinitionRooted ==
    ASSUME NEW i, NEW new, NEW k, NEW hops, hops \in Nat,
           Absent \notin Scopes, ScopeRedefined(i, new, k, hops), Rooted(i.scopes)
    PROVE  Rooted(new)
<1> DEFINE parent == new[k].def.parent
<1>a. /\ DOMAIN i.scopes = Scopes /\ DOMAIN new = Scopes /\ k \in Scopes
      /\ \A s \in Scopes : i.scopes[s].gen \in Nat
      /\ \A s \in Defined(i.scopes) : i.scopes[s].def.parent \in Defined(i.scopes) \cup {Absent}
      /\ \A s \in Scopes \ {k} : new[s] = i.scopes[s]
      /\ Attachable(i, k, parent, hops)
  BY Zenon DEF ScopeRedefined
<1> DEFINE S == Defined(i.scopes) \cup {Absent}
<1>0. Defined(i.scopes) \subseteq Scopes /\ Defined(new) \subseteq Scopes
  BY <1>a, Zenon DEF Defined
<1>1. Closed(i, S)
  BY <1>a, <1>0, Zenon DEF Closed, Parent
<1> SUFFICES ASSUME NEW C, Rootless(new, C) PROVE FALSE
  BY Zenon DEF Rooted
<1>2. C \subseteq Scopes /\ \A s \in C : new[s].def.parent \in C
  BY <1>0, Zenon DEF Rootless
<1>3. CASE k \notin C
  <2>1. Rootless(i.scopes, C)
    BY <1>a, <1>2, <1>3, Zenon DEF Rootless, Defined
  <2> QED BY <2>1, Zenon DEF Rooted
<1>4. CASE k \in C
  <2>1. parent \in C /\ parent # Absent
    BY <1>2, <1>4, Zenon
  <2>2. PICK m \in 0 .. hops : Above(i, parent, m) = Absent
    BY <1>a, <2>1, Zenon DEF Attachable
  <2>3. \A n \in 0 .. hops : Above(i, parent, n) # k
    BY <1>a, <2>1, Zenon DEF Attachable
  <2> HIDE DEF S, parent
  <2>4. /\ Above(i, parent, 0) = parent
        /\ \A n \in Nat : Above(i, parent, n + 1) = Parent(i, Above(i, parent, n))
    <3>1. parent \in S
      BY <1>a, Zenon DEF S, Attachable
    <3> QED BY <1>1, <3>1, AboveUnfolds
  <2> DEFINE P == {n \in Nat : n <= hops => Above(i, parent, n) \in C}
  <2>5. 0 \in P
    BY <2>1, <2>4, Zenon
  <2>6. ASSUME NEW n \in Nat, n \in P PROVE n + 1 \in P
    <3> SUFFICES ASSUME n + 1 <= hops PROVE Above(i, parent, n + 1) \in C
      OBVIOUS
    <3>1. Above(i, parent, n) \in C /\ Above(i, parent, n) # k
      <4>1. n \in 0 .. hops /\ n <= hops
        OBVIOUS
      <4> QED BY <2>3, <2>6, <4>1, Zenon
    <3> HIDE DEF P
    <3>2. Above(i, parent, n + 1) = new[Above(i, parent, n)].def.parent
      BY <1>a, <1>2, <2>4, <3>1, Zenon DEF Parent
    <3> QED BY <1>2, <3>1, <3>2, Zenon
  <2>7. P = Nat
    <3>1. P \subseteq Nat
      BY Zenon
    <3> HIDE DEF P
    <3> QED BY <2>5, <2>6, <3>1, Induction, Zenon
  <2>8. Above(i, parent, m) \in C
    BY <2>7
  <2> QED BY <1>2, <2>2, <2>8, Zenon
<1> QED BY <1>3, <1>4, Zenon

-----------------------------------------------------------------------------
(* The state.                                                              *)

\* The types of the tables and of the index, with generations bounded.
Shape ==
    /\ DOMAIN image = Tables \cup {"assignments_by_subject"}
    /\ DOMAIN image.classes = Classes
    /\ DOMAIN image.scopes = Scopes
    /\ DOMAIN image.policies = Policies
    /\ DOMAIN image.subjects = Subjects
    /\ DOMAIN image.assignments = Assignments
    /\ \A t \in Tables : \A x \in DOMAIN image[t] :
          /\ {"gen", "def", "by"} \subseteq DOMAIN image[t][x]
          /\ image[t][x].gen \in Nat
          /\ image[t][x].gen <= MaxGeneration
    /\ \A a \in Assignments :
          /\ "active" \in DOMAIN image.assignments[a]
          /\ image.assignments[a].active \in BOOLEAN
          /\ image.assignments[a].active => image.assignments[a].gen > 0
    /\ image.assignments_by_subject \in [Subjects -> [Assignments -> Nat]]
    /\ replayed \in [Subjects -> [Assignments -> Nat]]

\* An entry is empty until it is defined, and then holds a submitted definition of that entity.
FromSubmitted(table, defs) ==
    \A x \in DOMAIN table :
        IF table[x].gen = 0 THEN table[x].def = Absent
        ELSE table[x].def \in defs /\ table[x].def.id = x

\* The policies as FabricRuntime::define_policy stamps them.
StampedPolicies == {[d EXCEPT !.scope_generation = g] : d \in PolicyDefs, g \in 0 .. MaxGeneration}

\* The identifiers an assignment names are ones the tables have a place for.
NamesKnown(d) ==
    /\ d.subject \in Subjects
    /\ d.scope \in Scopes
    /\ d.cls \in Classes
    /\ d.policy \in Policies \cup {Absent}

\* Every stored definition was submitted for the entity it is stored under.
Known ==
    /\ FromSubmitted(image.classes, ClassDefs)
    /\ FromSubmitted(image.scopes, ScopeDefs)
    /\ FromSubmitted(image.policies, StampedPolicies)
    /\ FromSubmitted(image.subjects, SubjectDefs)
    /\ \A a \in Defined(image.assignments) : NamesKnown(image.assignments[a].def)

\* The conjuncts of ReferencesResolve, one per table.
ParentsDefined(table) == \A x \in Defined(table) : table[x].def.parents \subseteq Defined(table)

ClassOrNone(x) == x \in Defined(image.classes) \cup {Absent}

ScopesResolve ==
    \A s \in Defined(image.scopes) :
        /\ ClassOrNone(image.scopes[s].def.unknown_default)
        /\ image.scopes[s].def.parent \in Defined(image.scopes) \cup {Absent}

PoliciesResolve ==
    \A p \in Defined(image.policies) :
        LET d == image.policies[p].def
        IN  /\ d.scope_generation \in 1 .. image.scopes[d.scope].gen
            /\ d.visible_classes \subseteq Defined(image.classes)
            /\ ClassOrNone(d.unknown_default)

AssignmentsResolve ==
    \A a \in Defined(image.assignments) :
        LET d == image.assignments[a].def
        IN  /\ d.subject_generation \in 1 .. image.subjects[d.subject].gen
            /\ d.scope_generation \in 1 .. image.scopes[d.scope].gen
            /\ d.class_generation \in 1 .. image.classes[d.cls].gen
            /\ d.policy # Absent => d.policy_generation \in 1 .. image.policies[d.policy].gen
            /\ ClassOrNone(d.displaces)

AllResolve ==
    /\ ParentsDefined(image.classes)
    /\ ParentsDefined(image.subjects)
    /\ ScopesResolve
    /\ PoliciesResolve
    /\ AssignmentsResolve

\* With every parent defined, the whole table is closed under inheritance.
LEMMA InheritanceUpward ==
    ASSUME NEW table, ParentsDefined(table), \A x \in DOMAIN table : table[x].gen \in Nat
    PROVE  Upward(table, DOMAIN table)
<1> SUFFICES ASSUME NEW x \in DOMAIN table PROVE InheritsFrom(table, x) \subseteq DOMAIN table
  BY Zenon DEF Upward
<1>1. CASE table[x].gen = 0
  BY <1>1, Zenon DEF InheritsFrom
<1>2. CASE table[x].gen # 0
  BY <1>2 DEF InheritsFrom, ParentsDefined, Defined
<1> QED BY <1>1, <1>2, Zenon

\* The tables are finite.
LEMMA IdentifiersFinite == IsFiniteSet(Classes) /\ IsFiniteSet(Subjects) /\ IsFiniteSet(Scopes)
<1>1. Classes \subseteq Ids /\ Subjects \subseteq Ids /\ Scopes \subseteq Ids
  BY Zenon DEF Ids
<1> QED BY <1>1, RegistryBounds, FS_Subset, Zenon

\* The inductive invariant.  Acyclicity is inductive only with every reference resolved (a walk
\* that leaves the table would miss a cycle); the scope part is stated as the absence of a
\* rootless set, since a redefinition may lengthen the chains of all the scopes below it.
RegistryInv ==
    /\ Shape
    /\ Known
    /\ AllResolve
    /\ Acyclic(image.classes)
    /\ Acyclic(image.subjects)
    /\ Rooted(image.scopes)
    /\ RanksUnique
    /\ IndexComplete

\* Some assignment was submitted under identifier a for subject s.
Submitted(a, s) == \E d \in AssignmentDefs : d.id = a /\ d.subject = s

\* A bucket, of the running index or of the one a reopening rebuilds, holds only identifiers that
\* were published for its subject; a stored assignment names a subject it was published for.
HonestIndex ==
    /\ \A a \in Defined(image.assignments) : Submitted(a, image.assignments[a].def.subject)
    /\ \A s \in Subjects, a \in Assignments :
          image.assignments_by_subject[s][a] > 0 \/ replayed[s][a] > 0 =>
              Submitted(a, s) /\ a \in Defined(image.assignments)
=============================================================================
