----------------------------- MODULE Evaluation -----------------------------
(***************************************************************************)
(* evaluate_query (evaluate.cpp): the decision for a query over the state  *)
(* image that module Registry maintains.  The runtime evaluates under its  *)
(* shared lock, so a decision is a function of one state.  A decision      *)
(* keeps what callers act on: outcome, class, whether it is authoritative, *)
(* the winning assignment, the conflicting, superseded and rejected ones.  *)
(* The image is healthy: a degraded one rejects every query.               *)
(***************************************************************************)
EXTENDS Registry

CONSTANTS
    Queries,            \* PriorityQuery values asked about
    MaxQuerySteps       \* Limits::max_query_steps

ASSUME QueryBounds ==
    /\ MaxQuerySteps \in Nat \ {0}
    /\ \A q \in Queries : q.subject \in Subjects /\ q.scope \in Scopes /\ q.strict \in BOOLEAN

\* What an evaluation reads: the image with its epoch and live grants.
World(i, e, g) ==
    [classes |-> i.classes, scopes |-> i.scopes, policies |-> i.policies, subjects |-> i.subjects,
     assignments |-> i.assignments, assignments_by_subject |-> i.assignments_by_subject,
     epoch |-> e, granted |-> g]

Now == World(image, epoch, granted)

-----------------------------------------------------------------------------
(* Evidence.                                                               *)

\* How many ids stand before a, and up to a, in the sorted bucket of a subject.
Before(w, s, a) ==
    LET held(b) == IF b \in Assignments THEN w.assignments_by_subject[s][b] ELSE 0
        count[b \in 0 .. a] == IF b = 0 THEN 0 ELSE count[b - 1] + held(b - 1)
    IN  count[a]

UpTo(w, s, a) == Before(w, s, a) + w.assignments_by_subject[s][a]

\* The ids of a bucket that the scan reaches, and the one on which its budget ends.
Scanned(w, s) ==
    {a \in Assignments : w.assignments_by_subject[s][a] > 0 /\ Before(w, s, a) < MaxQuerySteps}

OverBudget(w, s) ==
    {a \in Assignments : Before(w, s, a) <= MaxQuerySteps /\ MaxQuerySteps < UpTo(w, s, a)}

\* The level of an assignment's scope on the query's chain; -1 when it is not on it.
LevelOn(chain, s) ==
    LET at == {n \in DOMAIN chain : chain[n] = s} IN IF at = {} THEN -1 ELSE Min(at)

Level(w, q, a) == LevelOn(scope_chain(w, q.scope), w.assignments[a].def.scope)

\* Evidence of subject s for the query, at an inheritance distance from it.
Offered(w, q, s, distance) ==
    {a \in Scanned(w, s) :
        /\ distance > 0 => w.assignments[a].def.kind = "Inherited"
        /\ Level(w, q, a) >= 0}

\* Mutants: retirement, the epoch, or the class generation is not checked.
RefusalOfLive(w, a) ==
    IF w.assignments[a].by.incarnation \in w.granted THEN "Ok" ELSE "publisher_incarnation_fenced"
RefusalAnyEpoch(w, a) ==
    CASE ~w.assignments[a].active                             -> "assignment_retired"
      [] w.assignments[a].by.incarnation \notin w.granted     -> "publisher_incarnation_fenced"
      [] w.classes[w.assignments[a].def.cls].gen # w.assignments[a].def.class_generation
                                                              -> "class_generation_stale"
      [] OTHER                                                -> "Ok"

\* Why collect_for_subject refuses an assignment, in the order it checks; "Ok" if not.
Refusal(w, a) ==
    LET entry == w.assignments[a]
        d     == entry.def
    IN  CASE ~entry.active                                         -> "assignment_retired"
          [] entry.by.incarnation \notin w.granted                 -> "publisher_incarnation_fenced"
          [] entry.by.epoch # w.epoch                              -> "epoch_superseded"
          [] w.subjects[d.subject].gen # d.subject_generation      -> "subject_generation_stale"
          [] w.scopes[d.scope].gen # d.scope_generation            -> "scope_generation_stale"
          [] w.classes[d.cls].gen # d.class_generation             -> "class_generation_stale"
          [] d.policy # Absent /\ w.policies[d.policy].gen # d.policy_generation
                                                                   -> "policy_generation_stale"
          [] ~Visible(w, d.cls, d.scope)                           -> "class_not_visible"
          [] OTHER                                                 -> "Ok"

AuthorityRefusals == {"publisher_incarnation_fenced", "epoch_superseded"}

\* collect_for_subject: what the scan of a subject's bucket says of each assignment.
Verdicts(w, q, s, distance) ==
    {[id |-> a, code |-> Refusal(w, a)] : a \in Offered(w, q, s, distance)}
    \cup {[id |-> a, code |-> "evidence_scan_budget_exhausted"] : a \in OverBudget(w, s)}

Accepted(verdicts) == {v.id : v \in {u \in verdicts : u.code = "Ok"}}

\* Mutant: retired assignments are skipped silently.
RefusedActive(verdicts) == {v \in verdicts : v.code \notin {"Ok", "assignment_retired"}}

Refused(verdicts) == {v \in verdicts : v.code # "Ok"}

\* subject_ancestors: the subjects at a breadth-first distance n from s.
Ring(w, s, n) ==
    LET parents(x) == w.subjects[x].def.parents
        seen[k \in 0 .. n] ==
            IF k = 0 THEN {s}
            ELSE LET nearer == seen[k - 1]
                 IN  nearer \cup UNION {parents(x) : x \in nearer}
    IN  IF n = 0 THEN {s} ELSE seen[n] \ seen[n - 1]

Ancestors(w, s) == UNION {{<<n, x>> : x \in Ring(w, s, n)} : n \in 1 .. MaxInheritance}

AncestorsUsable(w, s) ==
    /\ Ring(w, s, MaxInheritance + 1) = {}
    /\ Cardinality(Ancestors(w, s)) <= MaxQuerySteps

\* The closest ancestor that offers any evidence, by distance and then identifier.
ClosestOf(offering) ==
    LET nearest == Min({r[1] : r \in offering})
    IN  <<nearest, Min({r[2] : r \in {o \in offering : o[1] = nearest}})>>

Offering(w, q) == {r \in Ancestors(w, q.subject) : Verdicts(w, q, r[2], r[1]) # {}}

\* Evidence at a distance: what was accepted there, and what was refused up to it.
Evidence(distance, verdicts, refused) ==
    [distance |-> distance, accepted |-> Accepted(verdicts), rejected |-> Refused(verdicts) \cup refused]

InheritedFrom(w, q, own, r) == Evidence(r[1], Verdicts(w, q, r[2], r[1]), Refused(own))

\* The evidence collected: the subject's own, else that of its closest ancestor with any.
CollectAfter(w, q, own, offering) ==
    IF Accepted(own) # {} \/ offering = {} THEN Evidence(0, own, {})
    ELSE InheritedFrom(w, q, own, ClosestOf(offering))

Collect(w, q) == CollectAfter(w, q, Verdicts(w, q, q.subject, 0), Offering(w, q))

\* Whether an assignment that must displace something does, among the accepted ones.
Misfit(w, q, accepted, a) ==
    LET d == w.assignments[a].def
    IN  IF d.displaces = Absent
        THEN IF d.kind = "Exception" THEN "exception_without_target" ELSE "Ok"
        ELSE IF \E b \in accepted : /\ Level(w, q, b) > Level(w, q, a)
                                    /\ w.assignments[b].def.cls = d.displaces
             THEN "Ok" ELSE "exception_target_mismatch"

\* Evidence after exception and override filtering.
Keep(evidence, verdicts) ==
    [evidence EXCEPT !.accepted = Accepted(verdicts), !.rejected = @ \cup Refused(verdicts)]

Filtered(w, q, evidence) ==
    Keep(evidence, {[id |-> a, code |-> Misfit(w, q, evidence.accepted, a)] : a \in evidence.accepted})

-----------------------------------------------------------------------------
(* The decision.                                                           *)

Undecided(outcome, reason, rejected) ==
    [outcome |-> outcome, reason |-> reason, authoritative |-> FALSE, cls |-> Absent,
     winner |-> Absent, conflicts |-> {}, superseded |-> {}, rejected |-> rejected]

\* resolve_unknown_default: the class declared at a level, the policies' first.
DeclaredAt(w, s) ==
    LET declaring == {p \in PoliciesAt(w, s, Defined(w.policies)) :
                         w.policies[p].def.unknown_default # Absent}
    IN  IF declaring # {} THEN w.policies[Min(declaring)].def.unknown_default
        ELSE w.scopes[s].def.unknown_default

UnknownDefault(w, q) ==
    LET chain  == scope_chain(w, q.scope)
        levels == {n \in DOMAIN chain : DeclaredAt(w, chain[n]) # Absent}
    IN  IF levels = {} THEN Absent ELSE DeclaredAt(w, chain[Min(levels)])

\* No usable evidence: refused evidence is reported, else a declared default applies.
Fallback(w, q, rejected, default) ==
    IF \E r \in rejected : r.code \in AuthorityRefusals
    THEN Undecided("Fenced", "evidence_fenced", rejected)
    ELSE IF rejected # {}      THEN Undecided("Stale", "evidence_stale", rejected)
    ELSE IF default = Absent   THEN Undecided("Unknown", "no_authoritative_assignment", {})
    ELSE IF ~Visible(w, default, q.scope)
                               THEN Undecided("Unknown", "default_class_unavailable", {})
    ELSE [Undecided("Assigned", "policy_declared_default", {}) EXCEPT
             !.authoritative = TRUE, !.cls = default]

\* Mutant: allow_override is ignored.
DecidingNarrowest(w, q, accepted) == Min({Level(w, q, a) : a \in accepted})

\* The narrowest non-overridable level with evidence, else the narrowest level.
DecidingLevel(w, q, accepted) ==
    LET levels == {Level(w, q, a) : a \in accepted}
        final  == {n \in levels : ~w.scopes[scope_chain(w, q.scope)[n]].def.allow_override}
    IN  IF final # {} THEN Min(final) ELSE Min(levels)

\* effective_conflict_mode: the first policy of the scope that declares one, else the scope.
ConflictMode(w, s) ==
    LET declaring == {p \in PoliciesAt(w, s, Defined(w.policies)) :
                         w.policies[p].def.conflict_resolution # Absent}
    IN  IF declaring # {} THEN w.policies[Min(declaring)].def.conflict_resolution
        ELSE w.scopes[s].def.conflict_resolution

Rank(w, a) == w.classes[w.assignments[a].def.cls].def.rank

\* The winner among contradictory assignments; none when the conflict is denied.
Resolve(w, q, mode, winning) ==
    IF q.strict \/ mode = "Deny"         THEN Absent
    ELSE IF mode = "HigherPrecedence"    THEN Min({a \in winning : \A b \in winning : Rank(w, a) >= Rank(w, b)})
    ELSE Min(winning)

\* Mutant: a contradiction needs three assignments.
ConflictOfThree(w, winning) == Cardinality(winning) > 2

Conflicting(w, winning) == Cardinality({w.assignments[a].def.cls : a \in winning}) > 1

\* The winner among the assignments of the deciding level.
Winner(w, q, level, winning) ==
    IF Conflicting(w, winning)
    THEN Resolve(w, q, ConflictMode(w, scope_chain(w, q.scope)[level]), winning)
    ELSE Min(winning)

\* The decision that names a winner and what happened to the rest of the evidence.
Award(w, evidence, winning, winner) ==
    LET conflict == Conflicting(w, winning)
        losers   == evidence.accepted \ (IF conflict THEN {winner} ELSE winning)
    IN  [outcome       |-> IF conflict                   THEN "Conflict"
                           ELSE IF losers # {}           THEN "Overridden"
                           ELSE IF evidence.distance > 0 THEN "Inherited"
                           ELSE "Assigned",
         reason        |-> IF conflict THEN "conflict" ELSE "evidence",
         authoritative |-> winner # Absent,
         cls           |-> IF winner = Absent THEN Absent ELSE w.assignments[winner].def.cls,
         winner        |-> winner,
         conflicts     |-> IF conflict THEN winning ELSE {},
         superseded    |-> losers,
         rejected      |-> evidence.rejected]

AwardAt(w, q, evidence, level) ==
    LET winning == {a \in evidence.accepted : Level(w, q, a) = level}
    IN  Award(w, evidence, winning, Winner(w, q, level, winning))

\* The decision on the evidence that is left.
Decide(w, q, evidence) ==
    IF evidence.accepted = {} THEN Fallback(w, q, evidence.rejected, UnknownDefault(w, q))
    ELSE AwardAt(w, q, evidence, DecidingLevel(w, q, evidence.accepted))

\* Whether a caller's demand for a generation is met by the effective policy.
PolicyGeneration(w, s) ==
    LET p == effective_policy(w, s) IN IF p = Absent THEN 0 ELSE w.policies[p].gen

evaluate_query(w, q) ==
    CASE q.as_of_epoch # Absent /\ q.as_of_epoch > w.epoch -> Undecided("Rejected", "epoch_from_future", {})
      [] q.as_of_epoch # Absent /\ q.as_of_epoch < w.epoch -> Undecided("Stale", "epoch_superseded", {})
      [] w.subjects[q.subject].gen = 0   -> Undecided("Rejected", "subject_not_registered", {})
      [] q.subject_generation \notin {0, w.subjects[q.subject].gen}
                                         -> Undecided("Stale", "subject_generation_superseded", {})
      [] ~ChainUsable(w, q.scope)        -> Undecided("Rejected", "scope_unusable", {})
      [] PolicyGeneration(w, q.scope) < q.require_policy_generation
                                         -> Undecided("Stale", "required_policy_generation_not_reached", {})
      [] w.scopes[q.scope].gen < q.require_scope_generation
                                         -> Undecided("Stale", "required_scope_generation_not_reached", {})
      [] Accepted(Verdicts(w, q, q.subject, 0)) = {} /\ ~AncestorsUsable(w, q.subject)
                                         -> Undecided("Rejected", "inheritance_unusable", {})
      [] OTHER -> Decide(w, q, Filtered(w, q, Collect(w, q)))

-----------------------------------------------------------------------------
(* Properties.                                                             *)

Decision(q) == evaluate_query(Now, q)

\* The assignments made for a query, from what they say and not from the index:
\* they bind a scope on its chain, and name its subject or, as kind Inherited, an
\* ancestor of it.
MadeFor(w, q) ==
    {a \in Defined(w.assignments) :
        /\ Level(w, q, a) >= 0
        /\ LET d == w.assignments[a].def
           IN  \/ d.subject = q.subject
               \/ /\ d.kind = "Inherited"
                  /\ d.subject \in Reachable(w.subjects, {q.subject})}

\* The class of a decision comes from an assignment made for the query, published by
\* an incarnation that holds authority now and under the present epoch, and bound to
\* the present generations of everything it names (SEMANTICS.md, stale versus fenced).
DecisionsRestOnLiveEvidence ==
    \A q \in Queries : \A D \in {Decision(q)} :
        LET entry == image.assignments[D.winner]
            d     == entry.def
        IN  D.winner # Absent =>
                /\ D.winner \in MadeFor(Now, q)
                /\ D.authoritative /\ D.cls = d.cls
                /\ entry.active
                /\ entry.by.incarnation \in granted
                /\ entry.by.epoch = epoch
                /\ d.subject_generation = image.subjects[d.subject].gen
                /\ d.scope_generation = image.scopes[d.scope].gen
                /\ d.class_generation = image.classes[d.cls].gen
                /\ d.policy # Absent => d.policy_generation = image.policies[d.policy].gen

\* Contradictory usable assignments of the subject at the level that decides are
\* always reported: the outcome is CONFLICT and each of them is named (SEMANTICS.md,
\* "The contradiction is always reported").
ConflictsReported ==
    \A q \in Queries : \A D \in {Decision(q)} :
        LET cls(a) == image.assignments[a].def.cls
            rivals == {a \in MadeFor(Now, q) :
                          /\ Refusal(Now, a) = "Ok"
                          /\ image.assignments[a].def.subject = image.assignments[D.winner].def.subject
                          /\ image.assignments[a].def.displaces = Absent
                          /\ image.assignments[a].def.kind # "Exception"
                          /\ Level(Now, q, a) = Level(Now, q, D.winner)}
        IN  D.winner # Absent /\ (\E a \in rivals : cls(a) # D.cls) =>
                D.outcome = "Conflict" /\ rivals \subseteq D.conflicts

\* UNKNOWN, and a declared default in its place, are reported only when no assignment
\* at all was made for the query, not even a retired, stale or fenced one.
UnknownMeansNoEvidence ==
    \A q \in Queries : \A D \in {Decision(q)} :
        D.outcome = "Unknown" \/ D.reason = "policy_declared_default" => MadeFor(Now, q) = {}

\* A decision is a function of what the tables say: an image whose index was rebuilt
\* from a snapshot decides every query as the running one does.
DecisionIgnoresHistory ==
    \A q \in Queries :
        Decision(q) =
            evaluate_query([Now EXCEPT !.assignments_by_subject = rebuild_indexes(image.assignments)], q)

\* The decision of query q rests on the subject's own assignment in a scope that forbids
\* overriding (allow_override = FALSE), and assignment a is new in a narrower scope.
Displacing(q, a) ==
    \E winner \in {Decision(q).winner} \ {Absent} :
        LET d == image.assignments[winner].def
        IN  /\ d.subject = q.subject
            /\ ~image.scopes[d.scope].def.allow_override
            /\ Level(World(image', epoch', granted'), q, a) \in 0 .. Level(Now, q, winner) - 1

DecisionStands(q) ==
    \A D \in {Decision(q)}, D2 \in {evaluate_query(World(image', epoch', granted'), q)} :
        D2.winner = D.winner /\ D2.cls = D.cls

\* Every scope of the query's chain that is narrower than the one that decides leaves
\* allow_override on.
NarrowerYield(q) ==
    \A n \in 0 .. Level(Now, q, Decision(q).winner) - 1 :
        image.scopes[scope_chain(Now, q.scope)[n]].def.allow_override

New(a) == image.assignments[a].gen = 0 /\ image'.assignments[a].gen = 1

\* A scope with allow_override = FALSE that decides on the subject's own evidence cannot
\* be displaced by new assignments in narrower scopes when all of these leave
\* allow_override on (SEMANTICS.md, "immune to a tenant's attempt to displace it").
NarrowerCannotDisplace ==
    [][\A a \in Assignments : New(a) =>
           \A q \in Queries : Displacing(q, a) /\ NarrowerYield(q) => DecisionStands(q)]_vars

\* The same whatever the narrower scopes say (model.hpp, "when false, a descendant scope
\* may not displace this one").  It does not hold: a narrower scope that itself forbids
\* overriding is the narrowest such scope, and decides once it has evidence.
DescendantCannotDisplace ==
    [][\A a \in Assignments : New(a) => \A q \in Queries : Displacing(q, a) => DecisionStands(q)]_vars

\* Evidence bound to a superseded definition stays refused until it is published again,
\* even if the definition is changed back ("a superseded definition can never silently
\* authorize a decision").
StaleIsFinal ==
    [][\A a \in Defined(image.assignments) :
           LET d == image.assignments[a].def
           IN  (/\ image'.assignments[a] = image.assignments[a]
                /\ \/ ~image.assignments[a].active
                   \/ d.subject_generation # image.subjects[d.subject].gen
                   \/ d.scope_generation # image.scopes[d.scope].gen
                   \/ d.class_generation # image.classes[d.cls].gen
                   \/ d.policy # Absent /\ d.policy_generation # image.policies[d.policy].gen)
               => Refusal(World(image', epoch', granted'), a) # "Ok"]_vars

\* Publishing identical content again never invalidates evidence: when no definition
\* changes what it says and no grant is lost, usable assignments stay usable.
RepublicationHarmless ==
    [][(/\ granted \subseteq granted' /\ epoch' = epoch
        /\ \A t \in Tables : \A x \in DOMAIN image[t] :
               Meaning(t, image'[t][x]) = Meaning(t, image[t][x]))
       => \A a \in Defined(image.assignments) :
              Refusal(World(image, epoch, granted), a) = "Ok" =>
                  Refusal(World(image', epoch', granted'), a) = "Ok"]_vars

\* Violated: an Exception or Override applies only when a strictly broader assignment
\* that itself applies offers the class it displaces (SEMANTICS.md, assignment kinds).
DisplacesWhatApplies ==
    \A q \in Queries : \A D \in {Decision(q)} :
        LET d == image.assignments[D.winner].def
        IN  D.winner # Absent /\ d.displaces # Absent =>
                \E a \in D.superseded : /\ Level(Now, q, a) > Level(Now, q, D.winner)
                                        /\ image.assignments[a].def.cls = d.displaces
=============================================================================
