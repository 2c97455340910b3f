---------------------------- MODULE MCAuthority ----------------------------
(* Small instances of Authority for TLC. *)
EXTENDS Authority, TLC

\* Publisher and boot ids are only compared for equality.
Symmetry == Permutations(Publishers) \cup Permutations(Boots)

\* No action reads `reply'; `degraded' is only read while running, and `acceptNew' only
\* while running with a publisher still unknown.  States that agree on the rest have the
\* same futures.
View == <<image, durable, unreadable, prefix, running, snapshot, issued,
          running /\ degraded,
          running /\ acceptNew /\ \E p \in Publishers : KnownBoots(image, p) = {}>>
=============================================================================
