---------------------------- MODULE MCProofJobs ----------------------------
(***************************************************************************)
(* ProofJobs for TLC: three clients, so two jobs can race for the prover   *)
(* while a third is dispatched or polled, and three job ids, so that every *)
(* client can be given a distinct id (or, with collisions, a shared one).  *)
(***************************************************************************)
EXTENDS ProofJobsRefinement, TLC

CONSTANTS c1, c2, c3, i1, i2, i3

MCClients == {c1, c2, c3}
MCIds == {i1, i2, i3}

\* Two clients for the liveness run, where symmetry is not used.
MCClients2 == {c1, c2}
MCIds2 == {i1, i2}

\* Clients are interchangeable, and so are ids.
Symmetry == Permutations(MCClients) \cup Permutations(MCIds)

=============================================================================
