-------------------------- MODULE MCProbeWorkflow --------------------------
(* A small session directory for TLC. *)
EXTENDS ProbeWorkflow, TLC

CONSTANTS w1, w2, s1, s2, i0, near

\* Two sessions compete for one target and scope.
TwoNear == s1 :> near @@ s2 :> near

\* Servers are alike, and so are the sessions of one target and scope.
Symmetry == Permutations(Servers) \cup Permutations(Sessions)
=============================================================================
