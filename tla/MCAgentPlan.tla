----------------------------- MODULE MCAgentPlan -----------------------------
(* One server and one reader over a small session directory. *)
EXTENDS AgentPlan, TLC

CONSTANTS w1, s1, s2, i0, near, far

SlotOf == s1 :> near @@ s2 :> near

Symmetry == Permutations(Sessions)
=============================================================================
