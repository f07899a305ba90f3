------------------------ MODULE MCRecommendationSession ------------------------
(* Two agents on one candidate for TLC. *)
EXTENDS RecommendationSession, TLC

CONSTANTS a1, a2, semantics, plan, trial

Gaps == <<semantics, plan>>

Context(evidence, missing, basis, better, ref) ==
  [evidence |-> evidence, missing |-> missing, basis |-> basis,
   better |-> better, ref |-> ref]

\* Stale evidence; a benefit measured before its questions were answered; then
\* no benefit yet, a benchmark, a measured benefit, and a measured failure.
EveryMaturity ==
  {Context(FALSE, {plan}, "none", FALSE, NoRef),
   Context(TRUE, {semantics, plan}, "measured", TRUE, trial),
   Context(TRUE, {}, "none", FALSE, NoRef),
   Context(TRUE, {}, "benchmark", TRUE, NoRef),
   Context(TRUE, {}, "measured", TRUE, trial),
   Context(TRUE, {}, "measured", FALSE, trial)}

Symmetry == Permutations(Agents)
=============================================================================
