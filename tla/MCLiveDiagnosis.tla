-------------------------- MODULE MCLiveDiagnosis --------------------------
(* Two exact scopes of one topic for TLC. *)
EXTENDS LiveDiagnosis

Instance(id, key, state, observed, expires) ==
  [id |-> id, key |-> key, topic |-> "latency", state |-> state,
   observed |-> observed, expires |-> expires]

Early == Instance(1, "boundary", "observed", 0, 1)
Replayed == Instance(1, "boundary", "absent", 0, 1)
Late == Instance(2, "boundary", "observed", 1, 3)
Opposite == Instance(3, "entities", "absent", 1, 3)

FourSpans == {Early, Replayed, Late, Opposite}
FourRequests == {<<Early>>, <<Late>>, <<Replayed, Opposite>>, <<Opposite>>}
=============================================================================
