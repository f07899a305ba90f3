--------------------------- MODULE MCInvestigations ---------------------------
(***************************************************************************)
(* A catalogue with two hypotheses, 11 and 12, that explain the symptom 1  *)
(* through the observations 2 and 3; the absence of 4 falsifies 11.        *)
(***************************************************************************)
EXTENDS Investigations

MCObservations == 1 .. 4

Edge(s, t, strength, provenance) ==
  [source |-> s, target |-> t, strength |-> strength, provenance |-> provenance,
   contributes |-> FALSE]

MCEdges == << Edge(2, 1, 2, 1), Edge(3, 1, 1, 1), Edge(11, 2, 2, 0), Edge(12, 3, 2, 0) >>

MCHypotheses ==
  11 :> [predictions |-> (2 :> 2), falsifiers |-> {4}, tested_by |-> {21, 22}] @@
  12 :> [predictions |-> (3 :> 1), falsifiers |-> {}, tested_by |-> {21, 24}]

MCProbes ==
  21 :> [produces |-> {2}, risk |-> 0] @@
  22 :> [produces |-> {4}, risk |-> 0] @@
  23 :> [produces |-> {1}, risk |-> 0] @@
  24 :> [produces |-> {3}, risk |-> 0]

MCInstrument == 21 :> "health" @@ 22 :> "prometheus" @@ 23 :> "prometheus" @@ 24 :> "pgbot"
MCLifetime == 21 :> 0 @@ 22 :> 1 @@ 23 :> 1 @@ 24 :> 1

Fact(o, s, state, until) ==
  [id |-> <<0, o, s, 0>>, observation |-> o, scope |-> s, state |-> state,
   at |-> 0, until |-> until]

\* The symptom in the first scope, known until time 2; in the second one it is
\* known to be absent.
MCSeeds == {{Fact(1, 1, "observed", 2), Fact(1, 2, "absent", MaxTime + 1)}}

\* Nothing is read in the second scope; 2 never holds.
MCVarying == {1, 3, 4} \X {1}

MCCriteria == {<<4>>, <<1, 4>>}
=============================================================================
