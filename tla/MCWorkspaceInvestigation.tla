---------------------- MODULE MCWorkspaceInvestigation ----------------------
(***************************************************************************)
(* Two symptoms, 1 and 2, each explained by two hypotheses, and a read-    *)
(* only probe for each; the traces of symptom 1 used two resources.  The   *)
(* probes 22 and 23 are equally good; so are the sets of the scopes 1 and  *)
(* 2, which name db1.  The scope 3 names no resource, and the evidence     *)
(* read for it goes to the scopes 4 and 5.                                 *)
(***************************************************************************)
EXTENDS WorkspaceInvestigation

MCObservations == 1 .. 6

Edge(s, t, strength) ==
  [source |-> s, target |-> t, strength |-> strength, provenance |-> 0,
   contributes |-> FALSE]

MCEdges ==
  << Edge(3, 1, 1), Edge(4, 1, 1), Edge(5, 2, 1), Edge(6, 2, 1),
     Edge(11, 3, 1), Edge(12, 4, 1), Edge(13, 5, 1), Edge(14, 6, 1) >>

Hypothesis(tested_by) ==
  [predictions |-> <<>>, falsifiers |-> {}, tested_by |-> tested_by]

MCHypotheses ==
  11 :> Hypothesis({21}) @@ 12 :> Hypothesis({21}) @@
  13 :> Hypothesis({22, 23}) @@ 14 :> Hypothesis({22, 23})

MCProbes ==
  21 :> [produces |-> {3, 4}, risk |-> 0] @@
  22 :> [produces |-> {5}, risk |-> 0] @@
  23 :> [produces |-> {6}, risk |-> 0]

Instrument(target, scope, maps, positive_only) ==
  [target |-> target, scope |-> scope, maps |-> maps, positive_only |-> positive_only]

MCInstruments ==
  31 :> Instrument("db1", 1, 21 :> {3}, TRUE) @@
  32 :> Instrument("db2", 3, 21 :> {4}, FALSE) @@
  33 :> Instrument("db1", 1, 21 :> {3, 4} @@ 22 :> {5} @@ 23 :> {6}, FALSE) @@
  34 :> Instrument("db1", 2, 21 :> {3, 4}, FALSE) @@
  35 :> Instrument("db1", 3, 21 :> {3, 4}, TRUE)

MCBound ==
  << "db1" :> 1 @@ "db2" :> 0, "db1" :> 2 @@ "db2" :> 0, "db1" :> 4 @@ "db2" :> 5,
     "db1" :> 4 @@ "db2" :> 0, "db1" :> 0 @@ "db2" :> 5 >>

Symptom(o, s, uses) ==
  [id |-> <<0, o, s>>, observation |-> o, scope |-> s, state |-> "observed",
   at |-> 0, until |-> 1, uses |-> uses]

MCSeeds ==
  {{Symptom(1, 3, {"db1", "db2"})}, {Symptom(1, 3, {"db1"})},
   {Symptom(1, 1, {"db1"}), Symptom(2, 1, {"db1"})}, {Symptom(2, 1, {"db1"})},
   {Symptom(1, 1, {"db1"}), Symptom(1, 2, {"db1"})}}

\* Another tool reports a symptom, or the absence of an open observation.
MCOthers ==
  {{Symptom(2, 1, {"db1"})}, {[Symptom(5, 1, {}) EXCEPT !.state = "absent"]}}
=============================================================================
