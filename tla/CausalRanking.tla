---------------------------- MODULE CausalRanking ----------------------------
(***************************************************************************)
(* The causal projection and ranking (causal_projection, causal_ranking):  *)
(* a breadth-first search from the observation to explain back along the   *)
(* causal edges, and a deterministic order of the hypotheses it finds;     *)
(* then the ranking of the probes that tell these hypotheses apart.        *)
(*                                                                         *)
(* Concepts are numbers, ordered as the strings of their ids are.          *)
(***************************************************************************)
EXTENDS Integers, Sequences, FiniteSets, SequencesExt, FiniteSetsExt, TLC

CONSTANTS
  Observations,  \* observation concepts
  Edges,         \* the causal edges, sorted by source, relation and id
  Hypotheses,    \* what the catalogue says of each hypothesis concept
  Probes         \* what it says of each probe concept

Strengths == 0 .. 2     \* weak, moderate, strong
Provenances == 0 .. 2   \* none, claim, experiment
Risks == 0 .. 3         \* read_only, low, state_changing, high

ASSUME CatalogueAssumption ==
  /\ \A i \in DOMAIN Edges :
       Edges[i] \in [source : Nat, target : Nat, strength : Strengths,
                     provenance : Provenances, contributes : BOOLEAN]
  /\ \A i, j \in DOMAIN Edges : i < j => Edges[i].source <= Edges[j].source
  /\ \A h \in DOMAIN Hypotheses :
       /\ \A o \in DOMAIN Hypotheses[h].predictions :
            o \in Observations /\ Hypotheses[h].predictions[o] \in Strengths
       /\ Hypotheses[h].falsifiers \subseteq Observations
       /\ Hypotheses[h].tested_by \subseteq DOMAIN Probes
  /\ \A p \in DOMAIN Probes :
       /\ Probes[p].produces \subseteq Observations
       /\ Probes[p].risk \in Risks
  /\ Observations \cap DOMAIN Hypotheses = {}
  /\ Observations \subseteq Nat /\ DOMAIN Probes \subseteq Nat
  /\ IsFiniteSet(Observations) /\ IsFiniteSet(DOMAIN Hypotheses) /\ IsFiniteSet(DOMAIN Probes)

-----------------------------------------------------------------------------
(* reverse_shortest_paths *)

Incoming(node) == SelectSeq(Edges, LAMBDA e : e.target = node)

\* The head of the queue is visited: what it is reached from is queued, with
\* the edge that leads from there towards the target, unless it is known.
Visit(search, target) ==
  IF search.queue = <<>> THEN search
  ELSE FoldLeft(LAMBDA s, e :
                  IF e.source \in DOMAIN s.next \cup {target} THEN s
                  ELSE [queue |-> Append(s.queue, e.source),
                        next |-> s.next @@ (e.source :> e)],
                [search EXCEPT !.queue = Tail(@)],
                Incoming(Head(search.queue)))

\* The next step towards the target, for every antecedent of it.  An edge
\* queues at most one node, so as many visits as edges empty the queue but
\* for a node that has nothing left to add.
NextSteps(target) ==
  FoldLeft(LAMBDA search, e : Visit(search, target),
           [queue |-> <<target>>, next |-> <<>>], Edges).next

\* The edges from an antecedent to the target.
PathEdges(next, source, target) ==
  LET path[node \in DOMAIN next \cup {target}] ==
        IF node = target THEN <<>> ELSE <<next[node]>> \o path[next[node].target]
  IN path[source]

-----------------------------------------------------------------------------
(* candidate_factors and candidate_sort_key *)

Least(path, Field(_)) == Min({Field(path[i]) : i \in DOMAIN path})

\* The nodes strictly between a hypothesis and the target.
Intermediate(path) == {path[i].target : i \in 1 .. Len(path) - 1}

Conflicts(h, path, absent) ==
  (Intermediate(path) \cup Hypotheses[h].falsifiers) \cap absent

\* The target counts as observed.
PredictionMatches(h, strength, seen) ==
  LET predictions == Hypotheses[h].predictions
  IN {o \in DOMAIN predictions \cap seen : predictions[o] = strength}

SortKey(h, path, target, observed, absent) ==
  LET Matches(strength) ==
        Cardinality(PredictionMatches(h, strength, observed \cup {target}))
  IN << Cardinality(Conflicts(h, path, absent)),
        - Cardinality(Intermediate(path) \cap observed),
        - Matches(2), - Matches(1), - Matches(0),
        - Least(path, LAMBDA e : e.strength),
        - Least(path, LAMBDA e : e.provenance),
        Len(path),
        Len(SelectSeq(path, LAMBDA e : e.contributes)),
        h >>

\* Tuples compare as in Python: by the first component that differs.
Precedes(k, l) ==
  \E i \in DOMAIN k : k[i] < l[i] /\ \A j \in 1 .. i - 1 : k[j] = l[j]

\* What has a key, in the order of the keys, which differ.
InOrder(keys) ==
  [k \in 1 .. Cardinality(DOMAIN keys) |->
     CHOOSE x \in DOMAIN keys :
       Cardinality({y \in DOMAIN keys : Precedes(keys[y], keys[x])}) = k - 1]

\* rank_causes: the antecedents that are hypotheses, best first.
RankCauses(target, observed, absent) ==
  LET next == NextSteps(target)
      path == [h \in DOMAIN next \cap DOMAIN Hypotheses |-> PathEdges(next, h, target)]
      key == [h \in DOMAIN path |-> SortKey(h, path[h], target, observed, absent)]
      order == InOrder(key)
  IN [k \in DOMAIN order |->
        [hypothesis |-> order[k], between |-> Intermediate(path[order[k]])]]

-----------------------------------------------------------------------------
(***************************************************************************)
(* The probe ranking (probe_ranking): of the probes that some candidate    *)
(* cause names, those with an unresolved observation that affects two      *)
(* candidates differently, ordered by how well they tell candidates apart. *)
(* An effect is ordinal: the observation lies on the candidate's path, is  *)
(* predicted with a strength, or falsifies the candidate when absent.      *)
(***************************************************************************)

\* _candidate_effect
Effect(candidate, o) ==
  LET h == Hypotheses[candidate.hypothesis]
  IN [on_path |-> o \in candidate.between,
      strength |-> IF o \in DOMAIN h.predictions THEN h.predictions[o] ELSE -1,
      falsifier |-> o \in h.falsifiers]

ObservedSignature(effect) == <<effect.on_path, effect.strength>>

\* Mutant: only the path is looked at for an absent observation.
AbsentOnPath(effect) == effect.on_path

AbsentSignature(effect) == <<effect.on_path, effect.falsifier>>

Differ(x, y) == IF x = y THEN 0 ELSE 1

\* _contrast_components: the path counts for either outcome.
Contrast(left, right) ==
  2 * Differ(left.on_path, right.on_path)
    + Differ(left.strength, right.strength)
    + Differ(left.falsifier, right.falsifier)

\* Two candidates of a ranking, by their ranks.
Pairs(ranking) == {pair \in (DOMAIN ranking) \X (DOMAIN ranking) : pair[1] < pair[2]}

\* _analyze_observation
ObservedPairs(o, ranking) ==
  {pair \in Pairs(ranking) :
     ObservedSignature(Effect(ranking[pair[1]], o)) # ObservedSignature(Effect(ranking[pair[2]], o))}

AbsentPairs(o, ranking) ==
  {pair \in Pairs(ranking) :
     AbsentSignature(Effect(ranking[pair[1]], o)) # AbsentSignature(Effect(ranking[pair[2]], o))}

DistinguishedPairs(o, ranking) == ObservedPairs(o, ranking) \cup AbsentPairs(o, ranking)
TwoSidedPairs(o, ranking) == ObservedPairs(o, ranking) \cap AbsentPairs(o, ranking)

\* The alternatives to the top candidate among some pairs.
TopOf(pairs) == {pair \in pairs : pair[1] = 1}

\* The contrast of some pairs in some observations, summed by counting: two
\* candidates differ by at most four in one.
ContrastIn(open, ranking, pairs) ==
  Cardinality({unit \in open \X (pairs \X (1 .. 4)) :
                 LET o == unit[1]
                     pair == unit[2][1]
                 IN unit[2][2] <= Contrast(Effect(ranking[pair[1]], o),
                                           Effect(ranking[pair[2]], o))})

-----------------------------------------------------------------------------
Resolved(target, observed, absent) == observed \cup absent \cup {target}

\* The observations of a probe that are still open and tell candidates apart.
Discriminating(p, ranking, resolved) ==
  {o \in Probes[p].produces \ resolved : DistinguishedPairs(o, ranking) # {}}

\* _tested_hypotheses
TestedBy(p, ranking) ==
  {i \in DOMAIN ranking : p \in Hypotheses[ranking[i].hypothesis].tested_by}

\* _probe_sort_key without the probe's id: what a semantic choice may use.
SemanticPriority(p, ranking, resolved) ==
  LET open == Discriminating(p, ranking, resolved)
      discriminated == UNION {DistinguishedPairs(o, ranking) : o \in open}
      two_sided == UNION {TwoSidedPairs(o, ranking) : o \in open}
  IN << - Cardinality(TopOf(two_sided)),
        - ContrastIn(open, ranking, TopOf(Pairs(ranking))),
        - Cardinality(TopOf(discriminated)),
        - Cardinality(two_sided),
        - ContrastIn(open, ranking, Pairs(ranking)),
        - Cardinality(discriminated),
        Probes[p].risk,
        - Cardinality(TestedBy(p, ranking)) >>

\* rank_probes, best first, each with its priority and what its open observations
\* tell apart; one candidate alone needs no probe.
RankProbes(target, observed, absent) ==
  LET ranking == RankCauses(target, observed, absent)
      resolved == Resolved(target, observed, absent)
      named == {p \in DOMAIN Probes : TestedBy(p, ranking) # {}}
      useful == {p \in named : Discriminating(p, ranking, resolved) # {}}
      order == InOrder([p \in useful |-> Append(SemanticPriority(p, ranking, resolved), p)])
  IN IF Len(ranking) < 2 THEN <<>>
     ELSE [k \in DOMAIN order |->
             [probe |-> order[k],
              priority |-> SemanticPriority(order[k], ranking, resolved),
              analysis |-> [o \in Discriminating(order[k], ranking, resolved) |->
                              [observed |-> ObservedPairs(o, ranking),
                               absent |-> AbsentPairs(o, ranking)]]]]

-----------------------------------------------------------------------------
(***************************************************************************)
(* The evidence an incident holds and the diagnosis built from it          *)
(* (runtime_evidence, runtime_evidence_composition, live_diagnosis): which *)
(* instances compose, which are in force at an instant, and the ranked     *)
(* probes of every observed target in every scope.                         *)
(*                                                                         *)
(* Scopes are normalized scopes, numbered in the order of their keys.      *)
(***************************************************************************)
CONSTANT Scopes

ASSUME ScopesAssumption == Scopes \subseteq Nat /\ IsFiniteSet(Scopes)

States == {"observed", "absent"}

Ids(instances) == {i.id : i \in instances}

\* compose_runtime_evidence refuses two contents under one id.
Composable(instances, produced) ==
  \A i \in instances, j \in produced : i.id = j.id => i = j

\* resolve_runtime_evidence: what is in force at an instant in one scope.
Active(instances, s, now) ==
  {i \in instances : i.scope = s /\ i.at <= now /\ now < i.until}

StateOf(state, active) == {i.observation : i \in {j \in active : j.state = state}}

\* It raises when an observation is in force in both states.
Contradictory(instances, now) ==
  \E s \in Scopes :
    LET active == Active(instances, s, now)
    IN StateOf("observed", active) \cap StateOf("absent", active) # {}

\* build_diagnosis_snapshot, of evidence that is not contradictory: one
\* diagnosis for every observed target of a scope.
Snapshot(instances, now) ==
  [s \in Scopes |->
     LET active == Active(instances, s, now)
         observed == StateOf("observed", active)
         absent == StateOf("absent", active)
     IN [active |-> active, observed |-> observed, absent |-> absent,
         probes |-> [t \in observed |-> RankProbes(t, observed, absent)]]]
=============================================================================
