--------------------------- MODULE InstrumentRouting ---------------------------
(***************************************************************************)
(* From a diagnosis to the instruments that may answer it: the resources   *)
(* its evidence speaks of (runtime_target_resolution), the safe provider   *)
(* instances of each resource (instrument_router), the most informative of *)
(* them (information_gain_router), the execution set they form             *)
(* (routed_execution_sets) and the choice among the ready sets             *)
(* (execution_set_selection).                                              *)
(***************************************************************************)
EXTENDS CausalRanking

CONSTANTS
  Instruments,  \* the provider instances of the topology and their bindings
  Bound         \* the scope that names a resource besides what a scope says;
                \* 0 when the scope names another resource

ASSUME InstrumentAssumption ==
  \A i \in DOMAIN Instruments :
    /\ i \in Nat
    /\ Instruments[i].scope \in Scopes
    /\ DOMAIN Instruments[i].maps \subseteq DOMAIN Probes
    /\ \A p \in DOMAIN Instruments[i].maps :
         Instruments[i].maps[p] \subseteq Probes[p].produces
    /\ Instruments[i].positive_only \in BOOLEAN

Resources == {Instruments[i].target : i \in DOMAIN Instruments}

ASSUME BoundAssumption ==
  /\ Bound \in [Scopes -> [Resources -> Scopes \cup {0}]]
  /\ 0 \notin Scopes
  /\ \A s \in Scopes, r \in Resources :
       Bound[s][r] # 0 => \A q \in Resources :
         Bound[Bound[s][r]][q] = IF q = r THEN Bound[s][r] ELSE 0

-----------------------------------------------------------------------------
\* build_runtime_target_resolution: the resources used by the traces of what
\* observes the target; none when it is unresolved.
TargetResources(snapshot, t, s) ==
  UNION {i.uses : i \in {j \in snapshot[s].active :
                           j.observation = t /\ j.state = "observed"}}

\* InstrumentRouter._target_provider_candidates, the eligible ones.  Host
\* executors have no scope and no resource, and are never eligible here.
Eligible(p, s, resource, usable) ==
  {i \in usable : p \in DOMAIN Instruments[i].maps
                    /\ Instruments[i].scope = s /\ Instruments[i].target = resource}

\* What an instrument could settle about the candidates of a diagnosis.
Covered(i, top) == Instruments[i].maps[top.probe] \cap DOMAIN top.analysis

GainObserved(i, top) == UNION {top.analysis[o].observed : o \in Covered(i, top)}

GainAbsent(i, top) ==
  IF Instruments[i].positive_only THEN {}
  ELSE UNION {top.analysis[o].absent : o \in Covered(i, top)}

\* _gain_sort_key
GainKey(i, top) ==
  LET observed == GainObserved(i, top)
      absent == GainAbsent(i, top)
  IN << - Cardinality(TopOf(observed \cap absent)),
        - Cardinality(TopOf(observed \cup absent)),
        - Cardinality(observed \cap absent),
        - Cardinality(observed \cup absent),
        - Cardinality(Covered(i, top)),
        IF Instruments[i].positive_only THEN 1 ELSE 0,
        i >>

\* InformationGainInstrumentRouter.route: the selected instrument, if any.
Selection(top, s, resource, usable) ==
  LET informative == {i \in Eligible(top.probe, s, resource, usable) :
                        GainObserved(i, top) \cup GainAbsent(i, top) # {}}
  IN {i \in informative :
        \A j \in informative \ {i} : Precedes(GainKey(i, top), GainKey(j, top))}

-----------------------------------------------------------------------------
\* build_routed_execution_sets over the routing projection: one set for the top
\* probe of a diagnosis, with the instrument selected for each resource.
ExecutionSet(snapshot, t, s, usable) ==
  LET top == snapshot[s].probes[t][1]
  IN [target |-> t, scope |-> s, probe |-> top.probe, priority |-> top.priority,
      members |-> [resource \in TargetResources(snapshot, t, s) |->
                     Selection(top, s, resource, usable)]]

ReadySets(snapshot, usable) ==
  LET diagnoses == {d \in Observations \X Scopes :
                      d[1] \in snapshot[d[2]].observed /\ snapshot[d[2]].probes[d[1]] # <<>>}
  IN {set \in {ExecutionSet(snapshot, d[1], d[2], usable) : d \in diagnoses} :
        /\ DOMAIN set.members # {}
        /\ \A resource \in DOMAIN set.members : set.members[resource] # {}}

\* The router also refuses to route a probe that is not read-only, which ends the
\* caller; here only its set is left out, so that a caller may do more than the code's.
ReadOnlySets(snapshot, usable) ==
  {set \in ReadySets(snapshot, usable) : Probes[set.probe].risk = 0}

\* select_ready_execution_set: those no other read-only ready set is preferred
\* to.  One is selected, several are ambiguous, none blocks.
BestSets(snapshot, usable) ==
  LET ready == ReadOnlySets(snapshot, usable)
  IN {set \in ready : \A other \in ready : ~ Precedes(other.priority, set.priority)}
=============================================================================
