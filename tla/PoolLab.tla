-------------------------------- MODULE PoolLab --------------------------------
(***************************************************************************)
(* The laboratories about connections.  In the first a request waits for   *)
(* the only connection of an application's pool while another request      *)
(* holds it: once as an experiment of several rounds, once with a traced   *)
(* request whose execution is bound to the static contract of the pool.    *)
(* In the second the server itself has no session left to give.            *)
(* Measurements are slow or not; a checkout is slow when it queues behind  *)
(* the holder for long, and a query when the database is.  Delays of the   *)
(* host itself are left out.                                               *)
(***************************************************************************)
EXTENDS ConcreteFacts, XRayEngine

CONSTANTS
  Deployments,    \* what the traced probe may be pointed at
  PoolDocs,       \* runtime facts of other requests
  PoolIncident, Handler, AppPool,
  Rounds,         \* interventions of the experiment
  Slots,          \* numbers of sessions the server may have for ordinary users
  MaxAttempts,    \* sessions the admission probe tries to open
  MaxFailures     \* requests and connections that fail

ASSUME SomeSlots == Slots \subseteq Nat \ {0} /\ MaxAttempts \in Nat /\ Rounds \in Nat \ {0}

VARIABLES
  poolAt, slot, isHolding, holder,
  asked,          \* the work request: "no", "queued" behind the holder, "free"
  status,         \* what the status said of the busy connections, or Missing
  control, samples, deployment, poolEvidence,
  slots, admAt, held, closing, attempted, rejection, readmitted, wasFull,
  failures

appVars == <<poolAt, slot, isHolding, holder, asked, status, control, samples,
             deployment, poolEvidence>>
admVars == <<slots, admAt, held, closing, attempted, rejection, readmitted, wasFull>>
poolVars == <<appVars, admVars, failures>>

-----------------------------------------------------------------------------
\* The static contract: a deployment [revision, bound, uses, capacity, depends,
\* postgres] is what the extractor finds in the source and in the composition.
PoolContract(d) ==
  IF d.bound /\ d.uses /\ d.capacity >= 1 /\ d.depends /\ d.postgres
  THEN [revision |-> d.revision, symbol |-> Handler, pool |-> AppPool, capacity |-> d.capacity]
  ELSE Missing

IsTraced == deployment # Missing
Wanted == IF IsTraced THEN 1 ELSE Rounds

\* The handlers of the application.
Acquires ==
  /\ holder = "asking" /\ slot = "free"
  /\ slot' = "hold" /\ holder' = "acquired"
  /\ UNCHANGED <<poolAt, isHolding, asked, status, control, samples, deployment, poolEvidence>>

Holds ==
  /\ holder \in {"acquired", "sleeping"}
  /\ isHolding' = (holder = "acquired")
  /\ holder' = IF holder = "acquired" THEN "sleeping" ELSE "leaving"
  /\ UNCHANGED <<poolAt, slot, asked, status, control, samples, deployment, poolEvidence>>

Leaves ==
  /\ holder = "leaving"
  /\ slot' = "free" /\ holder' = "ended"
  /\ UNCHANGED <<poolAt, isHolding, asked, status, control, samples, deployment, poolEvidence>>

Sample(wait, query) == [wait |-> wait, query |-> query, direct |-> control, busy |-> status]

\* The work handler checks out a free connection, queries and gives it back.
Works ==
  /\ poolAt = "answer" /\ slot = "free"
  /\ \E wait \in {FALSE, asked = "queued"}, query \in BOOLEAN :
       samples' = Append(samples, Sample(wait, query))
  /\ poolAt' = "join"
  /\ UNCHANGED <<slot, isHolding, holder, asked, status, control, deployment, poolEvidence>>

-----------------------------------------------------------------------------
\* The probe.  The samples of the baseline and of the recovery queue behind
\* nobody; each of the two is summarised by whether its queries were slow.
SamplesAlone(from, to) ==
  /\ poolAt = from
  /\ \E query \in BOOLEAN : samples' = Append(samples, [query |-> query])
  /\ poolAt' = to
  /\ UNCHANGED <<slot, isHolding, holder, asked, status, control, deployment, poolEvidence>>

StartsHolder ==
  /\ poolAt = "hold"
  /\ holder' = "asking" /\ poolAt' = "watch" /\ asked' = "no"
  /\ UNCHANGED <<slot, isHolding, status, control, samples, deployment, poolEvidence>>

\* The status looks twice at the event and may see it set only at the second look.
WatchesHolder ==
  /\ poolAt = "watch" /\ isHolding
  /\ status' \in {0, 1}
  /\ poolAt' = "control"
  /\ UNCHANGED <<slot, isHolding, holder, asked, control, samples, deployment, poolEvidence>>

ConnectsDirectly ==
  /\ poolAt = "control"
  /\ control' \in BOOLEAN
  /\ poolAt' = "ask"
  /\ UNCHANGED <<slot, isHolding, holder, asked, status, samples, deployment, poolEvidence>>

AsksForWork ==
  /\ poolAt = "ask"
  /\ asked' = IF slot = "free" THEN "free" ELSE "queued"
  /\ poolAt' = "answer"
  /\ UNCHANGED <<slot, isHolding, holder, status, control, samples, deployment, poolEvidence>>

JoinsHolder ==
  /\ poolAt = "join" /\ holder \in {"ended", "error"}
  /\ poolAt' = CASE holder = "error" -> "failed"
                 [] holder = "ended" /\ Len(samples) < Wanted + 1 -> "hold"
                 [] OTHER -> "recovery"
  /\ UNCHANGED <<slot, isHolding, holder, asked, status, control, samples, deployment, poolEvidence>>

\* The deadlines of the holder's status, of its thread and of the requests.
GivesUp ==
  /\ \/ poolAt \in {"watch", "answer"}
     \/ poolAt = "join" /\ holder \notin {"ended", "error"}
  /\ poolAt' = "failed"
  /\ UNCHANGED <<slot, isHolding, holder, asked, status, control, samples, deployment, poolEvidence>>

\* The holder's request fails, before it has the connection or as it answers.
HolderFails ==
  /\ failures < MaxFailures /\ holder \in {"asking", "leaving"}
  /\ failures' = failures + 1
  /\ holder' = "error"
  /\ slot' = IF holder = "leaving" THEN "free" ELSE slot
  /\ UNCHANGED <<poolAt, isHolding, asked, status, control, samples, deployment, poolEvidence>>

-----------------------------------------------------------------------------
Before == samples[1]
Recovery(all) == all[Len(all)]
During == {i \in DOMAIN samples : i \in 2 .. Wanted + 1}

\* The median over the rounds.
Mostly(rounds, Holds_(_)) == 2 * Cardinality({i \in rounds : Holds_(samples[i])}) > Cardinality(rounds)

Assertions(all) ==
  LET waited == Mostly(During, LAMBDA s : s.wait)
      queried == Mostly(During, LAMBDA s : s.query)
      slow == Mostly(During, LAMBDA s : s.wait \/ s.query)
  IN [capacity |-> Mostly(During, LAMBDA s : s.busy = 1),
      wait |-> waited,
      request |-> slow /\ ~Before.query,
      query |-> queried = Before.query,
      direct |-> Mostly(During, LAMBDA s : ~s.direct),
      explains |-> (slow /\ ~Before.query) = waited /\ queried = Before.query,
      recovered |-> Recovery(all).query = Before.query]

PoolEvidence(all) ==
  [revision |-> IF IsTraced THEN deployment.revision ELSE Missing, incident |-> PoolIncident,
   symbol |-> Handler, trace |-> "traced", pool |-> AppPool,
   observed |-> IF IsTraced THEN deployment.capacity ELSE 1,
   busy |-> samples[2].busy, asserts |-> Assertions(all)]

Recovers ==
  /\ poolAt = "recovery"
  /\ \E query \in BOOLEAN :
       /\ samples' = Append(samples, [query |-> query])
       /\ poolEvidence' = PoolEvidence(samples')
  /\ poolAt' = "done"
  /\ UNCHANGED <<slot, isHolding, holder, asked, status, control, deployment>>

\* The runtime facts of the traced request, whose checkout is an event in it.
TracedSpan ==
  LET wait == IF samples[2].wait THEN 2 ELSE 0
  IN [symbol |-> Handler, revision |-> deployment.revision, trace |-> "traced",
      start |-> 0, end |-> 4,
      events |-> <<[pool |-> AppPool, contract |-> AppPool, wait |-> wait, at |-> wait]>>]

PoolStatic ==
  [revision |-> deployment.revision, symbols |-> {Handler},
   pools |-> [p \in {AppPool} |-> p], orders |-> <<>>]

TracedRuntime == Batch(PoolStatic, PoolIncident, <<TracedSpan>>)

\* Mutant: the profile does not ask for the wait.
AnyAssertion(asserts) == TRUE

WaitObserved(asserts) == asserts.wait /\ asserts.request

\* The profile, stage by stage, over the rows of the pool's document.  The
\* sessions of the pool and of the control have always different backends.
AtRisk(contract) ==
  Clause({NoBinding}, RowsOf(contract, LAMBDA d : {d}), LAMBDA s, d : TRUE,
         LAMBDA d : [pool |-> d.pool, symbol |-> d.symbol, capacity |-> d.capacity])

RanOn(risky, runtime) ==
  Requires(Clause(risky, runtime.executions, LAMBDA s, e : e.symbol = s.symbol,
                  LAMBDA e : [execution |-> e.id, trace |-> e.trace]),
           runtime.interactions,
           LAMBDA s, i : /\ i.execution = s.execution /\ i.symbol = s.symbol
                         /\ i.pool = s.pool /\ i.trace = s.trace)

Measured(ran, sources) ==
  Constrained(
    Clause(ran, sources,
           LAMBDA s, d : d.symbol = s.symbol /\ d.trace = s.trace /\ d.pool = s.pool,
           LAMBDA d : [observed |-> d.observed]),
    LAMBDA s : s.capacity = s.observed)

Saturated(joined, sources) ==
  Requires(joined, sources, LAMBDA s, d : d.asserts.capacity /\ d.busy = s.observed)

Waiting(full, sources) == Requires(full, sources, LAMBDA s, d : WaitObserved(d.asserts))

Distinguished(waited, sources) ==
  Requires(waited, sources, LAMBDA s, d : d.asserts.query /\ d.asserts.direct)

Explained(alone, sources) ==
  Requires(alone, sources, LAMBDA s, d : d.asserts.explains /\ d.asserts.recovered)

PoolProfile(contract, runtime, pool) ==
  LET sources == RowsOf(pool, LAMBDA d : {d})
      risky == AtRisk(contract)
      joined == Measured(RanOn(risky, runtime), sources)
      full == Saturated(joined, sources)
      waited == Waiting(full, sources)
      alone == Distinguished(waited, sources)
  IN IF /\ SameIdentity({contract.revision, runtime.revision, pool.revision})
        /\ SameIdentity({runtime.incident, pool.incident})
     THEN EpistemicState(<<<<"PRECONDITIONS_PRESENT", risky>>,
                           <<"RUNTIME_EXECUTION_OBSERVED", joined>>,
                           <<"POOL_SATURATED", full>>, <<"CHECKOUT_WAIT_OBSERVED", waited>>,
                           <<"DATABASE_CAPACITY_DISTINGUISHED", alone>>,
                           <<"CAUSAL_DIAGNOSIS_CONFIRMED", Explained(alone, sources)>>>>)
     ELSE "REFUSED"

PoolConfirmedBy(runtime) ==
  PoolContract(deployment) # Missing
  /\ PoolProfile(PoolContract(deployment), runtime, poolEvidence) = "CAUSAL_DIAGNOSIS_CONFIRMED"

\* The experiment's own conclusion.
PoolSupports == \A a \in DOMAIN poolEvidence.asserts : poolEvidence.asserts[a]
-----------------------------------------------------------------------------
\* The server.  The session of a client that closed stays until its backend
\* exits; the administrator's session is not among the ordinary ones.
HasSlot == held + closing < slots

Exits ==
  /\ closing > 0
  /\ closing' = closing - 1
  /\ UNCHANGED <<slots, admAt, held, attempted, rejection, readmitted, wasFull>>

OpensOnce ==
  /\ admAt = "baseline"
  /\ closing' = 1
  /\ admAt' = "fill"
  /\ UNCHANGED <<slots, held, attempted, rejection, readmitted, wasFull>>

ClassifyCapacityRejection(error) == error = "capacity"

Fills ==
  /\ admAt = "fill" /\ attempted < MaxAttempts
  /\ attempted' = attempted + 1
  /\ IF HasSlot THEN held' = held + 1 /\ UNCHANGED <<admAt, rejection, wasFull>>
     ELSE rejection' = "capacity" /\ admAt' = "release" /\ wasFull' = TRUE /\ UNCHANGED held
  /\ UNCHANGED <<slots, closing, readmitted>>

StopsFilling ==
  /\ admAt = "fill" /\ attempted = MaxAttempts
  /\ admAt' = "release"
  /\ UNCHANGED <<slots, held, closing, attempted, rejection, readmitted, wasFull>>

Releases ==
  /\ admAt = "release"
  /\ IF held > 0 THEN held' = held - 1 /\ closing' = closing + 1
     ELSE UNCHANGED <<slots, held, closing>>
  /\ admAt' = "retry"
  /\ UNCHANGED <<slots, attempted, rejection, readmitted, wasFull>>

Retries ==
  /\ admAt = "retry"
  /\ readmitted' = HasSlot
  /\ admAt' = "done"
  /\ UNCHANGED <<slots, held, closing, attempted, rejection, wasFull>>

\* A connection fails for another reason: the baseline's ends the probe.
ConnectionFails ==
  /\ admAt \in {"baseline", "fill", "retry"} /\ failures < MaxFailures
  /\ failures' = failures + 1
  /\ CASE admAt = "baseline" -> admAt' = "failed" /\ UNCHANGED <<rejection, readmitted>>
       [] admAt = "fill" -> admAt' = "release" /\ rejection' = "other" /\ UNCHANGED readmitted
       [] admAt = "retry" -> admAt' = "done" /\ readmitted' = FALSE /\ UNCHANGED rejection
  /\ UNCHANGED <<slots, held, closing, attempted, wasFull>>

AdmissionSupports ==
  /\ admAt = "done" /\ readmitted
  /\ ClassifyCapacityRejection(rejection)

-----------------------------------------------------------------------------
PoolHandlers == Acquires \/ Holds \/ Leaves

PoolProbe ==
  \/ SamplesAlone("baseline", "hold") \/ StartsHolder \/ WatchesHolder \/ ConnectsDirectly
  \/ AsksForWork \/ Works \/ JoinsHolder \/ GivesUp \/ Recovers

AdmissionProbe == OpensOnce \/ Fills \/ StopsFilling \/ Releases \/ Retries

PoolNext ==
  \/ (PoolHandlers \/ PoolProbe) /\ UNCHANGED <<admVars, failures>>
  \/ HolderFails /\ UNCHANGED admVars
  \/ (AdmissionProbe \/ Exits) /\ UNCHANGED <<appVars, failures>>
  \/ ConnectionFails /\ UNCHANGED appVars

PoolInit(which) ==
  /\ poolAt = IF which \in {"pool", "traced"} THEN "baseline" ELSE "off"
  /\ IF which = "traced" THEN deployment \in Deployments ELSE deployment = Missing
  /\ slot = "free" /\ isHolding = FALSE /\ holder = "none" /\ asked = "no"
  /\ status = Missing /\ control = FALSE /\ samples = <<>> /\ poolEvidence = Missing
  /\ slots \in IF which = "admission" THEN Slots ELSE {0}
  /\ admAt = IF which = "admission" THEN "baseline" ELSE "off"
  /\ held = 0 /\ closing = 0 /\ attempted = 0 /\ rejection = "none"
  /\ readmitted = FALSE /\ wasFull = FALSE /\ failures = 0
=============================================================================
