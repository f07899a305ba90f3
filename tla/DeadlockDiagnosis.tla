--------------------------- MODULE DeadlockDiagnosis ---------------------------
(***************************************************************************)
(* The two ways to confirm that two code paths of a revision formed a      *)
(* PostgreSQL deadlock in an incident: the dedicated chain of projections  *)
(* and the X-Ray profile.  Both read documents: the static contract and    *)
(* the runtime facts of ConcreteFacts; canonical evidence                  *)
(*   [incident, instances], of instances [observation, state, active];     *)
(* and the correlation that the deadlock laboratory publishes              *)
(*   [revision, incident, participants, edges, victim],                    *)
(* of participants [pid, execution, trace, symbol, transaction, order,     *)
(* outcome] and edges [waiter, blocker, waiterExecution, blockerExecution, *)
(* resource].  An instance is active when it covers the time asked for and *)
(* the boundary of the database.                                           *)
(***************************************************************************)
EXTENDS ConcreteFacts, XRayEngine

LockWait == "lock_wait_time"
DeadlockError == "deadlock_error"

Paths(precondition) == {precondition.left.path, precondition.right.path}

MatchingOverlaps(precondition, runtime) ==
  {o \in runtime.overlaps : o.symbols = Paths(precondition)}

RiskState(static, runtime) ==
  LET structural == Preconditions(static.orders)
  IN IF structural = {} THEN "UNKNOWN"
     ELSE IF \E p \in structural : MatchingOverlaps(p, runtime) # {} THEN "RISK_DETECTED"
     ELSE "PRECONDITIONS_PRESENT"

XRayIsValid(static, runtime) ==
  DocumentIsValid(runtime) /\ runtime.revision = static.revision

-----------------------------------------------------------------------------
Shows(canonicals, observation, state) ==
  \E c \in canonicals : \E i \in c.instances :
    i.observation = observation /\ i.state = state /\ i.active

DatabaseIsValid(runtime, canonicals) ==
  /\ \A c \in canonicals : c.incident = runtime.incident
  /\ \A o \in {LockWait, DeadlockError} :
       ~(Shows(canonicals, o, "observed") /\ Shows(canonicals, o, "absent"))

\* The projection the confirmation starts from, or Missing.
DatabaseProjection(static, runtime, canonicals) ==
  IF ~XRayIsValid(static, runtime) \/ ~DatabaseIsValid(runtime, canonicals) THEN Missing
  ELSE [revision |-> static.revision, incident |-> runtime.incident,
        preconditions |-> Preconditions(static.orders),
        state |-> CASE Shows(canonicals, DeadlockError, "observed") -> "EVENT_OBSERVED"
                    [] ~Shows(canonicals, DeadlockError, "observed")
                       /\ Shows(canonicals, LockWait, "observed") -> "CONTENTION_OBSERVED"
                    [] OTHER -> RiskState(static, runtime)]

-----------------------------------------------------------------------------
\* Mutant: documents of another incident are taken as well.
RequireSameRevision(static, runtime, projection, correlation) ==
  \A d \in {runtime, projection, correlation} : d.revision = static.revision

RequireSameIdentity(static, runtime, projection, correlation) ==
  \A d \in {runtime, projection, correlation} :
    d.revision = static.revision /\ d.incident = runtime.incident

RuntimeBindings(runtime, correlation) ==
  /\ \A p \in correlation.participants : \E e \in runtime.executions :
       p.execution = e.id /\ p.trace = e.trace /\ p.symbol = e.symbol
  /\ \A p, q \in correlation.participants : p.symbol = q.symbol => p = q

\* Exactly one precondition of the projection is about the correlated paths,
\* and either side of it agrees with the participant that ran it.
MatchingPrecondition(projection, correlation) ==
  LET candidates == {c \in projection.preconditions :
                       Paths(c) = {p.symbol : p \in correlation.participants}}
  IN /\ Cardinality(candidates) = 1
     /\ \A c \in candidates, p \in correlation.participants :
          LET side == IF p.symbol = c.left.path THEN c.left ELSE c.right
          IN p.transaction = side.transaction /\ p.order = <<side.subject, side.object>>

VerifyWaitCycle(correlation) ==
  LET pids == {p.pid : p \in correlation.participants}
      Of(pid) == CHOOSE p \in correlation.participants : p.pid = pid
  IN /\ Cardinality(pids) = 2
     /\ \A e \in correlation.edges :
          /\ {e.waiter, e.blocker} = pids
          /\ e.waiterExecution = Of(e.waiter).execution
          /\ e.blockerExecution = Of(e.blocker).execution
          /\ e.resource = Of(e.waiter).order[2]
     /\ \A l, r \in pids : l # r => \E e \in correlation.edges : e.waiter = l /\ e.blocker = r

VerifyDeadlockEvent(correlation) ==
  \E p \in correlation.participants :
    /\ p.pid = correlation.victim.pid
    /\ p.execution = correlation.victim.execution
    /\ p.outcome = "deadlock_aborted"

\* The dedicated confirmation.
Confirms(static, runtime, projection, correlation) ==
  /\ DocumentIsValid(runtime)
  /\ projection # Missing
  /\ projection.state = "EVENT_OBSERVED"
  /\ RequireSameIdentity(static, runtime, projection, correlation)
  /\ RuntimeBindings(runtime, correlation)
  /\ MatchingPrecondition(projection, correlation)
  /\ VerifyWaitCycle(correlation)
  /\ VerifyDeadlockEvent(correlation)

-----------------------------------------------------------------------------
\* The profile: pairs of opposing orders, their overlap, a lock wait, a deadlock
\* error, and the exact cycle; only the static contract has to be supplied.
StaticPairs(static) ==
  LET orders == {static.orders[i] : i \in DOMAIN static.orders}
      left == Clause({NoBinding}, orders, LAMBDA s, o : TRUE,
                LAMBDA o : [factLeft |-> o.id, a |-> o.subject, b |-> o.object,
                            codeLeft |-> o.path, txLeft |-> o.transaction])
      both == Clause(left, orders, LAMBDA s, o : o.subject = s.b /\ o.object = s.a,
                LAMBDA o : [factRight |-> o.id, codeRight |-> o.path, txRight |-> o.transaction])
  IN Constrained(both, LAMBDA s : s.factLeft < s.factRight /\ s.codeLeft # s.codeRight)

OverlappingPairs(pairs, runtime) ==
  Constrained(Clause(pairs, RowsOf(runtime, LAMBDA d : d.overlaps), LAMBDA s, o : TRUE,
                     LAMBDA o : [overlap |-> o.symbols]),
              LAMBDA s : s.overlap = {s.codeLeft, s.codeRight})

Reported(pairs, canonical, observation) ==
  Requires(pairs, RowsOf(canonical, LAMBDA d : d.instances),
           LAMBDA s, i : i.observation = observation /\ i.state = "observed")

BoundExecutions(pairs, runtime) ==
  LET executions == RowsOf(runtime, LAMBDA d : d.executions)
      left == Clause(pairs, executions, LAMBDA s, e : e.symbol = s.codeLeft,
                     LAMBDA e : [left |-> e.id, traceLeft |-> e.trace])
  IN Clause(left, executions, LAMBDA s, e : e.symbol = s.codeRight,
            LAMBDA e : [right |-> e.id, traceRight |-> e.trace])

BoundBackends(pairs, correlation) ==
  LET participants == RowsOf(correlation, LAMBDA d : d.participants)
      left == Clause(pairs, participants,
                LAMBDA s, p : /\ p.execution = s.left /\ p.trace = s.traceLeft
                              /\ p.symbol = s.codeLeft /\ p.transaction = s.txLeft
                              /\ p.order = <<s.a, s.b>>,
                LAMBDA p : [pidLeft |-> p.pid])
  IN Clause(left, participants,
            LAMBDA s, p : /\ p.execution = s.right /\ p.trace = s.traceRight
                          /\ p.symbol = s.codeRight /\ p.transaction = s.txRight
                          /\ p.order = <<s.b, s.a>>,
            LAMBDA p : [pidRight |-> p.pid])

ExactCycles(pairs, correlation) ==
  LET edges == RowsOf(correlation, LAMBDA d : d.edges)
      participants == RowsOf(correlation, LAMBDA d : d.participants)
      there == Requires(pairs, edges,
                 LAMBDA s, e : /\ e.waiter = s.pidLeft /\ e.blocker = s.pidRight
                               /\ e.waiterExecution = s.left /\ e.blockerExecution = s.right
                               /\ e.resource = s.b)
      back == Requires(there, edges,
                LAMBDA s, e : /\ e.waiter = s.pidRight /\ e.blocker = s.pidLeft
                              /\ e.waiterExecution = s.right /\ e.blockerExecution = s.left
                              /\ e.resource = s.a)
      victims == Clause(back, RowsOf(correlation, LAMBDA d : {d.victim}),
                   LAMBDA s, v : v.execution \in {s.left, s.right},
                   LAMBDA v : [victim |-> v.execution, victimPid |-> v.pid])
      aborted == Requires(victims, participants,
                   LAMBDA s, p : /\ p.execution = s.victim /\ p.pid = s.victimPid
                                 /\ p.outcome = "deadlock_aborted")
      apart == Constrained(aborted, LAMBDA s : s.left # s.right /\ s.pidLeft # s.pidRight)
  IN Counted(Counted(apart, participants, LAMBDA s, p : TRUE, 2, 2),
             edges, LAMBDA s, e : TRUE, 2, Cardinality(edges))

FieldOf(document, Field(_)) == IF document = Missing THEN Missing ELSE Field(document)

DeadlockProfile(static, runtime, canonical, correlation) ==
  LET risky == StaticPairs(static)
      met == OverlappingPairs(risky, runtime)
      waited == Reported(met, canonical, LockWait)
      raised == Reported(waited, canonical, DeadlockError)
      exact == ExactCycles(BoundBackends(BoundExecutions(raised, runtime), correlation), correlation)
  IN IF /\ SameIdentity({static.revision} \cup
                        {FieldOf(d, LAMBDA x : x.revision) : d \in {runtime, correlation}})
        /\ SameIdentity({FieldOf(d, LAMBDA x : x.incident) : d \in {runtime, canonical, correlation}})
     THEN EpistemicState(<<<<"PRECONDITIONS_PRESENT", risky>>, <<"RISK_DETECTED", met>>,
                           <<"CONTENTION_OBSERVED", waited>>, <<"EVENT_OBSERVED", raised>>,
                           <<"CAUSAL_DIAGNOSIS_CONFIRMED", exact>>>>)
     ELSE "REFUSED"
=============================================================================
