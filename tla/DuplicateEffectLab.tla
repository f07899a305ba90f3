-------------------------- MODULE DuplicateEffectLab --------------------------
(***************************************************************************)
(* The laboratory that charges a payment twice: a retryable job calls a    *)
(* provider that answers the first request of a payment too late, and the  *)
(* same shape with a stable idempotency key charges once.  A request is    *)
(* processed in a thread of the provider, at any time after it was sent,   *)
(* also when its caller no longer waits.  Calls 1 and 2 are the unsafe     *)
(* attempts, 3 and 4 the protected ones; a call stands for its trace and   *)
(* span identities, which are the same in every run of the laboratory.     *)
(***************************************************************************)
EXTENDS ConcreteFacts, XRayEngine

CONSTANTS
  Workspaces,     \* what the laboratory may be run on: [revision, jobs, keyed]
  EffectIncident, \* the incident of everything the laboratory publishes
  MaxErrors       \* calls that fail at once

VARIABLES
  dupAt, dupCall,   \* where main is, and at which call
  jobSpace,
  requests,         \* what became of the request of every call
  answers,          \* how the provider processed it
  effects,          \* the provider's effects in order
  attempts,         \* what main recorded of every call
  errors, evidence

dupVars == <<dupAt, dupCall, jobSpace, requests, answers, effects, attempts, errors, evidence>>

Calls == 1 .. 4
IsProtected(call) == call > 2
SameEvent(i, j) == IsProtected(i) = IsProtected(j)
Group(call) == {i \in Calls : SameEvent(i, call)}
IsFirst(call) == call \in {1, 3}

-----------------------------------------------------------------------------
\* The static side: the jobs of a workspace [class, retry, charges], with "none"
\* for a source without retry options; keyed says that the client's source
\* mentions an idempotency key.
ParseRetry(retry) == retry \notin {"false", "0"}

Enriched(space) ==
  {[symbol |-> j.class, retry |-> ParseRetry(j.retry), keyed |-> space.keyed] :
     j \in {j \in space.jobs : j.retry # "none" /\ j.charges}}

RetriedCharges(space) == {c \in Enriched(space) : c.retry /\ ~c.keyed}

ProjectsOne(space) == Cardinality(RetriedCharges(space)) = 1

CodeSymbol(space) == (CHOOSE c \in RetriedCharges(space) : TRUE).symbol

-----------------------------------------------------------------------------
EffectsFor(call) ==
  {effects[i] : i \in {i \in DOMAIN effects : SameEvent(effects[i].call, call)}}

First(found) == CHOOSE e \in found : \A f \in found : e.id <= f.id

IsSlow(call) == \A i \in Group(call) : answers[i] = Missing

\* A request with a key whose effect is there gets that effect.
Process(call) ==
  /\ requests[call] = "sent"
  /\ requests' = [requests EXCEPT ![call] = "processed"]
  /\ LET known == IF IsProtected(call) THEN EffectsFor(call) ELSE {}
         new == [id |-> Len(effects) + 1, call |-> call]
     IN /\ effects' = IF known = {} THEN Append(effects, new) ELSE effects
        /\ answers' = [answers EXCEPT ![call] =
             [id |-> IF known = {} THEN new.id ELSE First(known).id,
              deduplicated |-> known # {}, slow |-> IsSlow(call)]]
  /\ UNCHANGED <<dupAt, dupCall, jobSpace, attempts, errors, evidence>>

-----------------------------------------------------------------------------
StartsJobs ==
  /\ dupAt = "start"
  /\ dupAt' = IF Enriched(jobSpace) # {} /\ ProjectsOne(jobSpace) THEN "call" ELSE "failed"
  /\ UNCHANGED <<dupCall, jobSpace, requests, answers, effects, attempts, errors, evidence>>

Sends ==
  /\ dupAt = "call"
  /\ requests' = [requests EXCEPT ![dupCall] = "sent"]
  /\ dupAt' = "await"
  /\ UNCHANGED <<dupCall, jobSpace, answers, effects, attempts, errors, evidence>>

Recorded(outcome, id, deduplicated) ==
  /\ attempts' = [attempts EXCEPT ![dupCall] =
       [outcome |-> outcome, committed |-> FALSE, id |-> id, deduplicated |-> deduplicated]]
  /\ IF IsFirst(dupCall) THEN dupAt' = "call" /\ dupCall' = dupCall + 1
     ELSE dupAt' = "settle" /\ UNCHANGED dupCall

\* A caller that waits 0.05 s does not see an answer that is delayed by 0.2 s;
\* the answer to the job's call is not read.
Answered ==
  /\ dupAt = "await" /\ requests[dupCall] = "processed"
  /\ IsFirst(dupCall) => ~answers[dupCall].slow
  /\ IF IsProtected(dupCall)
     THEN Recorded("success", answers[dupCall].id, answers[dupCall].deduplicated)
     ELSE Recorded("success", Missing, FALSE)
  /\ UNCHANGED <<jobSpace, requests, answers, effects, errors, evidence>>

WaitTimesOut ==
  /\ dupAt = "await"
  /\ Recorded("timeout", Missing, FALSE)
  /\ UNCHANGED <<jobSpace, requests, answers, effects, errors, evidence>>

CallFails ==
  /\ dupAt = "call" /\ errors < MaxErrors
  /\ errors' = errors + 1
  /\ Recorded("error", Missing, FALSE)
  /\ UNCHANGED <<jobSpace, requests, answers, effects, evidence>>

-----------------------------------------------------------------------------
EffectOf(call, found) == {e \in found : e.call = call}

\* Mutant: an attempt is bound to an effect of its event.
BindToEvent(call, found) ==
  LET mine == {e \in found : SameEvent(e.call, call)}
      old == attempts[call]
  IN [old EXCEPT !.committed = mine # {},
                 !.id = IF mine = {} THEN @ ELSE (CHOOSE e \in mine : TRUE).id]

\* An attempt is bound to the effect with its trace and span.
BindProviderEffects(call, found) ==
  LET mine == EffectOf(call, found)
      old == attempts[call]
  IN [old EXCEPT !.committed = mine # {},
                 !.id = IF mine = {} THEN @ ELSE (CHOOSE e \in mine : TRUE).id]

Settled(call, found) ==
  [i \in Calls |-> IF SameEvent(i, call) THEN BindProviderEffects(i, found) ELSE attempts[i]]

HasShape(call) ==
  \A i \in Group(call) : attempts[i].outcome = IF IsFirst(i) THEN "timeout" ELSE "success"

EffectEvidence(bound) ==
  [revision |-> jobSpace.revision, incident |-> EffectIncident,
   symbol |-> CodeSymbol(jobSpace), attempts |-> bound,
   effects |-> {effects[i] : i \in DOMAIN effects}]

\* After a pause main reads the effects of the event; two of the unsafe one and
\* one of the protected one, whose retry counts as deduplicated.
Settles ==
  /\ dupAt = "settle"
  /\ LET found == EffectsFor(dupCall)
         bound == Settled(dupCall, found)
     IN IF ~HasShape(dupCall) \/ Cardinality(found) # (IF IsProtected(dupCall) THEN 1 ELSE 2)
        THEN dupAt' = "failed" /\ UNCHANGED <<dupCall, attempts, evidence>>
        ELSE IF ~IsProtected(dupCall)
        THEN /\ dupAt' = "call" /\ dupCall' = 3
             /\ attempts' = bound
             /\ UNCHANGED evidence
        ELSE /\ dupAt' = "done"
             /\ attempts' = [bound EXCEPT ![4] = [@ EXCEPT !.deduplicated = TRUE,
                                                           !.id = First(found).id]]
             /\ evidence' = EffectEvidence(attempts')
             /\ UNCHANGED dupCall
  /\ UNCHANGED <<jobSpace, requests, answers, effects, errors>>

\* The spans of the unsafe attempts, one after the other.
JobSpans ==
  [i \in 1 .. 2 |-> [symbol |-> CodeSymbol(jobSpace), revision |-> jobSpace.revision,
                     trace |-> i, start |-> 2 * i, end |-> 2 * i + 1, events |-> <<>>]]

JobContract == [revision |-> jobSpace.revision, symbols |-> {CodeSymbol(jobSpace)},
                pools |-> [p \in {} |-> 0], orders |-> <<>>]

DupRuntime == Batch(JobContract, EffectIncident, JobSpans)

DupCanonical ==
  [incident |-> EffectIncident,
   instances |-> {[state |-> "observed", value |-> Cardinality(EffectOf(1, evidence.effects)
                                                     \cup EffectOf(2, evidence.effects))]}]

-----------------------------------------------------------------------------
UnsafeEffects(effect) == {e \in effect.effects : ~IsProtected(e.call)}
ProtectedEffects(effect) == {e \in effect.effects : IsProtected(e.call)}

\* The dedicated confirmation over the workspace's facts, the runtime facts, the
\* laboratory's evidence and the canonical evidence.
ConfirmsDuplicate(space, runtime, effect, canonical) ==
  /\ DocumentIsValid(runtime)
  /\ \A d \in {runtime, effect} : d.revision = space.revision
  /\ runtime.incident = effect.incident /\ canonical.incident = effect.incident
  /\ ProjectsOne(space) /\ effect.symbol = CodeSymbol(space)
  /\ \A i \in {1, 2} : \E e \in runtime.executions : e.trace = i /\ e.symbol = effect.symbol
  /\ \A i \in Calls : effect.attempts[i].outcome = IF IsFirst(i) THEN "timeout" ELSE "success"
  /\ \A i \in {1, 2} : effect.attempts[i].committed
  /\ Cardinality(UnsafeEffects(effect)) = 2
  /\ {e.call : e \in UnsafeEffects(effect)} = {1, 2}
  /\ Cardinality(ProtectedEffects(effect)) = 1
  /\ effect.attempts[4].deduplicated
  /\ Cardinality(canonical.instances) = 1
  /\ \A i \in canonical.instances : i.state = "observed" /\ i.value = 2

\* The profile, stage by stage.
Committed(solutions, effect, call, outcome) ==
  Requires(solutions, RowsOf(effect, LAMBDA d : {d.attempts[call]}),
           LAMBDA s, a : a.outcome = outcome /\ a.committed)

Executed(solutions, runtime, call, name) ==
  Clause(solutions, RowsOf(runtime, LAMBDA d : d.executions),
         LAMBDA s, e : e.symbol = s.symbol /\ e.trace = call,
         LAMBDA e : [v \in {name} |-> e.id])

Applied(solutions, effect, call, name) ==
  Clause(solutions, RowsOf(effect, UnsafeEffects), LAMBDA s, e : e.call = call,
         LAMBDA e : [v \in {name} |-> e.id])

RetriedCharge(space) ==
  Clause({NoBinding}, RetriedCharges(space), LAMBDA s, c : TRUE,
         LAMBDA c : [symbol |-> c.symbol])

Ambiguous(risky, runtime, effect) ==
  Executed(Committed(Requires(risky, RowsOf(effect, LAMBDA d : {d}),
                              LAMBDA s, d : d.symbol = s.symbol),
                     effect, 1, "timeout"), runtime, 1, "first")

RetriedAfter(ambiguous, runtime, effect) ==
  Constrained(Executed(Committed(ambiguous, effect, 2, "success"), runtime, 2, "retry"),
              LAMBDA s : s.first # s.retry)

AppliedTwice(retried, effect, canonical) ==
  Counted(Constrained(
            Requires(Applied(Applied(retried, effect, 1, "effectFirst"), effect, 2, "effectRetry"),
                     RowsOf(canonical, LAMBDA d : d.instances),
                     LAMBDA s, i : i.state = "observed" /\ i.value = 2),
            LAMBDA s : s.effectFirst # s.effectRetry),
          RowsOf(effect, UnsafeEffects), LAMBDA s, e : TRUE, 2, 2)

AppliedOnce(happened, effect) ==
  Counted(Requires(Committed(happened, effect, 3, "timeout"),
                   RowsOf(effect, LAMBDA d : {d.attempts[4]}),
                   LAMBDA s, a : a.outcome = "success" /\ a.deduplicated),
          RowsOf(effect, ProtectedEffects), LAMBDA s, e : TRUE, 1, 1)

DuplicateProfile(space, runtime, effect, canonical) ==
  LET risky == RetriedCharge(space)
      ambiguous == Ambiguous(risky, runtime, effect)
      retried == RetriedAfter(ambiguous, runtime, effect)
      happened == AppliedTwice(retried, effect, canonical)
  IN IF /\ SameIdentity({space.revision} \cup
                        {IF d = Missing THEN Missing ELSE d.revision : d \in {runtime, effect}})
        /\ SameIdentity({IF d = Missing THEN Missing ELSE d.incident :
                           d \in {runtime, effect, canonical}})
     THEN EpistemicState(<<<<"PRECONDITIONS_PRESENT", risky>>,
                           <<"AMBIGUOUS_OUTCOME_OBSERVED", ambiguous>>,
                           <<"RETRY_OBSERVED", retried>>, <<"EVENT_OBSERVED", happened>>,
                           <<"CAUSAL_DIAGNOSIS_CONFIRMED", AppliedOnce(happened, effect)>>>>)
     ELSE "REFUSED"

-----------------------------------------------------------------------------
DupProvider == \E call \in Calls : Process(call)

DupMain == StartsJobs \/ Sends \/ Answered \/ WaitTimesOut \/ Settles

DupNext == DupProvider \/ DupMain \/ CallFails

DupInit(isOn) ==
  /\ dupAt = IF isOn THEN "start" ELSE "off"
  /\ dupCall = 1
  /\ IF isOn THEN jobSpace \in Workspaces ELSE jobSpace = Missing
  /\ requests = [i \in Calls |-> "none"]
  /\ answers = [i \in Calls |-> Missing]
  /\ effects = <<>>
  /\ attempts = [i \in Calls |-> Missing]
  /\ errors = 0 /\ evidence = Missing
=============================================================================
