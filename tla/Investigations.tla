--------------------------- MODULE Investigations ---------------------------
(***************************************************************************)
(* One incident from its symptom to the verdict on its fix: a bounded      *)
(* investigation reads the running system, an operator freezes a contract  *)
(* on what it found, and a bounded verification measures it, while the     *)
(* clock runs and the system changes.                                      *)
(***************************************************************************)
EXTENDS RuntimeWorld

(***************************************************************************)
(* run_autonomous_read_only_loop (autonomous_investigation): up to         *)
(* MaxSteps times, the best-ranked supported probe that was not attempted  *)
(* yet is executed for its diagnosis, its evidence is composed in memory   *)
(* and the diagnosis is rebuilt.  The caller gets the evidence when the    *)
(* run returns, and nothing when it raises.                                *)
(***************************************************************************)
CONSTANTS
  Supported,  \* the probes that are registered for autonomous execution
  MaxSteps    \* max_steps

ASSUME InvestigationAssumption ==
  /\ Supported \subseteq {p \in DOMAIN Probes : Probes[p].risk = 0}
  /\ MaxSteps \in 1 .. 16

VARIABLES
  evidence,   \* the evidence of the incident, as its owner holds it
  run,        \* "idle", "running", "returned" or "raised"
  current,    \* current_evidence
  view,       \* current_snapshot: for each scope what is observed and absent,
              \* and the ranked probes of each diagnosis
  revision,
  attempted,
  steps,
  stop        \* stop_reason

investigation == <<run, current, view, revision, attempted, steps, stop>>

Key(r) == <<r.target, r.scope, r.probe>>

\* _recommendations before those attempted are left out: the supported probes
\* of every diagnosis, each with its rank there.
Recommendations ==
  {r \in [target : Observations, scope : Scopes, probe : Supported,
          rank : 1 .. Cardinality(DOMAIN Probes)] :
     /\ r.target \in view[r.scope].observed
     /\ r.rank \in DOMAIN view[r.scope].probes[r.target]
     /\ r.probe = view[r.scope].probes[r.target][r.rank].probe}

Open == {r \in Recommendations : Key(r) \notin attempted}

\* The first of them, by rank, target, scope and probe.
Best(recommendations) ==
  CHOOSE r \in recommendations :
    \A q \in recommendations \ {r} :
      Precedes(<<r.rank, r.target, r.scope, r.probe>>,
               <<q.rank, q.target, q.scope, q.probe>>)

InvestigationInit ==
  /\ run = "idle"
  /\ current = {}
  /\ view = Snapshot({}, 0)
  /\ revision = 0
  /\ attempted = {}
  /\ steps = <<>>
  /\ stop = "none"

\* The caller builds the first snapshot and starts the loop with it.
Begin ==
  /\ run = "idle"
  /\ ~ Contradictory(evidence, clock)
  /\ run' = "running"
  /\ current' = evidence
  /\ view' = Snapshot(evidence, clock)
  /\ revision' = 1
  /\ UNCHANGED <<evidence, attempted, steps, stop>>

\* The report and the evidence go to the caller.
ReturnWith(reason) ==
  /\ run' = "returned"
  /\ stop' = reason
  /\ evidence' = current
  /\ UNCHANGED <<current, view, revision, steps>>

StopNoRecommendation ==
  /\ run = "running" /\ Len(steps) < MaxSteps
  /\ Open = {}
  /\ ReturnWith(IF Recommendations = {} THEN "no_executable_recommendation"
                ELSE "repeated_recommendation")
  /\ UNCHANGED attempted

StopMaxSteps ==
  /\ run = "running" /\ Len(steps) = MaxSteps
  /\ ReturnWith("max_steps")
  /\ UNCHANGED attempted

\* The selected probe goes to its instrument.
Select(r) ==
  /\ run = "running" /\ Len(steps) < MaxSteps
  /\ Open # {}
  /\ r = Best(Open)
  /\ attempted' = attempted \cup {Key(r)}

\* No answer that justifies a claim: the next iteration goes on without it.
Insufficient ==
  /\ \E r \in Recommendations :
       /\ Select(r)
       /\ steps' = Append(steps, [status |-> "insufficient_evidence", key |-> Key(r),
                                  added |-> {}, revision |-> revision])
  /\ UNCHANGED <<evidence, run, current, view, revision, stop>>

\* Every instance of the answer is known already.
StopNoNewEvidence ==
  /\ \E r \in Recommendations :
       /\ Select(r)
       /\ Readings(r.probe, r.scope) # {}
       /\ Ids(Readings(r.probe, r.scope)) \subseteq Ids(current)
  /\ ReturnWith("no_new_evidence")

\* The answer is composed with the evidence and the diagnosis is rebuilt.
Complete(r, produced) ==
  /\ current' = current \cup produced
  /\ view' = Snapshot(current', clock)
  /\ revision' = revision + 1
  /\ steps' = Append(steps, [status |-> "completed", key |-> Key(r),
                             added |-> Ids(produced) \ Ids(current), revision |-> revision'])

CompleteStep ==
  /\ \E r \in Recommendations :
       LET produced == Readings(r.probe, r.scope)
       IN /\ Select(r)
          /\ ~ (Ids(produced) \subseteq Ids(current))
          /\ Composable(current, produced)
          /\ ~ Contradictory(current \cup produced, clock)
          /\ Complete(r, produced)
  /\ UNCHANGED <<evidence, run, stop>>

\* The provider fails, or its evidence is refused: another content under a
\* known id, or another state of what is in force.  The run's evidence is lost.
Raise ==
  /\ \E r \in Recommendations : Select(r)
  /\ run' = "raised"
  /\ UNCHANGED <<evidence, current, view, revision, steps, stop>>

InvestigationStep ==
  \/ StopNoRecommendation \/ StopMaxSteps
  \/ Insufficient \/ StopNoNewEvidence \/ CompleteStep \/ Raise

-----------------------------------------------------------------------------
(***************************************************************************)
(* Verification of a fix: a contract freezes the failing scope, the time   *)
(* of the fix and the observations that must be absent                     *)
(* (verification_protocol), and a bounded loop measures what is not        *)
(* decided yet (verification_agent).  Only evidence from after the fix, in *)
(* the original scope, counts.                                             *)
(***************************************************************************)
CONSTANTS
  CriteriaChoices,    \* the criteria an operator may ask for: sequences
  MaxVerifications,   \* max_steps
  NoContract

ASSUME VerificationAssumption ==
  /\ \A c \in CriteriaChoices :
       c # <<>> /\ ToSet(c) \subseteq Observations /\ IsInjective(c)
  /\ MaxVerifications \in 1 .. 16

VARIABLES
  contract,   \* the verification contract
  check,      \* "idle", "running", "returned" or "raised"
  now,        \* the time every evaluation of the run uses
  composed,   \* current: the evidence of the run
  measured,   \* attempted
  record,     \* the steps of the report
  cause       \* stop_reason

verification == <<contract, check, now, composed, measured, record, cause>>

Outcomes == {"resolved", "regressed", "inconclusive"}

-----------------------------------------------------------------------------
(* evaluate_verification *)

\* Mutant: evidence from before the fix counts.
InForce(instances, o) ==
  {i \in instances :
     /\ i.observation = o /\ i.scope = contract.scope
     /\ i.at <= now /\ now <= i.until}

\* _active_post_fix_instances: the last instant of an instance counts here.
ActivePostFix(instances, o) ==
  {i \in instances :
     /\ i.observation = o /\ i.scope = contract.scope
     /\ contract.fixed_at <= i.at /\ i.at <= now
     /\ now <= i.until}

Latest(instances) == {i \in instances : \A j \in instances : j.at <= i.at}

\* A failure is not hidden by an absence at the same instant.
StatusOf(instances, o) ==
  LET latest == Latest(ActivePostFix(instances, o))
  IN CASE latest = {} -> "inconclusive"
       [] \E i \in latest : i.state = "observed" -> "regressed"
       [] OTHER -> "resolved"

Outcome(instances) ==
  LET statuses == {StatusOf(instances, o) : o \in ToSet(contract.criteria)}
  IN CASE "regressed" \in statuses -> "regressed"
       [] statuses = {"resolved"} -> "resolved"
       [] OTHER -> "inconclusive"

-----------------------------------------------------------------------------
(* build_verification_agent_plan *)

\* _candidate_probes, those with a direct route.
CandidateProbes(o) ==
  {p \in DOMAIN Probes : Probes[p].risk = 0 /\ o \in Probes[p].produces}

Executable(o) == StatusOf(composed, o) = "inconclusive" /\ CandidateProbes(o) # {}

\* The first executable criterion that was not measured, in contract order.
Criteria == contract.criteria

NextCriterion ==
  {Criteria[k] : k \in {k \in DOMAIN Criteria :
     /\ Executable(Criteria[k]) /\ Criteria[k] \notin measured
     /\ \A j \in 1 .. k - 1 : ~ Executable(Criteria[j]) \/ Criteria[j] \in measured}}

-----------------------------------------------------------------------------
VerificationInit ==
  /\ contract = NoContract
  /\ check = "idle"
  /\ now = 0
  /\ composed = {}
  /\ measured = {}
  /\ record = <<>>
  /\ cause = "none"

\* build_verification_contract, for a diagnosis of the incident; the fix was
\* applied at some time up to now.
Freeze(target, scope, fixed_at, criteria) ==
  /\ contract = NoContract
  /\ fixed_at <= clock
  /\ contract' = [target |-> target, scope |-> scope, fixed_at |-> fixed_at,
                  criteria |-> criteria]
  /\ UNCHANGED <<check, now, composed, measured, record, cause>>

\* The evaluation time is taken once, when the run starts.
BeginVerification(instances) ==
  /\ contract # NoContract
  /\ check = "idle"
  /\ check' = "running"
  /\ now' = clock
  /\ composed' = instances
  /\ UNCHANGED <<contract, measured, record, cause>>

InLoop == check = "running" /\ Len(record) < MaxVerifications

Close(reason) ==
  /\ check' = "returned"
  /\ cause' = reason
  /\ UNCHANGED <<contract, now, composed, measured, record>>

StopDecided ==
  /\ InLoop
  /\ Outcome(composed) # "inconclusive"
  /\ Close(Outcome(composed))

StopNoRoute ==
  /\ InLoop
  /\ Outcome(composed) = "inconclusive"
  /\ NextCriterion = {}
  /\ Close("no_executable_verification_route")

StopBudget ==
  /\ check = "running" /\ Len(record) = MaxVerifications
  /\ Close("max_steps")

\* Mutant: what was measured is not remembered.
MeasureAgain(o, p) ==
  /\ InLoop
  /\ Outcome(composed) = "inconclusive"
  /\ o \in NextCriterion
  /\ p = Min(CandidateProbes(o))
  /\ UNCHANGED measured

\* The criterion's first routable probe is asked.
Measure(o, p) ==
  /\ InLoop
  /\ Outcome(composed) = "inconclusive"
  /\ o \in NextCriterion
  /\ p = Min(CandidateProbes(o))
  /\ measured' = measured \cup {o}

VerifyInsufficient(o) ==
  /\ \E p \in DOMAIN Probes : Measure(o, p)
  /\ record' = Append(record, [status |-> "insufficient_evidence", criterion |-> o, at |-> clock])
  /\ UNCHANGED <<contract, check, now, composed, cause>>

\* The answer speaks of the criterion and composes with the evidence.
VerifyComplete(o) ==
  /\ \E p \in DOMAIN Probes :
       LET produced == Readings(p, contract.scope)
       IN /\ Measure(o, p)
          /\ o \in {i.observation : i \in produced}
          /\ Composable(composed, produced)
          /\ composed' = composed \cup produced
  /\ record' = Append(record, [status |-> "completed", criterion |-> o, at |-> clock])
  /\ UNCHANGED <<contract, check, now, cause>>

\* The provider fails, its answer does not speak of the criterion, or it has
\* another content under a known id.
VerifyRaise(o) ==
  /\ \E p \in DOMAIN Probes : Measure(o, p)
  /\ check' = "raised"
  /\ UNCHANGED <<contract, now, composed, record, cause>>

VerificationStep ==
  \/ StopDecided \/ StopNoRoute \/ StopBudget
  \/ \E o \in Observations :
       VerifyInsufficient(o) \/ VerifyComplete(o) \/ VerifyRaise(o)

FinalOutcome == Outcome(composed)

-----------------------------------------------------------------------------
(* Together *)

CONSTANT
  Seeds  \* the evidence an incident may start with

Instances ==
  [id : (DOMAIN Probes \cup {0}) \X Observations \X Scopes \X Times,
   observation : Observations, scope : Scopes, state : States,
   at : Times, until : Nat]

\* Time counts from the collection of the seed.
ASSUME SeedsAssumption ==
  \A seed \in Seeds : seed \subseteq Instances /\ \A i \in seed : i.at = 0

vars == <<world, evidence, investigation, verification>>

Init ==
  /\ WorldInit
  /\ evidence \in Seeds
  /\ \A i \in evidence : <<i.observation, i.scope>> \in holds <=> i.state = "observed"
  /\ InvestigationInit
  /\ VerificationInit

\* The contract speaks of a diagnosis of the returned snapshot.
FreezeContract ==
  /\ run = "returned"
  /\ \E scope \in Scopes, fixed_at \in Times, criteria \in CriteriaChoices :
       \E target \in view[scope].observed : Freeze(target, scope, fixed_at, criteria)

\* The world is left alone when both loops are done with it (a bound).
Environment ==
  /\ run # "raised" /\ check \notin {"returned", "raised"}
  /\ Tick \/ \E place \in Places : Change(place)
  /\ UNCHANGED <<evidence, investigation, verification>>

Investigate == (Begin \/ InvestigationStep) /\ UNCHANGED <<world, verification>>

Verify ==
  /\ FreezeContract \/ BeginVerification(evidence) \/ VerificationStep
  /\ UNCHANGED <<world, evidence, investigation>>

Next == Environment \/ Investigate \/ Verify

\* Every instrument is read with a timeout, so both loops go on.
Fairness ==
  /\ WF_vars(InvestigationStep /\ UNCHANGED <<world, verification>>)
  /\ WF_vars(VerificationStep /\ UNCHANGED <<world, evidence, investigation>>)

Spec == Init /\ [][Next]_vars /\ Fairness

-----------------------------------------------------------------------------
\* The evidence of a run names no instance twice and contains what it began
\* with; the verification's clock stands still and its steps answer criteria
\* of the contract.
TypeOK ==
  /\ WorldTypeOK
  /\ evidence \subseteq Instances /\ current \subseteq Instances
  /\ composed \subseteq Instances
  /\ \A i, j \in current : i.id = j.id => i = j
  /\ \A i, j \in composed : i.id = j.id => i = j
  /\ \A s \in Scopes : view[s].observed \cap view[s].absent = {}
  /\ attempted \subseteq Observations \X Scopes \X Supported
  /\ Len(steps) <= MaxSteps /\ Len(record) <= MaxVerifications
  /\ now <= clock
  /\ \A k \in DOMAIN record : record[k].criterion \in ToSet(contract.criteria)

\* The causes of a symptom in the order the diagnosis gives them.
Order(target, observed, absent) ==
  LET ranking == RankCauses(target, observed, absent)
  IN [i \in DOMAIN ranking |-> ranking[i].hypothesis]

\* What a probe could still say of a diagnosis leaves its ranking in order.
TellsNothing(p, target, known) ==
  \A said \in SUBSET (Probes[p].produces \ Resolved(target, known.observed, known.absent)) :
    \A seen \in SUBSET said :
      Order(target, known.observed \cup seen, known.absent \cup (said \ seen))
        = Order(target, known.observed, known.absent)

\* When the investigation ends because it has nothing left to ask, no answer of
\* a supported probe that tests a candidate and was not asked could change the
\* order of the candidates of any diagnosis.
NothingLeftToLearn ==
  [][stop' # stop /\ stop' \in {"no_executable_recommendation", "repeated_recommendation"} =>
       \A s \in Scopes, p \in Supported : \A t \in view[s].observed :
         \/ <<t, s, p>> \in attempted
         \/ TestedBy(p, RankCauses(t, view[s].observed, view[s].absent)) = {}
         \/ TellsNothing(p, t, view[s])]_vars

\* A fix counts as verified only when every criterion did not hold, in the scope
\* that failed, at some time since the fix.
ResolvedIsEarned ==
  check = "returned" /\ FinalOutcome = "resolved" =>
    \A k \in DOMAIN contract.criteria :
      lastAbsent[<<contract.criteria[k], contract.scope>>] >= contract.fixed_at

-----------------------------------------------------------------------------
PhaseOf(r) == IF r \in {"returned", "raised"} THEN "ended" ELSE r

InvestigationLoop == INSTANCE BoundedLoop WITH
  Questions <- Observations \X Scopes \X Supported, Budget <- MaxSteps,
  asked <- attempted, answered <- Len(steps), phase <- PhaseOf(run)

VerificationLoop == INSTANCE BoundedLoop WITH
  Questions <- Observations, Budget <- MaxVerifications,
  asked <- measured, answered <- Len(record), phase <- PhaseOf(check)

\* The investigation asks for no diagnosis the same probe twice and the
\* verification measures no criterion twice; both stay within their budgets,
\* report only what they asked, and end.
LoopsAreBounded == InvestigationLoop!LoopSpec /\ VerificationLoop!LoopSpec
=============================================================================
