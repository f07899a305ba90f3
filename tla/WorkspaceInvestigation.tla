------------------------- MODULE WorkspaceInvestigation -------------------------
(***************************************************************************)
(* run_workspace_investigation (workspace_autonomous_investigation) over   *)
(* the files of a workspace: up to MaxSteps times, the unique best         *)
(* read-only execution set is executed through its controller              *)
(* (bounded_workspace_acquisition), and the diagnosis is loaded again.     *)
(* Other tools commit to the same incident between the steps, and          *)
(* instruments come and go.                                                *)
(*                                                                         *)
(* A controller call is one step here: its claim, journals and file        *)
(* operations are in ExecutionSets and EvidenceWriters.  No evidence       *)
(* expires within a run.                                                   *)
(***************************************************************************)
EXTENDS InstrumentRouting

CONSTANTS
  Seeds,        \* the evidence an incident may start with
  Others,       \* the sets of instances that another tool may commit
  Phases,       \* the kinds of evidence that a verified claim consists of
  MaxSteps,     \* max_steps
  MaxRevision,  \* bound on commits
  MaxOutages    \* bound on how often an instrument comes or goes

ASSUME WorkspaceAssumption ==
  /\ MaxSteps \in 1 .. 16
  /\ MaxRevision \in Nat \ {0} /\ MaxOutages \in Nat

VARIABLES
  evidence,   \* runtime-evidence.json
  diagnosis,  \* diagnosis.json: its evidence_revision and what it diagnoses
  trial,      \* how many instances of each phase the evidence holds
  usable,     \* the instruments that are available on a runner that reaches them
  outages,
  pc,         \* "idle", "verify", "select", "call", "reload", "returned" or "raised"
  current,    \* the loop's snapshot
  chosen,     \* the selected execution set, and the one that was executed:
  executed,   \* sets of at most one
  steps,
  stop,       \* stop_reason
  own,        \* the revisions that the loop committed (history)
  asked       \* the revisions it asked for an acquisition on (history)

files == <<evidence, diagnosis, trial>>
loop == <<pc, current, chosen, executed, steps, stop, own, asked>>
vars == <<files, usable, outages, loop>>

Diagnosis(revision, instances) ==
  [revision |-> revision, view |-> Snapshot(instances, 0)]

Init ==
  /\ evidence \in Seeds
  /\ diagnosis = Diagnosis(1, evidence)
  /\ trial \in [Phases -> 0 .. 1]
  /\ usable = DOMAIN Instruments
  /\ outages = 0
  /\ pc = "idle"
  /\ current = Diagnosis(0, {})
  /\ chosen = {} /\ executed = {}
  /\ steps = <<>>
  /\ stop = "none"
  /\ own = <<>>
  /\ asked = {}

-----------------------------------------------------------------------------
(* What happens around the loop *)

Running == pc \notin {"idle", "returned", "raised"}

\* Another tool commits, after whatever the files hold.
OtherCommit ==
  /\ Running /\ diagnosis.revision < MaxRevision
  /\ \/ /\ \E added \in Others :
             /\ ~ (Ids(added) \subseteq Ids(evidence))
             /\ Composable(evidence, added)
             /\ ~ Contradictory(evidence \cup added, 0)
             /\ evidence' = evidence \cup added
        /\ UNCHANGED trial
     \/ /\ \E phase \in Phases : trial[phase] < 2 /\ trial' = [trial EXCEPT ![phase] = @ + 1]
        /\ UNCHANGED evidence
  /\ diagnosis' = Diagnosis(diagnosis.revision + 1, evidence')
  /\ UNCHANGED <<usable, outages, loop>>

\* An instrument comes or goes: its endpoint, its runner or its binding.
Outage ==
  /\ Running /\ outages < MaxOutages
  /\ outages' = outages + 1
  /\ \E i \in DOMAIN Instruments :
       usable' = IF i \in usable THEN usable \ {i} ELSE usable \cup {i}
  /\ UNCHANGED <<files, loop>>

-----------------------------------------------------------------------------
(* The loop *)

StopWith(reason) ==
  /\ pc' = "returned"
  /\ stop' = reason
  /\ UNCHANGED <<current, chosen, executed, steps, own, asked>>

Start ==
  /\ pc = "idle"
  /\ pc' = "verify"
  /\ current' = diagnosis
  /\ UNCHANGED <<files, chosen, executed, steps, stop, own, asked>>

\* build_causal_verification_projection: a claim needs exactly one instance of
\* every phase.
Verified == \A phase \in Phases : trial[phase] = 1

\* The claims are read from the evidence file, whatever revision it has.
CheckVerified ==
  /\ pc = "verify"
  /\ \/ Verified /\ StopWith("verified")
     \/ /\ ~ Verified
        /\ pc' = "select"
        /\ UNCHANGED <<current, chosen, executed, steps, stop, own, asked>>
  /\ UNCHANGED files

\* Mutant: the budget is exceeded before it is noticed.
Overdrawn == Len(steps) > MaxSteps

Exhausted == Len(steps) = MaxSteps

\* The budget is one of commits: the last state is looked at without another.
Select ==
  /\ pc = "select"
  /\ LET best == BestSets(current.view, usable)
     IN \/ best = {} /\ StopWith("blocked")
        \/ Cardinality(best) > 1 /\ StopWith("ambiguous")
        \/ Cardinality(best) = 1 /\ Exhausted /\ StopWith("budget_exhausted")
        \/ /\ Cardinality(best) = 1 /\ ~ Exhausted
           /\ pc' = "call"
           /\ chosen' = best
           /\ UNCHANGED <<current, executed, steps, stop, own, asked>>
  /\ UNCHANGED files

-----------------------------------------------------------------------------
(* The acquisition *)

\* The ids of positive-only findings hash the time of the reading.
Finding(i, o, state) ==
  [id |-> <<i, o, IF Instruments[i].positive_only THEN diagnosis.revision ELSE 0>>,
   observation |-> o, scope |-> Bound[Instruments[i].scope][Instruments[i].target],
   state |-> state, at |-> 0, until |-> 1, uses |-> {}]

\* What an instrument may answer; without findings it has no answer.  Evidence
\* is bound to the resource that it was read from.
Answers(i, p) ==
  LET maps == Instruments[i].maps[p]
  IN IF Instruments[i].positive_only
       THEN {{Finding(i, o, "observed") : o \in found} : found \in SUBSET maps \ {{}}}
       ELSE {{Finding(i, o, state[o]) : o \in maps} : state \in [maps -> States]}

\* One answer of every member of the set.
Produced(set) ==
  LET members == UNION Range(set.members)
      all == UNION {Answers(i, set.probe) : i \in members}
  IN {UNION Range(answer) : answer \in
        {a \in [members -> all] : \A i \in members : a[i] \in Answers(i, set.probe)}}

\* Mutant: the revision is not compared.
AuthorizesAnyRevision(set) == set \in ReadySets(diagnosis.view, usable)

\* RoutedExecutionSetToolController: the set is one of the current revision and
\* ready with the same routes.
Authorizes(set) ==
  /\ current.revision = diagnosis.revision
  /\ set \in ReadySets(diagnosis.view, usable)

\* The selection is made again from the loop's snapshot, and that set is executed
\* and committed.
Acquire ==
  /\ pc = "call" /\ diagnosis.revision < MaxRevision
  /\ \E set \in BestSets(current.view, usable) :
       /\ BestSets(current.view, usable) = {set}
       /\ Authorizes(set)
       /\ executed' = {set}
       /\ \E produced \in Produced(set) :
            /\ Ids(produced) \cap Ids(evidence) = {}
            /\ \A i \in produced : i.scope # 0
            /\ ~ Contradictory(evidence \cup produced, 0)
            /\ evidence' = evidence \cup produced
  /\ diagnosis' = Diagnosis(diagnosis.revision + 1, evidence')
  /\ own' = Append(own, diagnosis'.revision)
  /\ pc' = "reload"
  /\ UNCHANGED <<trial, current, chosen, steps, stop, asked>>

Raise ==
  /\ pc' = "raised"
  /\ asked' = asked \cup {current.revision}
  /\ UNCHANGED <<files, current, chosen, executed, steps, stop, own>>

\* No unique best set any more, a stale set or revision, an instrument without
\* an answer, a scope of another resource, or evidence that does not compose.
AcquireFails == pc = "call" /\ Raise

\* Mutant: any later revision will do.
AdvancedAtAll == diagnosis.revision > current.revision

AdvancedByOne == diagnosis.revision = current.revision + 1

\* The diagnosis is loaded after the commit and must be the next revision.
Reload ==
  /\ pc = "reload"
  /\ AdvancedByOne /\ executed = chosen
  /\ steps' = Append(steps, [from |-> current.revision, to |-> diagnosis.revision])
  /\ current' = diagnosis
  /\ asked' = asked \cup {current.revision}
  /\ pc' = "verify"
  /\ UNCHANGED <<files, chosen, executed, stop, own>>

\* Another tool committed in between, or the set was not the selected one: the
\* commit stays, the report is lost.
ReloadFails ==
  /\ pc = "reload"
  /\ ~ AdvancedByOne \/ executed # chosen
  /\ Raise

-----------------------------------------------------------------------------
LoopStep ==
  /\ CheckVerified \/ Select \/ AcquireFails \/ Acquire \/ Reload \/ ReloadFails
  /\ UNCHANGED <<usable, outages>>

Next ==
  \/ Start /\ UNCHANGED <<usable, outages>>
  \/ LoopStep
  \/ OtherCommit
  \/ Outage

\* Every read of a provider has a timeout, and the controller does not wait for
\* its claim: the loop goes on.
Spec == Init /\ [][Next]_vars /\ WF_vars(LoopStep)

-----------------------------------------------------------------------------
\* The files hold one content per id and contradict themselves in no scope; the
\* loop has at most one set in hand.
TypeOK ==
  /\ \A i, j \in evidence : i.id = j.id => i = j
  /\ \A s \in Scopes : diagnosis.view[s].observed \cap diagnosis.view[s].absent = {}
  /\ diagnosis.revision \in 1 .. MaxRevision
  /\ trial \in [Phases -> 0 .. 2]
  /\ usable \subseteq DOMAIN Instruments /\ outages \in 0 .. MaxOutages
  /\ current.revision \in 0 .. diagnosis.revision
  /\ Cardinality(chosen) <= 1 /\ Cardinality(executed) <= 1
  /\ ToSet(own) \subseteq 2 .. diagnosis.revision
  /\ asked \subseteq 1 .. diagnosis.revision

\* The steps of a run are its commits, one revision each and none in between;
\* a run that raises has made at most one commit that no step reports.
StepsAreItsCommits ==
  /\ \A k \in DOMAIN steps :
       /\ steps[k].to = steps[k].from + 1 /\ own[k] = steps[k].to
       /\ k > 1 => steps[k].from = steps[k - 1].to
  /\ Len(own) <= Len(steps) + 1
  /\ pc = "returned" => Len(own) = Len(steps)

\* A set whose answer reaches the diagnosis that asked: it stays in the scope, and
\* what an instrument does not find it reports as absent.
AnswersItsQuestion(set) ==
  \A resource \in DOMAIN set.members :
    /\ Bound[set.scope][resource] = set.scope
    /\ \A i \in set.members[resource] : ~ Instruments[i].positive_only

\* Every commit of the loop extends the very diagnosis it reasoned about, with a
\* read-only set preferred to every other ready one; and when its answer reaches
\* that diagnosis, it settles an observation that was open there.
ActsOnItsRevision ==
  [][own' # own =>
       /\ current = diagnosis
       /\ \A set \in executed' :
            /\ Probes[set.probe].risk = 0
            /\ \A other \in ReadOnlySets(current.view, usable) \ {set} :
                 Precedes(set.priority, other.priority)
            /\ AnswersItsQuestion(set) =>
                 LET before == current.view[set.scope]
                     after == diagnosis'.view[set.scope]
                 IN (after.observed \cup after.absent) \ (before.observed \cup before.absent)
                      # {}]_vars

PhaseOf == CASE pc = "idle" -> "idle" [] pc \in {"returned", "raised"} -> "ended"
             [] OTHER -> "running"

Loop == INSTANCE BoundedLoop WITH
  Questions <- 1 .. MaxRevision, Budget <- MaxSteps,
  asked <- asked, answered <- Len(steps), phase <- PhaseOf

\* The loop asks for at most one acquisition per revision, stays within its
\* budget and ends.
AcquisitionIsBounded == Loop!LoopSpec

\* "It MUST NOT choose by lexical probe ... identity" (RFC 0094): a probe that is
\* executed is preferred to every other probe of its diagnosis by evidence value.
NoLexicalChoice ==
  [][own' # own =>
       \A set \in executed' :
         LET probes == current.view[set.scope].probes[set.target]
         IN \A k \in 2 .. Len(probes) : probes[k].priority # set.priority]_vars
=============================================================================
