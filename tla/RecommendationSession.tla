----------------------- MODULE RecommendationSession -----------------------
(***************************************************************************)
(* One recommendation session (recommendation_session_journal.py): agents  *)
(* start it, read it, carry out its next action and append the result to a *)
(* journal from which the session is replayed.                             *)
(*                                                                         *)
(* A context is what a recommendation is projected from                    *)
(* (database_read_model_recommendation.py), and here stands for the        *)
(* snapshot: both projections are functions of it.  The journal is its     *)
(* sequence of lines.  An agent does the work of an action - for a probe,  *)
(* recommendation_evidence_acquisition.py - outside the claim, and then    *)
(* claims the session, verifies the journal, appends and verifies again.   *)
(***************************************************************************)
EXTENDS Naturals, Sequences, SequencesExt

CONSTANTS
  Agents,          \* processes that work on the session
  Contexts,        \* contexts that occur
  GapOrder,        \* missing assumptions, in the order of their gap's priority
  Refs,            \* experiment results that can be referred to
  NoRef,           \* "the benefit names no experiment"
  NoResult,        \* "the line is the start of the session"
  Garbage,         \* a line that is not one JSON object
  MaxRevision,     \* bound on the session revision
  MayLoseNewline   \* may a write be cut between an event and its newline

Assumptions == ToSet(GapOrder)
Bases == {"none", "unknown", "expected", "planner_experiment", "benchmark", "measured"}

\* The parts of a context that decide: is there active query-latency evidence,
\* what is missing, and the benefit (its basis, whether after < before, and
\* the experiment it refers to).
ContextType ==
  [evidence : BOOLEAN, missing : SUBSET Assumptions,
   basis : Bases, better : BOOLEAN, ref : Refs \cup {NoRef}]

ASSUME SessionAssumption ==
  /\ Contexts \subseteq ContextType
  /\ IsInjective(GapOrder)
  /\ NoRef \notin Refs
  /\ MaxRevision \in Nat
  /\ MayLoseNewline \in BOOLEAN

-----------------------------------------------------------------------------
(* The two projections of a context. *)

\* benefit_state
BenefitState(c) ==
  CASE c.basis \in {"none", "unknown", "expected"} -> "EXPERIMENT_REQUIRED"
    [] c.basis \notin {"none", "unknown", "expected"} /\ ~ c.better ->
         "BENEFIT_NOT_DEMONSTRATED"
    [] c.basis \in {"planner_experiment", "benchmark"} /\ c.better -> "ESTIMATED_BENEFIT"
    [] c.basis = "measured" /\ c.better -> "READY_FOR_HUMAN_REVIEW"

\* The maturity of the recommendation.
State(c) ==
  CASE ~ c.evidence -> "NO_PROBLEM_EVIDENCE"
    [] c.evidence /\ c.missing # {} -> "INSUFFICIENT_CONTEXT"
    [] c.evidence /\ c.missing = {} -> BenefitState(c)

\* The gap of the first missing assumption.
FirstGap(c) == GapOrder[Min({i \in DOMAIN GapOrder : GapOrder[i] \in c.missing})]

\* The gap ranked first, or the terminal action.
NextAction(c) ==
  LET state == State(c)
  IN CASE state = "NO_PROBLEM_EVIDENCE" -> <<"read_only_probe", "active_query_latency">>
       [] state = "INSUFFICIENT_CONTEXT" -> <<"operator_question", FirstGap(c)>>
       [] state = "EXPERIMENT_REQUIRED" -> <<"safe_experiment", "demonstrated_improvement">>
       [] state = "ESTIMATED_BENEFIT" -> <<"safe_experiment", "measured_improvement">>
       [] state = "READY_FOR_HUMAN_REVIEW" -> <<"human_decision">>
       [] state = "BENEFIT_NOT_DEMONSTRATED" -> <<"stop_candidate">>

-----------------------------------------------------------------------------
(* Results of actions, and the transitions the journal accepts. *)

\* What acquire_and_reproject says of a probe that took context c to d.
Acquisition(c, d) ==
  [kind |-> "read_only_probe", previous |-> State(c), action |-> NextAction(c),
   state |-> State(d), next |-> NextAction(d), progressed |-> NextAction(c) # NextAction(d)]

Outcomes == {"demonstrated", "not_demonstrated", "inconclusive"}

\* The results an agent can report that was shown context c and moves to d.
ResultsOf(c, d) ==
  LET action == NextAction(c)
  IN CASE action[1] = "read_only_probe" -> {Acquisition(c, d)}
       [] action[1] = "operator_question" ->
            [kind : {action[1]}, gap : Assumptions]
       [] action[1] = "safe_experiment" ->
            [kind : {action[1]}, gap : {action[2]}, ref : Refs, outcome : Outcomes]
       [] action[1] = "human_decision" ->
            [kind : {action[1]}, decision : {"approved", "rejected"}]
       [] action[1] = "stop_candidate" -> [kind : {action[1]}]

OutcomeAgrees(outcome, state) ==
  /\ outcome = "demonstrated" => state = "READY_FOR_HUMAN_REVIEW"
  /\ outcome = "not_demonstrated" => state = "BENEFIT_NOT_DEMONSTRATED"
  /\ outcome = "inconclusive" => state \in {"EXPERIMENT_REQUIRED", "ESTIMATED_BENEFIT"}

\* Mutant: a decision may bring its own evidence.
LegalWithAnyDecision(c, result, d) ==
  /\ result.kind = NextAction(c)[1]
  /\ result.kind = "read_only_probe" => result = Acquisition(c, d)
  /\ result.kind = "operator_question" => result.gap = NextAction(c)[2]
  /\ result.kind = "safe_experiment" =>
       /\ result.gap = NextAction(c)[2]
       /\ OutcomeAgrees(result.outcome, State(d))
       /\ d.ref \in {NoRef, result.ref}

\* _validate_action_transition: what result may take context c to d.
Legal(c, result, d) ==
  /\ result.kind = NextAction(c)[1]
  /\ result.kind = "read_only_probe" => result = Acquisition(c, d)
  /\ result.kind = "operator_question" => result.gap = NextAction(c)[2]
  /\ result.kind = "safe_experiment" =>
       /\ result.gap = NextAction(c)[2]
       /\ OutcomeAgrees(result.outcome, State(d))
       /\ d.ref \in {NoRef, result.ref}
  /\ result.kind \in {"human_decision", "stop_candidate"} => d = c

\* An event: the revision it extends, its result and the context after it.
Event(revision, result, c) == [revision |-> revision, result |-> result, context |-> c]

IsStart(e) == e.result = NoResult

\* The start of a session is not the result of an action.
ASSUME StartAssumption ==
  \A c, d \in Contexts : NoResult \notin ResultsOf(c, d)

\* _status_from_snapshot, or the status a decision or a stop leaves.
Status(e) ==
  CASE ~ IsStart(e) /\ e.result.kind = "human_decision" -> e.result.decision
    [] ~ IsStart(e) /\ e.result.kind = "stop_candidate" -> "stopped"
    [] NextAction(e.context)[1] = "human_decision"
         /\ (IsStart(e) \/ e.result.kind # "human_decision") -> "awaiting_human_decision"
    [] NextAction(e.context)[1] = "stop_candidate"
         /\ (IsStart(e) \/ e.result.kind # "stop_candidate") -> "candidate_rejected"
    [] OTHER -> "active"

IsClosing(e) == Status(e) \in {"approved", "rejected", "stopped"}

\* _verify_internal.  The hash chain makes a journal the sequence it was
\* written as: a changed line is one that does not verify, like Garbage.
Verifies(lines) ==
  /\ lines # <<>>
  /\ Garbage \notin ToSet(lines)
  /\ IsStart(lines[1])
  /\ \A i \in 2 .. Len(lines) :
       /\ ~ IsStart(lines[i])
       /\ ~ IsClosing(lines[i - 1])
       /\ lines[i].revision = i - 1
       /\ Legal(lines[i - 1].context, lines[i].result, lines[i].context)

-----------------------------------------------------------------------------
VARIABLES
  exists,   \* is there a journal file
  lines,    \* its lines
  ended,    \* does it end in a newline
  claim,    \* the agent that holds the session's claim, if any
  at,       \* where each agent is in its call
  event,    \* the event it wants to record
  acked     \* events some agent was told are recorded (history)

journal == <<exists, lines, ended>>
agents == <<claim, at, event>>
vars == <<journal, agents, acked>>

\* An agent that is in no call has nothing to record.
NoEvent == NoResult

TypeOK ==
  /\ exists \in BOOLEAN
  /\ ended \in BOOLEAN
  /\ claim \in {{}} \cup {{a} : a \in Agents}
  /\ at \in [Agents -> {"idle", "verify", "append", "replay", "retry"}]
  /\ \A a \in Agents : at[a] = "idle" <=> event[a] = NoEvent
  /\ \A e \in acked : e.context \in Contexts

Init ==
  /\ exists = FALSE
  /\ lines = <<>>
  /\ ended = TRUE
  /\ claim = {}
  /\ at = [a \in Agents |-> "idle"]
  /\ event = [a \in Agents |-> NoEvent]
  /\ acked = {}

Goto(a, from, to) == at[a] = from /\ at' = [at EXCEPT ![a] = to]

GiveUp(a) ==
  /\ at' = [at EXCEPT ![a] = "idle"]
  /\ event' = [event EXCEPT ![a] = NoEvent]
  /\ claim' = claim \ {a}

\* Mutant: the claim of the session is not taken.
CallAnyway(a, e) ==
  /\ Goto(a, "idle", "verify")
  /\ event' = [event EXCEPT ![a] = e]
  /\ claim' = claim \cup {a}
  /\ UNCHANGED <<journal, acked>>

\* A call takes the session's claim, without waiting for it.
Call(a, e) ==
  /\ claim = {}
  /\ Goto(a, "idle", "verify")
  /\ event' = [event EXCEPT ![a] = e]
  /\ claim' = {a}
  /\ UNCHANGED <<journal, acked>>

\* start_recommendation_session
CallStart(a) == \E c \in Contexts : Call(a, Event(0, NoResult, c))

\* The revisions an agent can have read with verify_recommendation_session,
\* now or some time ago.
Shown == {n \in DOMAIN lines : lines[n] # Garbage}

\* record_recommendation_action_result, for the next action of a revision the
\* agent was shown.  What it projects next is up to the context it is given.
CallRecord(a) ==
  \E n \in Shown, d \in Contexts :
    \E r \in ResultsOf(lines[n].context, d) : Call(a, Event(n, r, d))

\* A caller that did not hear the end of its call makes it again.
Retry(a) ==
  /\ claim = {}
  /\ Goto(a, "retry", "verify")
  /\ claim' = {a}
  /\ UNCHANGED <<journal, event, acked>>

\* It gives up instead.
Forget(a) ==
  /\ at[a] = "retry"
  /\ GiveUp(a)
  /\ UNCHANGED <<journal, acked>>

\* A session that does not exist yet is started.
VerifyStart(a) ==
  /\ Goto(a, "verify", "append")
  /\ IsStart(event[a])
  /\ ~ exists
  /\ UNCHANGED <<journal, claim, event, acked>>

\* Mutant: the expected revision is not compared.
VerifyAnyRevision(a) ==
  /\ Goto(a, "verify", "append")
  /\ ~ IsStart(event[a])
  /\ Verifies(lines)
  /\ ~ IsClosing(Last(lines))
  /\ Legal(Last(lines).context, event[a].result, event[a].context)
  /\ Len(lines) < MaxRevision
  /\ UNCHANGED <<journal, claim, event, acked>>

\* A result extends the revision its caller names, by a legal transition.
VerifyRecord(a) ==
  /\ Goto(a, "verify", "append")
  /\ ~ IsStart(event[a])
  /\ Verifies(lines)
  /\ event[a].revision = Len(lines)
  /\ ~ IsClosing(Last(lines))
  /\ Legal(Last(lines).context, event[a].result, event[a].context)
  /\ Len(lines) < MaxRevision
  /\ UNCHANGED <<journal, claim, event, acked>>

Answer(a) ==
  /\ GiveUp(a)
  /\ acked' = acked \cup {event[a]}
  /\ UNCHANGED journal

\* already_recorded: the start, or the last result, over again.
AlreadyRecorded(a) ==
  /\ at[a] = "verify"
  /\ Verifies(lines)
  /\ \/ IsStart(event[a]) /\ lines[1] = event[a]
     \/ ~ IsStart(event[a]) /\ Last(lines) = event[a]
  /\ Answer(a)

\* A write onto a line that has no newline yet makes one line of the two.
Written(line) ==
  IF ended THEN Append(lines, line)
  ELSE Append(Front(lines), Garbage)

AppendEvent(a) ==
  /\ Goto(a, "append", "replay")
  /\ exists' = TRUE
  /\ lines' = Written(event[a])
  /\ ended' = TRUE
  /\ UNCHANGED <<claim, event, acked>>

\* The whole journal is verified again before the call answers.
Replay(a) ==
  /\ at[a] = "replay"
  /\ Verifies(lines)
  /\ Answer(a)

\* Every check that raises: a journal that does not verify, a stale or
\* mismatched revision, a closed session, an illegal transition, a conflicting
\* start.
Refuse(a) ==
  /\ at[a] \in {"verify", "replay"}
  /\ GiveUp(a)
  /\ UNCHANGED <<journal, acked>>

\* The process dies, or a write fails; the kernel drops the claim.  Once it had
\* begun to write, or when only its answer is lost, the caller knows what to
\* ask for again.
Crash(a) ==
  /\ at[a] \in {"append", "replay"}
  /\ at' = [at EXCEPT ![a] = "retry"]
  /\ claim' = claim \ {a}
  /\ UNCHANGED <<journal, event, acked>>

\* It dies, or the disk is full, while the file is open for appending: the
\* file may be there without a line, with part of one, or with a whole event
\* that lacks its newline.
Tear(a) ==
  /\ at[a] = "append"
  /\ exists' = TRUE
  /\ \/ lines' = <<>> /\ lines = <<>> /\ ended' = TRUE
     \/ lines' = Written(Garbage) /\ ended' = FALSE
     \/ /\ MayLoseNewline
        /\ lines' = Written(event[a])
        /\ ended' = FALSE
  /\ at' = [at EXCEPT ![a] = "retry"]
  /\ claim' = claim \ {a}
  /\ UNCHANGED <<event, acked>>

AgentStep(a) ==
  \/ CallStart(a) \/ CallRecord(a) \/ Retry(a) \/ Forget(a)
  \/ VerifyStart(a) \/ VerifyRecord(a) \/ AlreadyRecorded(a)
  \/ AppendEvent(a) \/ Replay(a)
  \/ Refuse(a) \/ Crash(a) \/ Tear(a)

Next == \E a \in Agents : AgentStep(a)

Spec == Init /\ [][Next]_vars

-----------------------------------------------------------------------------
(* Properties *)

\* A journal whose lines are all whole replays: whatever was checked when an
\* event was appended is what replay asks for.
WholeJournalVerifies ==
  lines # <<>> /\ Garbage \notin ToSet(lines) => Verifies(lines)

\* A human approves only measured benefit, with active evidence of the problem
\* and nothing missing, and exactly the context that was shown for decision.
ApprovalIsGated ==
  \A i \in DOMAIN lines \ {1} :
    lines[i] # Garbage /\ Status(lines[i]) = "approved" =>
      /\ lines[i].context.evidence
      /\ lines[i].context.missing = {}
      /\ lines[i].context.basis = "measured" /\ lines[i].context.better
      /\ lines[i - 1].context = lines[i].context

\* The lines that record something: only the last one can be incomplete.
Recorded ==
  IF lines # <<>> /\ Last(lines) = Garbage THEN Front(lines) ELSE lines

Log == INSTANCE SessionLog
         WITH log <- Recorded,
              acked <- {e.revision + 1 : e \in acked},
              IsClosing <- IsClosing

\* The session is the log it promises: one successor per revision, nothing
\* after closure, nothing acknowledged that is not there.
ImplementsLog == Log!LogSpec
=============================================================================
