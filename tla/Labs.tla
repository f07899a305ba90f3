--------------------------------- MODULE Labs ---------------------------------
(***************************************************************************)
(* The laboratories and what is concluded from them: each behaviour runs   *)
(* one laboratory.  A diagnosis is confirmed from documents, of which the  *)
(* laboratory writes some and others come from elsewhere, so that what is  *)
(* confirmed is compared here with what really happened.                   *)
(***************************************************************************)
EXTENDS TransactionLabs, DuplicateEffectLab, PoolLab, MessagingLabs, NetworkLabs

CONSTANTS
  OtherCanonicals   \* canonical evidence that a laboratory did not write

OtherLabs == {"effect", "pool", "traced", "admission", "messaging", "network", "connection"}

labVars == <<lab, txVars, dupVars, poolVars, msgVars, netemVars, connVars>>

-----------------------------------------------------------------------------
Ended ==
  \/ lab \in TransactionLab /\ main \in {"done", "failed"}
  \/ dupAt \in {"done", "failed"}
  \/ poolAt \in {"done", "failed"}
  \/ admAt \in {"done", "failed"}
  \/ MessagingEnds
  \/ NetemEnds
  \/ ConnectionEnds

LabInit ==
  /\ lab \in TransactionLab \cup OtherLabs
  /\ TxInit
  /\ DupInit(lab = "effect")
  /\ PoolInit(lab)
  /\ MsgInit(lab = "messaging")
  /\ NetemInit(lab = "network")
  /\ ConnectionInit(lab = "connection")

LabNext ==
  \/ TxNext /\ UNCHANGED <<lab, dupVars, poolVars, msgVars, netemVars, connVars>>
  \/ DupNext /\ UNCHANGED <<lab, txVars, poolVars, msgVars, netemVars, connVars>>
  \/ PoolNext /\ UNCHANGED <<lab, txVars, dupVars, msgVars, netemVars, connVars>>
  \/ MsgNext /\ UNCHANGED <<lab, txVars, dupVars, poolVars, netemVars, connVars>>
  \/ NetemNext /\ UNCHANGED <<lab, txVars, dupVars, poolVars, msgVars, connVars>>
  \/ ConnectionNext /\ UNCHANGED <<lab, txVars, dupVars, poolVars, msgVars, netemVars>>

\* The sessions run, the threads of the laboratories are scheduled, and every
\* wait of a probe has a deadline.
LabFairness ==
  /\ WF_labVars(TxSessionStep /\ UNCHANGED <<lab, dupVars, poolVars, msgVars, netemVars, connVars>>)
  /\ WF_labVars(TxMain /\ UNCHANGED <<lab, dupVars, poolVars, msgVars, netemVars, connVars>>)
  /\ WF_labVars(DupMain /\ UNCHANGED <<lab, txVars, poolVars, msgVars, netemVars, connVars>>)
  /\ WF_labVars(PoolProbe /\ UNCHANGED <<lab, txVars, dupVars, msgVars, netemVars, connVars, admVars, failures>>)
  /\ WF_labVars(AdmissionProbe /\ UNCHANGED <<lab, txVars, dupVars, msgVars, netemVars, connVars, appVars, failures>>)
  /\ WF_labVars(Takes /\ UNCHANGED <<lab, txVars, dupVars, poolVars, netemVars, connVars>>)
  /\ WF_labVars(NetemProbe /\ UNCHANGED <<lab, txVars, dupVars, poolVars, msgVars, connVars>>)
  /\ WF_labVars(ConnectionProbe /\ UNCHANGED <<lab, txVars, dupVars, poolVars, msgVars, netemVars>>)

LabSpec == LabInit /\ [][LabNext]_labVars /\ LabFairness

-----------------------------------------------------------------------------
\* A deadlock confirmed from the laboratory's correlation, by the dedicated chain
\* or by the profile, whatever other documents go with it, is one of the incident
\* and the executions for which the database aborted the named victim.
Correlations == {d \in published : d.kind = "correlation"}
Canonicals == {d \in published : d.kind = "evidence"} \cup OtherCanonicals

SameExecution(e, f) == e.id = f.id /\ e.trace = f.trace /\ e.symbol = f.symbol

DeadlockHappened(runtime, correlation) ==
  /\ specs.runtime.incident = runtime.incident
  /\ specs.static.revision = runtime.revision
  /\ \E h \in Deadlocks :
       /\ correlation.victim.pid = h.session
       /\ correlation.victim.execution = ExecutionOf(h.session).id
       /\ \A s \in Session : \E e \in runtime.executions : SameExecution(e, ExecutionOf(s))

ConfirmedDeadlockHappened ==
  \A correlation \in Correlations, static \in Contracts, runtime \in RuntimeDocs :
    (\/ \E some \in SUBSET Canonicals :
          Confirms(static, runtime, DatabaseProjection(static, runtime, some), correlation)
     \/ \E one \in Canonicals :
          DeadlockProfile(static, runtime, one, correlation) = "CAUSAL_DIAGNOSIS_CONFIRMED")
    => DeadlockHappened(runtime, correlation)

-----------------------------------------------------------------------------
\* The profile of duplicate effects confirms a duplicate only if the provider
\* applied both unsafe requests, the first of which had timed out, and answered
\* the protected retry with the effect of the protected first attempt.
EffectConfirmed ==
  DuplicateProfile(jobSpace, DupRuntime, evidence, DupCanonical) = "CAUSAL_DIAGNOSIS_CONFIRMED"

DuplicateHappened ==
  /\ attempts[1].outcome = "timeout"
  /\ answers[1].id # answers[2].id
  /\ answers[4].deduplicated /\ answers[4].id = answers[3].id

ConfirmedDuplicateHappened ==
  evidence # Missing /\ EffectConfirmed => DuplicateHappened

\* The dedicated confirmation asks for a protected retry that the provider
\* "explicitly deduplicated"; so it should have been.
DedicatedRetryWasDeduplicated ==
  evidence # Missing /\ ConfirmsDuplicate(jobSpace, DupRuntime, evidence, DupCanonical)
  => answers[4].deduplicated

-----------------------------------------------------------------------------
\* An exhausted pool confirmed from the traced probe's evidence, with whatever
\* runtime facts, is about the traced request, which queued behind the holder.
ConfirmedPoolWaitHappened ==
  poolEvidence # Missing /\ IsTraced =>
    \A runtime \in {TracedRuntime} \cup PoolDocs :
      PoolConfirmedBy(runtime) =>
        /\ asked = "queued"
        /\ samples[2].wait
        /\ \E e \in runtime.executions : e.trace = poolEvidence.trace

-----------------------------------------------------------------------------
\* A probe that says its experiment supports its claim saw the failure in the
\* phase that provokes it and in no other one, and saw what it provoked.  Silence
\* is excepted: a connection or a query that gets no answer may as well be lost; and
\* the retransmissions of a slow stream show that packets were lost or only late.
Waits(n) == \E h \in history : h.phase = n /\ h.what = "waited" /\ h.session = "B"
Wrote(n) == {h.session : h \in {h \in history : h.phase = n /\ h.what = "wrote"}}

Fates(n) == {f.fate : f \in {f \in fates : f.part = n}}

\* What leaves the trace the probe rests on: what its rule does and, since TCP also
\* repeats what is only late, any delay.
Causes == IF netem = "lossTcp" THEN {"lost", "late"} ELSE {FateOf[netem]}

EffectHappened ==
  /\ \A f \in fates : f.part = 2 => f.rule
  /\ netem # "corruption" => Causes \cap Fates(2) # {}
  /\ netem = "loss" => Fates(2) = {"lost"}
  /\ netem \in {"loss", "duplication", "reordering", "corruption"} =>
       FateOf[netem] \notin Fates(1) \cup Fates(3)
  /\ netem \in {"jitter", "lossTcp", "corruptionTcp"} => \A f \in fates : f.part = 3 => ~f.rule

TransactionsEarned ==
  Concluded =>
    CASE lab = "deadlock" -> {h.phase : h \in Deadlocks} = {2}
      [] lab = "skew" -> Wrote(2) = Session /\ Cardinality(Wrote(3)) = 1
      [] lab = "serialization" -> Wrote(1) = Session /\ Wrote(2) = {"B"} /\ Wrote(3) = {"A"}
      [] lab = "lock" -> Waits(2) /\ ~Waits(1) /\ ~Waits(3)

PoolEarned == poolAt = "done" /\ ~IsTraced /\ PoolSupports => \E i \in During : samples[i].wait

AdmissionEarned == AdmissionSupports => wasFull

NetworkEarned == NetemSupports => EffectHappened

ConnectionEarned ==
  ConnectionSupports /\ conn \notin {"timeout", "silence"} => tries[2].isRejection

SupportsIsEarned ==
  TransactionsEarned /\ PoolEarned /\ AdmissionEarned /\ NetworkEarned /\ ConnectionEarned

\* A messaging probe that reaches its end has seen what its assertions expect,
\* whatever runs of it that were killed had left in Redis.
RerunsAgree == MessagingEnds => agreed

\* Every laboratory ends.
LabsEnd == <>Ended
=============================================================================
