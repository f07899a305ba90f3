----------------------- MODULE EvidenceWriters_proofs -----------------------
(***************************************************************************)
(* What EvidenceWriters guarantees for every set of processes, every set   *)
(* of instances and every lock directory.                                  *)
(*                                                                         *)
(* The argument is layered.  The types, with the fact that a process that  *)
(* uses its journal document has one, need nothing.  Exclusion between     *)
(* processes with the same claim file needs the types.  Everything about   *)
(* the files needs calls to be serialized, which is assumed by name.       *)
(***************************************************************************)
EXTENDS EvidenceWriters, TLAPS

\* Steps at which a process holds a journal document in memory.
WithDocument == {"roll_evidence", "roll_snapshot", "roll_clear", "commit",
                 "put_evidence", "put_snapshot", "clear", "return"}

DocumentInv == \A w \in Writers : pc[w] \in WithDocument => doc[w] \in Commits

TypeInv == TypeOK /\ DocumentInv

-----------------------------------------------------------------------------
\* A prepared journal is a journal: prepare_commit validates what it builds.
LEMMA PreparedIsCommit ==
  ASSUME NEW r \in Nat, NEW composed \in SUBSET Instances
  PROVE  PrepareCommit(r, composed) \in Commits
  BY DEF PrepareCommit, Diagnosis, Commits, Snapshots

\* What leaving a call does to the type invariant, for every way of leaving.
LEMMA ReleaseTypes ==
  ASSUME TypeInv, NEW w \in Writers, Release(w), UNCHANGED files,
         acked' \in SUBSET Instances
  PROVE  TypeInv'
  BY DEF TypeInv, TypeOK, DocumentInv, FilesTypeOK, Release, files, Steps,
         WithDocument

\* What taking the claim does to it, for every tool.
LEMMA ClaimTypes ==
  ASSUME TypeInv, NEW w \in Writers, Claim(w), UNCHANGED <<files, seen, base, doc, acked>>,
         asked' \in [Writers -> Nat]
  PROVE  TypeInv'
  BY DEF TypeInv, TypeOK, DocumentInv, FilesTypeOK, Claim, Goto, files, Steps,
         WithDocument, ClaimPaths

\* The type invariant, strengthened, is preserved by every step.
LEMMA TypeStep == TypeInv /\ [Next]_vars => TypeInv'
<1> SUFFICES ASSUME TypeInv, [Next]_vars PROVE TypeInv'
  OBVIOUS
<1> USE DEF TypeInv, TypeOK, DocumentInv, FilesTypeOK, Goto, files, Steps, WithDocument
<1>1. CASE UNCHANGED vars
  BY <1>1 DEF vars, locals
<1>2. ASSUME NEW w \in Writers, NEW r \in 0 .. snapshot.revision + 1,
             CallAtRevision(w, r)
      PROVE  TypeInv'
  <2>1. r \in Nat
    BY <1>2
  <2> QED
    BY <1>2, <2>1, ClaimTypes DEF CallAtRevision
<1>3. ASSUME NEW w \in Writers, CallImport(w) PROVE TypeInv'
  BY <1>3, ClaimTypes DEF CallImport
<1>4. ASSUME NEW w \in Writers, RecoverNothing(w) PROVE TypeInv'
  BY <1>4 DEF RecoverNothing
<1>5. ASSUME NEW w \in Writers, RecoverRead(w) PROVE TypeInv'
  BY <1>5 DEF RecoverRead
<1>6. ASSUME NEW w \in Writers, RecoverEvidence(w) PROVE TypeInv'
  BY <1>6 DEF RecoverEvidence, WriteEvidence, Commits
<1>7. ASSUME NEW w \in Writers, RecoverSnapshot(w) PROVE TypeInv'
  BY <1>7 DEF RecoverSnapshot, WriteSnapshot, Commits
<1>8. ASSUME NEW w \in Writers, RecoverClear(w) PROVE TypeInv'
  BY <1>8 DEF RecoverClear, ClearCommit
<1>9. ASSUME NEW w \in Writers, CheckRevision(w) PROVE TypeInv'
  BY <1>9 DEF CheckRevision, Snapshots
<1>10. ASSUME NEW w \in Writers, LoadEvidence(w) PROVE TypeInv'
  BY <1>10 DEF LoadEvidence
<1>11. ASSUME NEW w \in Writers, NEW produced \in SUBSET Produced,
              Execute(w, produced)
       PROVE  TypeInv'
  <2>1. PrepareCommit(seen[w], base[w] \cup produced) \in Commits
    BY PreparedIsCommit, WritersAssumption
  <2> QED
    BY <1>11, <2>1 DEF Execute
<1>12. ASSUME NEW w \in Writers, Refuse(w) PROVE TypeInv'
  BY <1>12, ReleaseTypes DEF Refuse
<1>13. ASSUME NEW w \in Writers, CommitJournal(w) PROVE TypeInv'
  BY <1>13 DEF CommitJournal, WriteCommit
<1>14. ASSUME NEW w \in Writers, CommitEvidence(w) PROVE TypeInv'
  BY <1>14 DEF CommitEvidence, WriteEvidence, Commits
<1>15. ASSUME NEW w \in Writers, CommitSnapshot(w) PROVE TypeInv'
  BY <1>15 DEF CommitSnapshot, WriteSnapshot, Commits
<1>16. ASSUME NEW w \in Writers, CommitClear(w) PROVE TypeInv'
  BY <1>16 DEF CommitClear, ClearCommit
<1>17. ASSUME NEW w \in Writers, Return(w) PROVE TypeInv'
  <2>1. doc[w].evidence \in SUBSET Instances
    BY <1>17 DEF Return, Commits
  <2> QED
    BY <1>17, <2>1, ReleaseTypes DEF Return
<1>18. ASSUME NEW w \in Writers, Crash(w) PROVE TypeInv'
  BY <1>18, ReleaseTypes DEF Crash
<1> QED
  BY <1>1, <1>2, <1>3, <1>4, <1>5, <1>6, <1>7, <1>8, <1>9, <1>10, <1>11,
     <1>12, <1>13, <1>14, <1>15, <1>16, <1>17, <1>18
     DEF Next, Call, CallRouted, CallRanked, Step

\* The incident starts well typed.
LEMMA TypeInitially == Init => TypeInv
  BY SeedAssumption
     DEF Init, FilesInit, Diagnosis, TypeInv, TypeOK, DocumentInv, FilesTypeOK,
         Snapshots, Steps, WithDocument

\* No process commits or rolls forward a document it does not have.
LEMMA TypeInvariance == Spec => []TypeInv
  BY TypeInitially, TypeStep, PTL DEF Spec

\* Every reachable state is well typed, for every deployment.
THEOREM TypeCorrect == Spec => []TypeOK
<1>1. TypeInv => TypeOK
  BY DEF TypeInv
<1> QED
  BY <1>1, TypeInvariance, PTL

-----------------------------------------------------------------------------
(***************************************************************************)
(* Exclusion.  A process in a call holds its claim file, and two processes *)
(* with the same file are not both in a call.                              *)
(***************************************************************************)
ClaimInv == HoldsClaim /\ ClaimExcludes

\* A step in the middle of a call moves one process between two steps of its
\* call and leaves the claim files alone.
Within(w) ==
  /\ InCall(w)
  /\ \E to \in Steps \ {"idle"} : pc' = [pc EXCEPT ![w] = to]
  /\ locked' = locked

\* Every step is a claim, a release, a step within one call, or a stutter.
LEMMA NextByClaim ==
  ASSUME TypeInv, Next
  PROVE  \E w \in Writers : Claim(w) \/ (InCall(w) /\ Release(w)) \/ Within(w)
<1> USE DEF Within, InCall, Goto, Steps
<1>1. ASSUME NEW w \in Writers, Call(w) PROVE Claim(w)
  BY <1>1 DEF Call, CallRouted, CallRanked, CallImport, CallAtRevision
<1>2. ASSUME NEW w \in Writers, Refuse(w) \/ Return(w) \/ Crash(w)
      PROVE  InCall(w) /\ Release(w)
  BY <1>2 DEF Refuse, Return, Crash
<1>3. ASSUME NEW w \in Writers,
             \/ RecoverNothing(w) \/ RecoverRead(w) \/ RecoverEvidence(w)
             \/ RecoverSnapshot(w) \/ RecoverClear(w)
      PROVE  Within(w)
  BY <1>3 DEF RecoverNothing, RecoverRead, RecoverEvidence, RecoverSnapshot,
              RecoverClear
<1>4. ASSUME NEW w \in Writers,
             CheckRevision(w) \/ LoadEvidence(w)
      PROVE  Within(w)
  BY <1>4 DEF CheckRevision, LoadEvidence
<1>5. ASSUME NEW w \in Writers, NEW produced \in SUBSET Produced, Execute(w, produced)
      PROVE  Within(w)
  BY <1>5 DEF Execute
<1>6. ASSUME NEW w \in Writers,
             CommitJournal(w) \/ CommitEvidence(w) \/ CommitSnapshot(w) \/ CommitClear(w)
      PROVE  Within(w)
  BY <1>6 DEF CommitJournal, CommitEvidence, CommitSnapshot, CommitClear
<1> QED
  BY <1>1, <1>2, <1>3, <1>4, <1>5, <1>6 DEF Next, Step

\* Exclusion is preserved: a claim needs its file free, a release gives back
\* a file nobody else in a call can hold.
LEMMA ClaimStep == TypeInv /\ ClaimInv /\ [Next]_vars => ClaimInv'
<1> SUFFICES ASSUME TypeInv, ClaimInv, [Next]_vars PROVE ClaimInv'
  OBVIOUS
<1> USE DEF ClaimInv, HoldsClaim, ClaimExcludes, InCall, TypeInv, TypeOK
<1>1. ASSUME NEW w \in Writers, Claim(w) PROVE ClaimInv'
  BY <1>1 DEF Claim, Goto
<1>2. ASSUME NEW w \in Writers, InCall(w), Release(w) PROVE ClaimInv'
  BY <1>2 DEF Release
<1>3. ASSUME NEW w \in Writers, Within(w) PROVE ClaimInv'
  BY <1>3 DEF Within
<1>4. CASE UNCHANGED vars
  BY <1>4 DEF vars, locals
<1> QED
  BY <1>1, <1>2, <1>3, <1>4, NextByClaim

LEMMA ClaimInvariance == Spec => []ClaimInv
<1>1. Init => ClaimInv
  BY DEF Init, ClaimInv, HoldsClaim, ClaimExcludes, InCall
<1> QED
  BY <1>1, ClaimStep, TypeInvariance, PTL DEF Spec

\* Two processes that derive the same claim file are never both in a call,
\* for any number of processes, tools, directories and crashes.
THEOREM ClaimsExclude == Spec => []ClaimExcludes
<1>1. ClaimInv => ClaimExcludes
  BY DEF ClaimInv
<1> QED
  BY <1>1, ClaimInvariance, PTL

-----------------------------------------------------------------------------
(***************************************************************************)
(* One call at a time.  Serialized says how the deployment achieves it:    *)
(* calls that may overlap use one claim file.                              *)
(***************************************************************************)
LEMMA OneCallStep ==
  ASSUME Serialized
  PROVE  TypeInv /\ ClaimInv /\ OneCallAtATime /\ [Next]_vars => OneCallAtATime'
<1> SUFFICES ASSUME TypeInv, ClaimInv, OneCallAtATime, [Next]_vars
             PROVE  OneCallAtATime'
  OBVIOUS
<1> USE DEF OneCallAtATime, InCall, TypeInv, TypeOK
<1>1. ASSUME NEW w \in Writers, Claim(w) PROVE OneCallAtATime'
  <2>1. \A v \in Writers : pc[v] = "idle"
    BY <1>1 DEF Claim, Serialized, ClaimInv, HoldsClaim
  <2> QED
    BY <1>1, <2>1 DEF Claim, Goto
<1>2. ASSUME NEW w \in Writers, InCall(w), Release(w) PROVE OneCallAtATime'
  BY <1>2 DEF Release
<1>3. ASSUME NEW w \in Writers, Within(w) PROVE OneCallAtATime'
  BY <1>3 DEF Within
<1>4. CASE UNCHANGED vars
  BY <1>4 DEF vars, locals
<1> QED
  BY <1>1, <1>2, <1>3, <1>4, NextByClaim

LEMMA OneCallInvariance ==
  ASSUME Serialized
  PROVE  Spec => []OneCallAtATime
<1>1. Init => OneCallAtATime
  BY DEF Init, OneCallAtATime, InCall
<1> QED
  BY <1>1, OneCallStep, TypeInvariance, ClaimInvariance, PTL DEF Spec

-----------------------------------------------------------------------------
(***************************************************************************)
(* The files.  FileFacts speaks of the disk alone; CallInv(w) ties what a  *)
(* process remembers to the disk.  With one call at a time every other     *)
(* process is idle, and an idle process remembers nothing.                 *)
(***************************************************************************)
FileFacts ==
  /\ TornPairIsJournaled
  /\ DiagnosisBehindEvidence
  /\ JournalExtendsFiles
  /\ AckedEvidenceIsKept

CallInv(w) == RollForwardInv(w) /\ PrepareInv(w) /\ PublishInv(w)

FilesInv == FileFacts /\ \A w \in Writers : CallInv(w)

\* What a step may use: the state is well formed and w is the only caller.
Alone(w) == TypeInv /\ FilesInv /\ (\A v \in Writers \ {w} : pc[v] = "idle")

LEMMA IdleKnowsNothing ==
  ASSUME NEW v \in Writers, pc'[v] = "idle"
  PROVE  CallInv(v)'
  BY DEF CallInv, RollForwardInv, PrepareInv, PublishInv, Recovering, Publishing

\* It is enough to look at the process that moves.
LEMMA OnlyTheCaller ==
  ASSUME NEW w \in Writers, Alone(w), FileFacts', CallInv(w)',
         \A v \in Writers \ {w} : pc'[v] = pc[v]
  PROVE  FilesInv'
<1>1. \A v \in Writers \ {w} : pc'[v] = "idle"
  BY DEF Alone
<1> QED
  BY <1>1, IdleKnowsNothing DEF FilesInv

\* Leaving a call without an answer changes no file.
LEMMA LeaveFiles ==
  ASSUME NEW w \in Writers, Alone(w), Release(w), UNCHANGED <<files, acked>>
  PROVE  FilesInv'
<1> USE DEF Alone, TypeInv, TypeOK
<1>1. FileFacts'
  BY DEF FilesInv, FileFacts, TornPairIsJournaled, DiagnosisBehindEvidence,
         JournalExtendsFiles, AckedEvidenceIsKept, StateInstances, files
<1>2. pc'[w] = "idle" /\ \A v \in Writers \ {w} : pc'[v] = pc[v]
  BY DEF Release
<1> QED
  BY <1>1, <1>2, IdleKnowsNothing, OnlyTheCaller

\* A new call knows nothing of the files yet.
LEMMA ClaimFiles ==
  ASSUME NEW w \in Writers, Alone(w), Claim(w), UNCHANGED <<files, acked>>
  PROVE  FilesInv'
<1> USE DEF Alone, TypeInv, TypeOK
<1>1. FileFacts'
  BY DEF FilesInv, FileFacts, TornPairIsJournaled, DiagnosisBehindEvidence,
         JournalExtendsFiles, AckedEvidenceIsKept, StateInstances, files
<1>2. pc'[w] = "recover" /\ \A v \in Writers \ {w} : pc'[v] = pc[v]
  BY DEF Claim, Goto
<1>3. CallInv(w)'
  BY <1>2 DEF CallInv, RollForwardInv, PrepareInv, PublishInv, Recovering, Publishing
<1> QED
  BY <1>1, <1>2, <1>3, OnlyTheCaller

\* Rolling a journal forward: each write moves the files towards it.
LEMMA RecoverFiles ==
  ASSUME NEW w \in Writers, Alone(w),
         \/ RecoverNothing(w) \/ RecoverRead(w) \/ RecoverEvidence(w)
         \/ RecoverSnapshot(w) \/ RecoverClear(w)
  PROVE  FilesInv'
<1> USE DEF Alone, TypeInv, TypeOK, DocumentInv, WithDocument, FilesTypeOK, Goto,
            FilesInv, FileFacts, TornPairIsJournaled, DiagnosisBehindEvidence,
            JournalExtendsFiles, AckedEvidenceIsKept, StateInstances, files,
            CallInv, RollForwardInv, PrepareInv, PublishInv, Recovering, Publishing
<1>1. CASE RecoverNothing(w)
  <2>1. FileFacts' /\ CallInv(w)'
    BY <1>1 DEF RecoverNothing
  <2> QED
    BY <1>1, <2>1, OnlyTheCaller DEF RecoverNothing
<1>2. CASE RecoverRead(w)
  <2>1. FileFacts' /\ CallInv(w)'
    BY <1>2 DEF RecoverRead
  <2> QED
    BY <1>2, <2>1, OnlyTheCaller DEF RecoverRead
<1>3. CASE RecoverEvidence(w)
  <2>1. FileFacts' /\ CallInv(w)'
    BY <1>3 DEF RecoverEvidence, WriteEvidence
  <2> QED
    BY <1>3, <2>1, OnlyTheCaller DEF RecoverEvidence
<1>4. CASE RecoverSnapshot(w)
  <2>1. FileFacts' /\ CallInv(w)'
    BY <1>4 DEF RecoverSnapshot, WriteSnapshot
  <2> QED
    BY <1>4, <2>1, OnlyTheCaller DEF RecoverSnapshot
<1>5. CASE RecoverClear(w)
  <2>1. FileFacts' /\ CallInv(w)'
    BY <1>5 DEF RecoverClear, ClearCommit
  <2> QED
    BY <1>5, <2>1, OnlyTheCaller DEF RecoverClear
<1> QED
  BY <1>1, <1>2, <1>3, <1>4, <1>5

\* Reading the revision and the evidence, and composing the journal: what is
\* remembered is what the files hold.
LEMMA PrepareFiles ==
  ASSUME NEW w \in Writers, Alone(w),
         \/ CheckRevision(w) \/ LoadEvidence(w)
         \/ \E produced \in SUBSET Produced : Execute(w, produced)
  PROVE  FilesInv'
<1> USE DEF Alone, TypeInv, TypeOK, DocumentInv, WithDocument, FilesTypeOK, Goto,
            FilesInv, FileFacts, TornPairIsJournaled, DiagnosisBehindEvidence,
            JournalExtendsFiles, AckedEvidenceIsKept, StateInstances, files,
            CallInv, RollForwardInv, PrepareInv, PublishInv, Recovering, Publishing
<1>1. CASE CheckRevision(w)
  <2>1. FileFacts' /\ CallInv(w)'
    BY <1>1 DEF CheckRevision
  <2> QED
    BY <1>1, <2>1, OnlyTheCaller DEF CheckRevision
<1>2. CASE LoadEvidence(w)
  <2>1. FileFacts' /\ CallInv(w)'
    BY <1>2 DEF LoadEvidence
  <2> QED
    BY <1>2, <2>1, OnlyTheCaller DEF LoadEvidence
<1>3. ASSUME NEW produced \in SUBSET Produced, Execute(w, produced)
      PROVE  FilesInv'
  <2>1. doc'[w] = PrepareCommit(seen[w], base[w] \cup produced)
    BY <1>3 DEF Execute
  <2>2. doc'[w].evidence = base[w] \cup produced
    BY <2>1 DEF PrepareCommit
  <2>3. FileFacts' /\ CallInv(w)'
    BY <1>3, <2>1, <2>2 DEF Execute
  <2> QED
    BY <1>3, <2>3, OnlyTheCaller DEF Execute
<1> QED
  BY <1>1, <1>2, <1>3

\* Committing: the journal first, then the files it describes, then nothing
\* of it is left.
LEMMA CommitFiles ==
  ASSUME NEW w \in Writers, Alone(w),
         CommitJournal(w) \/ CommitEvidence(w) \/ CommitSnapshot(w) \/ CommitClear(w)
  PROVE  FilesInv'
<1> USE DEF Alone, TypeInv, TypeOK, DocumentInv, WithDocument, FilesTypeOK, Goto,
            FilesInv, FileFacts, TornPairIsJournaled, DiagnosisBehindEvidence,
            JournalExtendsFiles, AckedEvidenceIsKept, StateInstances, files,
            CallInv, RollForwardInv, PrepareInv, PublishInv, Recovering, Publishing
<1>1. CASE CommitJournal(w)
  <2>1. doc[w] \in Commits /\ doc[w] # NoCommit
    BY <1>1, NoCommitAssumption DEF CommitJournal
  <2>2. doc[w].snapshot.instances = doc[w].evidence
    BY <1>1 DEF CommitJournal, PrepareCommit, Diagnosis
  <2>3. FileFacts' /\ CallInv(w)'
    BY <1>1, <2>1, <2>2 DEF CommitJournal, WriteCommit
  <2> QED
    BY <1>1, <2>3, OnlyTheCaller DEF CommitJournal
<1>2. CASE CommitEvidence(w)
  <2>1. FileFacts' /\ CallInv(w)'
    BY <1>2 DEF CommitEvidence, WriteEvidence
  <2> QED
    BY <1>2, <2>1, OnlyTheCaller DEF CommitEvidence
<1>3. CASE CommitSnapshot(w)
  <2>1. FileFacts' /\ CallInv(w)'
    BY <1>3 DEF CommitSnapshot, WriteSnapshot
  <2> QED
    BY <1>3, <2>1, OnlyTheCaller DEF CommitSnapshot
<1>4. CASE CommitClear(w)
  <2>1. doc[w] # NoCommit
    BY <1>4, NoCommitAssumption DEF CommitClear
  <2>2. FileFacts' /\ CallInv(w)'
    BY <1>4, <2>1 DEF CommitClear, ClearCommit
  <2> QED
    BY <1>4, <2>2, OnlyTheCaller DEF CommitClear
<1> QED
  BY <1>1, <1>2, <1>3, <1>4

\* Reporting what was added: it is in the evidence file by then.
LEMMA ReturnFiles ==
  ASSUME NEW w \in Writers, Alone(w), Return(w)
  PROVE  FilesInv'
<1> USE DEF Alone, TypeInv, TypeOK
<1>1. FileFacts'
  BY DEF FilesInv, FileFacts, TornPairIsJournaled, DiagnosisBehindEvidence,
         JournalExtendsFiles, AckedEvidenceIsKept, StateInstances, files,
         CallInv, PublishInv, Return
<1>2. pc'[w] = "idle" /\ \A v \in Writers \ {w} : pc'[v] = pc[v]
  BY DEF Return, Release
<1> QED
  BY <1>1, <1>2, IdleKnowsNothing, OnlyTheCaller

\* The step of the whole argument: one call at a time keeps files and memory
\* in agreement.
LEMMA FilesStep ==
  ASSUME Serialized
  PROVE  /\ TypeInv /\ ClaimInv /\ OneCallAtATime /\ FilesInv
         /\ [Next]_vars
         => FilesInv'
<1> SUFFICES ASSUME TypeInv, ClaimInv, OneCallAtATime, FilesInv, [Next]_vars
             PROVE  FilesInv'
  OBVIOUS
<1>1. ASSUME NEW w \in Writers, Call(w) PROVE FilesInv'
  <2>1. Claim(w) /\ UNCHANGED <<files, acked>>
    BY <1>1 DEF Call, CallRouted, CallRanked, CallImport, CallAtRevision
  <2>2. \A v \in Writers : pc[v] = "idle"
    BY <2>1 DEF Claim, Serialized, ClaimInv, HoldsClaim, InCall
  <2> QED
    BY <2>1, <2>2, ClaimFiles DEF Alone
<1>2. ASSUME NEW w \in Writers, Step(w) \/ Crash(w) PROVE FilesInv'
  <2>1. InCall(w)
    BY <1>2 DEF Step, Crash, InCall, RecoverNothing, RecoverRead, RecoverEvidence,
                RecoverSnapshot, RecoverClear, CheckRevision, LoadEvidence, Execute,
                Refuse, CommitJournal, CommitEvidence, CommitSnapshot, CommitClear,
                Return, Goto
  <2>2. Alone(w)
    BY <2>1 DEF Alone, OneCallAtATime, InCall
  <2>3. CASE Refuse(w) \/ Crash(w)
    BY <2>2, <2>3, LeaveFiles DEF Refuse, Crash
  <2>4. CASE Return(w)
    BY <2>2, <2>4, ReturnFiles
  <2> QED
    BY <1>2, <2>2, <2>3, <2>4, RecoverFiles, PrepareFiles, CommitFiles DEF Step
<1>3. CASE UNCHANGED vars
  BY <1>3 DEF vars, locals, files, FilesInv, FileFacts, TornPairIsJournaled,
         DiagnosisBehindEvidence, JournalExtendsFiles, AckedEvidenceIsKept,
         StateInstances, CallInv, RollForwardInv, PrepareInv, PublishInv,
         Recovering, Publishing
<1> QED
  BY <1>1, <1>2, <1>3 DEF Next

LEMMA FilesInvariance ==
  ASSUME Serialized
  PROVE  Spec => []FilesInv
<1>1. Init => FilesInv
  BY DEF Init, FilesInit, Diagnosis, FilesInv, FileFacts, TornPairIsJournaled,
         DiagnosisBehindEvidence, JournalExtendsFiles, AckedEvidenceIsKept,
         StateInstances, CallInv, RollForwardInv, PrepareInv, PublishInv,
         Recovering, Publishing
<1> QED
  BY <1>1, FilesStep, TypeInvariance, ClaimInvariance, OneCallInvariance, PTL
     DEF Spec

-----------------------------------------------------------------------------
(* The results for a deployment that serializes its calls. *)

\* A diagnosis and evidence that disagree are on disk only beside a journal.
THEOREM TornPairs ==
  ASSUME Serialized
  PROVE  Spec => []TornPairIsJournaled
<1>1. FilesInv => TornPairIsJournaled
  BY DEF FilesInv, FileFacts
<1> QED
  BY <1>1, FilesInvariance, PTL

\* The published diagnosis mentions no instance the evidence file lacks.
THEOREM DiagnosisFollowsEvidence ==
  ASSUME Serialized
  PROVE  Spec => []DiagnosisBehindEvidence
<1>1. FilesInv => DiagnosisBehindEvidence
  BY DEF FilesInv, FileFacts
<1> QED
  BY <1>1, FilesInvariance, PTL

\* Evidence a caller was told of survives every later call and crash.
THEOREM AckedEvidenceSurvives ==
  ASSUME Serialized
  PROVE  Spec => []AckedEvidenceIsKept
<1>1. FilesInv => AckedEvidenceIsKept
  BY DEF FilesInv, FileFacts
<1> QED
  BY <1>1, FilesInvariance, PTL

\* The invariant that TLC checks as such is the one the proof builds up.
THEOREM IncidentInvariant ==
  ASSUME Serialized
  PROVE  Spec => []IInv
<1>1. TypeInv /\ ClaimInv /\ OneCallAtATime /\ FilesInv => IInv
  BY DEF TypeInv, ClaimInv, FilesInv, FileFacts, CallInv, IInv
<1> QED
  BY <1>1, TypeInvariance, ClaimInvariance, OneCallInvariance, FilesInvariance, PTL

-----------------------------------------------------------------------------
(***************************************************************************)
(* Steps.  The only step that changes what the incident is, is the one     *)
(* that makes a journal durable.                                           *)
(***************************************************************************)
AllInv == TypeInv /\ ClaimInv /\ OneCallAtATime /\ FilesInv

LEMMA AllInvariance ==
  ASSUME Serialized
  PROVE  Spec => []AllInv
  BY TypeInvariance, ClaimInvariance, OneCallInvariance, FilesInvariance, PTL
     DEF AllInv

\* The commit point publishes the next revision, from the one that was read.
LEMMA CommitPoint ==
  ASSUME AllInv, NEW w \in Writers, CommitJournal(w)
  PROVE  /\ Store!Publish
         /\ commit'.from = StateRevision
         /\ Kind[w] \in {"routed", "ranked"} => commit'.from = asked[w]
<1> USE DEF AllInv, TypeInv, TypeOK, FilesTypeOK, FilesInv, CallInv, PrepareInv
<1>1. /\ doc[w] = PrepareCommit(snapshot.revision, doc[w].evidence)
      /\ evidence \subseteq doc[w].evidence
      /\ ~ (doc[w].evidence \subseteq evidence)
      /\ commit = NoCommit
      /\ Kind[w] \in {"routed", "ranked"} => asked[w] = snapshot.revision
  BY DEF CommitJournal, Goto
<1>2. doc[w] # NoCommit /\ doc[w].evidence \in SUBSET Instances
  BY NoCommitAssumption DEF DocumentInv, WithDocument, CommitJournal, Goto, Commits
<1>3. commit' = doc[w]
  BY DEF CommitJournal, WriteCommit
<1>4. commit'.from = snapshot.revision /\ commit'.snapshot.revision = snapshot.revision + 1
  BY <1>1, <1>3 DEF PrepareCommit, Diagnosis
<1>5. StateRevision = snapshot.revision /\ StateInstances = evidence
  BY <1>1 DEF StateRevision, StateInstances
<1>6. StateRevision' = snapshot.revision + 1 /\ StateInstances' = doc[w].evidence
  BY <1>2, <1>3, <1>4 DEF StateRevision, StateInstances
<1>7. Store!Publish
  <2>1. \E added \in SUBSET Instances :
          /\ ~ (added \subseteq StateInstances)
          /\ StateInstances' = StateInstances \cup added
    <3> USE <1>2
    <3> WITNESS doc[w].evidence \in SUBSET Instances
    <3> QED
      BY <1>1, <1>5, <1>6
  <2> QED
    BY <1>5, <1>6, <2>1 DEF Store!Publish
<1> QED
  BY <1>1, <1>4, <1>5, <1>7

\* Every other step leaves the incident as it is, roll-forward included.
LEMMA OtherSteps ==
  ASSUME AllInv, NEW w \in Writers, Call(w) \/ Step(w) \/ Crash(w), ~ CommitJournal(w)
  PROVE  UNCHANGED <<StateRevision, StateInstances>>
<1> USE DEF AllInv, FilesInv, CallInv, StateRevision, StateInstances, Goto
<1>1. CASE UNCHANGED files
  BY <1>1 DEF files
<1>2. CASE RecoverEvidence(w) \/ RecoverSnapshot(w)
  BY <1>2 DEF RecoverEvidence, RecoverSnapshot, WriteEvidence, WriteSnapshot,
              RollForwardInv, Recovering
<1>3. CASE RecoverClear(w)
  BY <1>3 DEF RecoverClear, ClearCommit, RollForwardInv, Recovering
<1>4. CASE CommitEvidence(w) \/ CommitSnapshot(w)
  BY <1>4 DEF CommitEvidence, CommitSnapshot, WriteEvidence, WriteSnapshot,
              PublishInv, Publishing
<1>5. CASE CommitClear(w)
  BY <1>5 DEF CommitClear, ClearCommit, PublishInv, Publishing
<1>6. CASE Call(w) \/ RecoverNothing(w) \/ RecoverRead(w) \/ CheckRevision(w)
           \/ LoadEvidence(w) \/ (\E produced \in SUBSET Produced : Execute(w, produced))
           \/ Refuse(w) \/ Return(w) \/ Crash(w)
  <2>1. UNCHANGED files
    BY <1>6 DEF Call, CallRouted, CallRanked, CallImport, CallAtRevision,
                RecoverNothing, RecoverRead, CheckRevision, LoadEvidence, Execute,
                Refuse, Return, Crash, files
  <2> QED
    BY <1>1, <2>1
<1> QED
  BY <1>2, <1>3, <1>4, <1>5, <1>6 DEF Step

\* Serialized writers implement the abstract store: each commit publishes one
\* revision with more evidence, and nothing else is visible.
THEOREM WritersImplementStore ==
  ASSUME Serialized
  PROVE  Spec => ImplementsStore
<1>1. Init => Store!StoreInit
  BY DEF Init, FilesInit, Diagnosis, Store!StoreInit, StateRevision, StateInstances
<1>2. AllInv /\ [Next]_vars
      => [Store!Publish]_<<StateRevision, StateInstances>>
  <2> SUFFICES ASSUME AllInv, [Next]_vars
               PROVE  [Store!Publish]_<<StateRevision, StateInstances>>
    OBVIOUS
  <2>1. ASSUME NEW w \in Writers, Call(w) \/ Step(w) \/ Crash(w)
        PROVE  [Store!Publish]_<<StateRevision, StateInstances>>
    BY <2>1, CommitPoint, OtherSteps
  <2>2. CASE UNCHANGED vars
    BY <2>2 DEF vars, files, StateRevision, StateInstances
  <2> QED
    BY <2>1, <2>2 DEF Next
<1> QED
  BY <1>1, <1>2, AllInvariance, PTL DEF Spec, ImplementsStore, Store!StoreSpec

\* A journal only ever starts from the revision its caller named, which is
\* the revision of the incident at that step.
THEOREM CommitsStartFromNamedRevision ==
  ASSUME Serialized
  PROVE  Spec => CommitsFromNamedRevision
<1> DEFINE Named ==
      \A w \in Writers :
        pc[w] = "commit" /\ pc'[w] = "put_evidence" =>
          /\ commit'.from = StateRevision
          /\ Kind[w] \in {"routed", "ranked"} => commit'.from = asked[w]
<1>1. AllInv /\ [Next]_vars => [Named]_vars
  <2> SUFFICES ASSUME AllInv, Next, NEW w \in Writers,
                      pc[w] = "commit", pc'[w] = "put_evidence"
               PROVE  /\ commit'.from = StateRevision
                      /\ Kind[w] \in {"routed", "ranked"} => commit'.from = asked[w]
    OBVIOUS
  <2>1. CommitJournal(w)
    <3> USE DEF AllInv, TypeInv, TypeOK, Goto, Release
    <3>1. PICK v \in Writers : Call(v) \/ Step(v) \/ Crash(v)
      BY DEF Next
    <3>2. \A u \in Writers \ {v} : pc'[u] = pc[u]
      BY <3>1 DEF Call, CallRouted, CallRanked, CallImport, CallAtRevision, Claim,
                  Step, Crash, RecoverNothing, RecoverRead, RecoverEvidence,
                  RecoverSnapshot, RecoverClear, CheckRevision, LoadEvidence, Execute,
                  Refuse, CommitJournal, CommitEvidence, CommitSnapshot, CommitClear,
                  Return
    <3>3. v = w
      BY <3>2
    <3> QED
      BY <3>1, <3>3 DEF Call, CallRouted, CallRanked, CallImport, CallAtRevision,
                  Claim, Step, Crash, RecoverNothing, RecoverRead, RecoverEvidence,
                  RecoverSnapshot, RecoverClear, CheckRevision, LoadEvidence, Execute,
                  Refuse, CommitEvidence, CommitSnapshot, CommitClear, Return
  <2> QED
    BY <2>1, CommitPoint
<1> QED
  BY <1>1, AllInvariance, PTL DEF Spec, CommitsFromNamedRevision
=============================================================================
