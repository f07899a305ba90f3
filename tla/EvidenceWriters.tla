-------------------------- MODULE EvidenceWriters --------------------------
(***************************************************************************)
(* The tools that add provider evidence to an incident and rerank it:      *)
(*                                                                         *)
(*   "routed"  RoutedInstrumentToolController (routed_instrument_mcp_tool) *)
(*   "ranked"  RankedRoutableInstrumentToolController                      *)
(*             (ranked_routable_mcp_tool)                                  *)
(*   "import"  import_pool_evidence (rails_pool_evidence_import)           *)
(*                                                                         *)
(* Each element of Writers is an operating-system process that serves one  *)
(* call at a time.  A call takes a non-blocking filesystem claim, rolls a  *)
(* pending journal forward, checks the revision, reads the evidence, runs  *)
(* the provider, and commits evidence and diagnosis through the journal.   *)
(* Every file access is a step of its own, and the process may die         *)
(* between any two of them: the kernel then drops its claim, its memory    *)
(* is gone and the files stay as they are.                                 *)
(***************************************************************************)
EXTENDS IncidentFiles

CONSTANTS
  Writers,          \* processes that may serve a call
  Kind,             \* which tool a process serves
  ClaimDirectory,   \* where its claim files live (mutation_lock_dir; workspace)
  Produced,         \* the instances a provider or a pool proof can produce
  MayOverlap        \* <<v, w>>: a call of w may start during a call of v

Kinds == {"routed", "ranked", "import"}

ASSUME WritersAssumption ==
  /\ Kind \in [Writers -> Kinds]
  /\ Produced \subseteq Instances
  /\ MayOverlap \subseteq Writers \X Writers

VARIABLES
  locked,   \* claim files that some process holds an exclusive flock on
  pc,       \* where each process is in its call
  asked,    \* the evidenceRevision argument of its call
  seen,     \* the revision of the diagnosis it read
  base,     \* the evidence it read
  doc,      \* the journal document it recovers or commits
  acked     \* instances that some call has reported as added

locals == <<pc, asked, seen, base, doc>>
vars == <<files, locked, locals, acked>>

Steps == {"idle", "recover", "roll_evidence", "roll_snapshot", "roll_clear",
          "check", "load", "execute", "commit", "put_evidence",
          "put_snapshot", "clear", "return"}

Purpose(w) ==
  CASE Kind[w] = "routed" -> "routed_instrument_mutation"
    [] Kind[w] = "ranked" -> "ranked_routable_instrument_mutation"
    [] Kind[w] = "import" -> "rails_pool_evidence_import"

\* The purpose is part of the name of the claim file, beside the incident.
ClaimPath(w) == <<ClaimDirectory[w], Purpose(w)>>

ClaimPaths == {ClaimPath(w) : w \in Writers}

TypeOK ==
  /\ FilesTypeOK
  /\ locked \in SUBSET ClaimPaths
  /\ pc \in [Writers -> Steps]
  /\ asked \in [Writers -> Nat]
  /\ seen \in [Writers -> Nat]
  /\ base \in [Writers -> SUBSET Instances]
  /\ doc \in [Writers -> Commits \cup {NoCommit}]
  /\ acked \in SUBSET Instances

Init ==
  /\ FilesInit
  /\ locked = {}
  /\ pc = [w \in Writers |-> "idle"]
  /\ asked = [w \in Writers |-> 0]
  /\ seen = [w \in Writers |-> 0]
  /\ base = [w \in Writers |-> {}]
  /\ doc = [w \in Writers |-> NoCommit]
  /\ acked = {}

-----------------------------------------------------------------------------
Goto(w, from, to) ==
  /\ pc[w] = from
  /\ pc' = [pc EXCEPT ![w] = to]

\* LOCK_EX | LOCK_NB: a claim that is held makes the call fail at once, so a
\* call that changes anything starts with the claim file free.
Claim(w) ==
  /\ \A v \in Writers : pc[v] = "idle" \/ <<v, w>> \in MayOverlap
  /\ ClaimPath(w) \notin locked
  /\ locked' = locked \cup {ClaimPath(w)}
  /\ Goto(w, "idle", "recover")

\* Leaving the claim's block, normally, by an exception or by dying.
Release(w) ==
  /\ locked' = locked \ {ClaimPath(w)}
  /\ pc' = [pc EXCEPT ![w] = "idle"]
  /\ asked' = [asked EXCEPT ![w] = 0]
  /\ seen' = [seen EXCEPT ![w] = 0]
  /\ base' = [base EXCEPT ![w] = {}]
  /\ doc' = [doc EXCEPT ![w] = NoCommit]

\* The caller names the revision it last saw, which may be out of date.
CallAtRevision(w, r) ==
  /\ Claim(w)
  /\ asked' = [asked EXCEPT ![w] = r]
  /\ UNCHANGED <<files, seen, base, doc, acked>>

CallRouted(w, r) == Kind[w] = "routed" /\ CallAtRevision(w, r)

CallRanked(w, r) == Kind[w] = "ranked" /\ CallAtRevision(w, r)

\* The import takes no revision from its caller.
CallImport(w) ==
  /\ Kind[w] = "import"
  /\ Claim(w)
  /\ UNCHANGED <<files, asked, seen, base, doc, acked>>

-----------------------------------------------------------------------------
(* recover_incident_state_commit *)

\* Mutant: a pending journal is left for later.
RecoverLater(w) ==
  /\ Goto(w, "recover", "check")
  /\ UNCHANGED <<files, locked, asked, seen, base, doc, acked>>

RecoverNothing(w) ==
  /\ commit = NoCommit
  /\ Goto(w, "recover", "check")
  /\ UNCHANGED <<files, locked, asked, seen, base, doc, acked>>

RecoverRead(w) ==
  /\ commit # NoCommit
  /\ Goto(w, "recover", "roll_evidence")
  /\ doc' = [doc EXCEPT ![w] = commit]
  /\ UNCHANGED <<files, locked, asked, seen, base, acked>>

RecoverEvidence(w) ==
  /\ Goto(w, "roll_evidence", "roll_snapshot")
  /\ WriteEvidence(doc[w].evidence)
  /\ UNCHANGED <<locked, asked, seen, base, doc, acked>>

RecoverSnapshot(w) ==
  /\ Goto(w, "roll_snapshot", "roll_clear")
  /\ WriteSnapshot(doc[w].snapshot)
  /\ UNCHANGED <<locked, asked, seen, base, doc, acked>>

RecoverClear(w) ==
  /\ Goto(w, "roll_clear", "check")
  /\ ClearCommit
  /\ doc' = [doc EXCEPT ![w] = NoCommit]
  /\ UNCHANGED <<locked, asked, seen, base, acked>>

-----------------------------------------------------------------------------
(* _execute_locked, after recovery *)

\* Mutant: the revision is read and not compared.
CheckNoRevision(w) ==
  /\ Goto(w, "check", "load")
  /\ seen' = [seen EXCEPT ![w] = snapshot.revision]
  /\ UNCHANGED <<files, locked, asked, base, doc, acked>>

\* A caller that does not name the published revision is refused; the import
\* takes whatever revision is published.
CheckRevision(w) ==
  /\ Kind[w] \in {"routed", "ranked"} => snapshot.revision = asked[w]
  /\ Goto(w, "check", "load")
  /\ seen' = [seen EXCEPT ![w] = snapshot.revision]
  /\ UNCHANGED <<files, locked, asked, base, doc, acked>>

LoadEvidence(w) ==
  /\ Goto(w, "load", "execute")
  /\ base' = [base EXCEPT ![w] = evidence]
  /\ UNCHANGED <<files, locked, asked, seen, doc, acked>>

\* Mutant: the produced document replaces the evidence it was to extend.
ExecuteAlone(w, produced) ==
  /\ ~ (produced \subseteq base[w])
  /\ Goto(w, "execute", "commit")
  /\ doc' = [doc EXCEPT ![w] = PrepareCommit(seen[w], produced)]
  /\ UNCHANGED <<files, locked, asked, seen, base, acked>>

\* The provider answers; composition is the union of the instances, and a
\* result that adds no instance is refused.
Execute(w, produced) ==
  /\ ~ (produced \subseteq base[w])
  /\ Goto(w, "execute", "commit")
  /\ doc' = [doc EXCEPT ![w] = PrepareCommit(seen[w], base[w] \cup produced)]
  /\ UNCHANGED <<files, locked, asked, seen, base, acked>>

\* Every check that raises: a stale revision, a probe, route or instrument
\* that is no longer the selected one, a provider without an answer, a result
\* that adds nothing.
Refuse(w) ==
  /\ pc[w] \in {"check", "load", "execute"}
  /\ Release(w)
  /\ UNCHANGED <<files, acked>>

-----------------------------------------------------------------------------
(* commit_incident_state *)

CommitJournal(w) ==
  /\ Goto(w, "commit", "put_evidence")
  /\ WriteCommit(doc[w])
  /\ UNCHANGED <<locked, asked, seen, base, doc, acked>>

CommitEvidence(w) ==
  /\ Goto(w, "put_evidence", "put_snapshot")
  /\ WriteEvidence(doc[w].evidence)
  /\ UNCHANGED <<locked, asked, seen, base, doc, acked>>

CommitSnapshot(w) ==
  /\ Goto(w, "put_snapshot", "clear")
  /\ WriteSnapshot(doc[w].snapshot)
  /\ UNCHANGED <<locked, asked, seen, base, doc, acked>>

\* Mutant: the journal stays after the commit.
CommitKeep(w) ==
  /\ Goto(w, "clear", "return")
  /\ UNCHANGED <<files, locked, asked, seen, base, doc, acked>>

CommitClear(w) ==
  /\ Goto(w, "clear", "return")
  /\ ClearCommit
  /\ UNCHANGED <<locked, asked, seen, base, doc, acked>>

\* The caller learns which instances were added.
Return(w) ==
  /\ pc[w] = "return"
  /\ acked' = acked \cup (doc[w].evidence \ base[w])
  /\ Release(w)
  /\ UNCHANGED files

\* The process dies, or a write fails with an operating-system error.
Crash(w) ==
  /\ pc[w] # "idle"
  /\ Release(w)
  /\ UNCHANGED <<files, acked>>

-----------------------------------------------------------------------------
Step(w) ==
  \/ RecoverNothing(w) \/ RecoverRead(w)
  \/ RecoverEvidence(w) \/ RecoverSnapshot(w) \/ RecoverClear(w)
  \/ CheckRevision(w) \/ LoadEvidence(w)
  \/ \E produced \in SUBSET Produced : Execute(w, produced)
  \/ Refuse(w)
  \/ CommitJournal(w) \/ CommitEvidence(w)
  \/ CommitSnapshot(w) \/ CommitClear(w)
  \/ Return(w)

Call(w) ==
  \/ \E r \in 0 .. snapshot.revision + 1 : CallRouted(w, r) \/ CallRanked(w, r)
  \/ CallImport(w)

Next == \E w \in Writers : Call(w) \/ Step(w) \/ Crash(w)

Spec == Init /\ [][Next]_vars

-----------------------------------------------------------------------------
(* Properties *)

InCall(w) == pc[w] # "idle"

Recovering(w) == pc[w] \in {"roll_evidence", "roll_snapshot", "roll_clear"}

Publishing(w) == pc[w] \in {"put_evidence", "put_snapshot", "clear"}

\* Two processes whose claims have the same file are never both in a call,
\* even after crashes: the flock taken in acquire_probe_filesystem_claim
\* excludes, and every exit from the call gives it back.
ClaimExcludes ==
  \A v, w \in Writers :
    v # w /\ ClaimPath(v) = ClaimPath(w) => ~ (InCall(v) /\ InCall(w))

\* A diagnosis and evidence that do not belong together are only ever on disk
\* beside the journal that repairs them, whatever crashed in
\* commit_incident_state or in its recovery.
TornPairIsJournaled ==
  snapshot.instances # evidence => commit # NoCommit

\* The published diagnosis never mentions an instance the evidence file does
\* not hold: the commit and the recovery both write the evidence first.
DiagnosisBehindEvidence == snapshot.instances \subseteq evidence

\* An instance that a tool reported as added stays part of the incident, over
\* later calls, crashes and roll-forwards.
AckedEvidenceIsKept == acked \subseteq StateInstances

\* A journal is only made durable from the revision that is the state of the
\* incident, and for a tool with an evidenceRevision argument that is the
\* revision its caller named.
CommitsFromNamedRevision ==
  [][\A w \in Writers :
       pc[w] = "commit" /\ pc'[w] = "put_evidence" =>
         /\ commit'.from = StateRevision
         /\ Kind[w] \in {"routed", "ranked"} => commit'.from = asked[w]]_vars

Store == INSTANCE IncidentStore
           WITH revision <- StateRevision, instances <- StateInstances

\* The writers implement the abstract store: evidence and revision advance
\* together, once per committed call.
ImplementsStore == Store!StoreSpec

-----------------------------------------------------------------------------
(***************************************************************************)
(* The inductive invariant behind the properties.  It needs the            *)
(* deployment to keep calls apart: calls that may overlap take the same    *)
(* claim file.                                                             *)
(***************************************************************************)
Serialized ==
  \A v, w \in Writers : <<v, w>> \in MayOverlap => ClaimPath(v) = ClaimPath(w)

HoldsClaim == \A w \in Writers : InCall(w) => ClaimPath(w) \in locked

OneCallAtATime == \A v, w \in Writers : InCall(v) /\ InCall(w) => v = w

\* A pending journal extends both files, and is a complete next revision.
JournalExtendsFiles ==
  commit # NoCommit =>
    /\ commit.snapshot.instances = commit.evidence
    /\ evidence \subseteq commit.evidence

\* Rolling forward: the document in memory is the pending journal, and the
\* steps taken so far are on disk.
RollForwardInv(w) ==
  /\ Recovering(w) => commit # NoCommit /\ doc[w] = commit
  /\ pc[w] \in {"roll_snapshot", "roll_clear"} => evidence = doc[w].evidence
  /\ pc[w] = "roll_clear" => snapshot = doc[w].snapshot

\* Before the commit point: no journal is pending, and what was read of the
\* files is still what they hold.
PrepareInv(w) ==
  /\ pc[w] \in {"check", "load", "execute", "commit"} => commit = NoCommit
  /\ pc[w] \in {"load", "execute", "commit"} =>
       /\ seen[w] = snapshot.revision
       /\ Kind[w] \in {"routed", "ranked"} => asked[w] = seen[w]
  /\ pc[w] \in {"execute", "commit"} => base[w] = evidence
  /\ pc[w] = "commit" =>
       /\ doc[w] = PrepareCommit(seen[w], doc[w].evidence)
       /\ base[w] \subseteq doc[w].evidence
       /\ ~ (doc[w].evidence \subseteq base[w])

\* After the commit point: the journal is this process's document until it
\* clears it, and then the files are.
PublishInv(w) ==
  /\ Publishing(w) => commit # NoCommit /\ doc[w] = commit
  /\ pc[w] \in {"put_snapshot", "clear"} => evidence = doc[w].evidence
  /\ pc[w] = "clear" => snapshot = doc[w].snapshot
  /\ pc[w] = "return" =>
       commit = NoCommit /\ doc[w] # NoCommit /\ evidence = doc[w].evidence

IInv ==
  /\ TypeOK
  /\ HoldsClaim
  /\ OneCallAtATime
  /\ TornPairIsJournaled
  /\ DiagnosisBehindEvidence
  /\ JournalExtendsFiles
  /\ \A w \in Writers : RollForwardInv(w) /\ PrepareInv(w) /\ PublishInv(w)
  /\ AckedEvidenceIsKept
=============================================================================
