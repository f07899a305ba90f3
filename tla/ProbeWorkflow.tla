--------------------------- MODULE ProbeWorkflow ---------------------------
(***************************************************************************)
(* The probe tools of the diagnosis server (mcp_probe_tools,               *)
(* mcp_probe_recovery_tool): begin, finish, abandon and reconcile a probe  *)
(* session, each followed by one event in the append-only workflow journal *)
(* (probe_workflow_journal).                                               *)
(*                                                                         *)
(* Each element of Servers is a server process.  Its controller serves one *)
(* call at a time; processes meet in the session directory, the evidence,  *)
(* the diagnosis and the claim files.  Every file access is a step, and a  *)
(* process may die between any two.  These tools neither read nor write    *)
(* the commit journal of IncidentFiles.                                    *)
(*                                                                         *)
(* The instance a finished session contributes is named by the session.    *)
(***************************************************************************)
EXTENDS IncidentFiles

CONSTANTS
  Servers,    \* server processes
  Sessions,   \* probe sessions
  Slots,      \* pairs of a target and an exact scope
  Slot        \* the pair each session belongs to

ASSUME SessionsAssumption ==
  /\ Sessions \subseteq Instances \ SeedEvidence
  /\ Slot \in [Sessions -> Slots]

VARIABLES
  sessions,     \* sessions whose baseline file exists
  bindings,     \* sessions whose binding file exists
  abandoned,    \* sessions whose abandonment marker exists
  reconciled,   \* orphaned baselines marked as discarded
  recorded,     \* events in the workflow journal
  at,           \* where each server is in its call
  op,           \* the operation of its call
  arg,          \* the session of its call
  held,         \* the claim files it holds
  old,          \* the evidence it read
  shown,        \* the diagnosis it read
  answered      \* sessions whose finish was answered as completed

disk == <<sessions, bindings, abandoned, reconciled, recorded>>
call == <<at, op, arg, held, old, shown>>
probeVars == <<disk, call, answered>>
vars == <<files, probeVars>>

Ops == {"begin", "finish", "abandon", "reconcile"}

Events == Ops \X Sessions

Claims ==
  ({"target_scope"} \X Slots) \cup ({"session", "workflow_recovery"} \X Sessions)
    \cup {<<"incident_mutation">>, <<"workflow_journal">>}

Steps == {"idle", "begin_read", "begin_scan", "begin_pending", "begin_session",
          "begin_binding", "finish_evidence", "finish_snapshot", "finish_decide",
          "put_evidence", "put_snapshot", "repair", "abandon_read",
          "abandon_mark", "reconcile_scan", "reconcile_mark", "release",
          "journal", "append", "answer"}

\* A value for "no session" that needs no model value.
NoSession == "none"

TypeOK ==
  /\ FilesTypeOK
  /\ sessions \in SUBSET Sessions
  /\ bindings \in SUBSET Sessions
  /\ abandoned \in SUBSET Sessions
  /\ reconciled \in SUBSET Sessions
  /\ recorded \in SUBSET Events
  /\ at \in [Servers -> Steps]
  /\ op \in [Servers -> Ops \cup {NoSession}]
  /\ arg \in [Servers -> Sessions \cup {NoSession}]
  /\ held \in [Servers -> SUBSET Claims]
  /\ old \in [Servers -> SUBSET Instances]
  /\ shown \in [Servers -> Snapshots]
  /\ answered \in SUBSET Sessions

NothingRead == Diagnosis(0, {})

ProbeInit ==
  /\ sessions = {}
  /\ bindings = {}
  /\ abandoned = {}
  /\ reconciled = {}
  /\ recorded = {}
  /\ at = [w \in Servers |-> "idle"]
  /\ op = [w \in Servers |-> NoSession]
  /\ arg = [w \in Servers |-> NoSession]
  /\ held = [w \in Servers |-> {}]
  /\ old = [w \in Servers |-> {}]
  /\ shown = [w \in Servers |-> NothingRead]
  /\ answered = {}

Init == FilesInit /\ ProbeInit

-----------------------------------------------------------------------------
Goto(w, from, to) ==
  /\ at[w] = from
  /\ at' = [at EXCEPT ![w] = to]

Free(claim) == \A v \in Servers : claim \notin held[v]

\* Non-blocking claims: either all of them are free or the call fails.
Claim(w, wanted) ==
  /\ \A claim \in wanted : Free(claim)
  /\ held' = [held EXCEPT ![w] = wanted]

Call(w, name, s, wanted, first) ==
  /\ Claim(w, wanted)
  /\ Goto(w, "idle", first)
  /\ op' = [op EXCEPT ![w] = name]
  /\ arg' = [arg EXCEPT ![w] = s]
  /\ UNCHANGED <<files, disk, old, shown, answered>>

\* The end of a call, however it ends.
End(w) ==
  /\ at' = [at EXCEPT ![w] = "idle"]
  /\ op' = [op EXCEPT ![w] = NoSession]
  /\ arg' = [arg EXCEPT ![w] = NoSession]
  /\ held' = [held EXCEPT ![w] = {}]
  /\ old' = [old EXCEPT ![w] = {}]
  /\ shown' = [shown EXCEPT ![w] = NothingRead]

ReadEvidence(w) ==
  /\ old' = [old EXCEPT ![w] = evidence]
  /\ UNCHANGED <<files, disk, op, arg, held, shown, answered>>

ReadSnapshot(w) ==
  /\ shown' = [shown EXCEPT ![w] = snapshot]
  /\ UNCHANGED <<files, disk, op, arg, held, old, answered>>

\* Only the program counter moves.
Skip == UNCHANGED <<files, disk, op, arg, held, old, shown, answered>>

-----------------------------------------------------------------------------
(* begin: s is the session it will create if nothing refuses *)

CallBegin(w, s) ==
  Call(w, "begin", s, {<<"target_scope", Slot[s]>>}, "begin_read")

BeginRead(w) == Goto(w, "begin_read", "begin_scan") /\ ReadEvidence(w)

\* Baselines without a binding that no marker discards.
Partial == (sessions \ bindings) \ reconciled

BeginScan(w) == Goto(w, "begin_scan", "begin_pending") /\ Partial = {} /\ Skip

\* Unfinished sessions, against an evidence document read before.
PendingIn(document) == ((sessions \cap bindings) \ document) \ abandoned

\* Mutant: only the new session's own files are looked for.
BeginPendingAnyway(w) ==
  /\ Goto(w, "begin_pending", "begin_session")
  /\ arg[w] \notin sessions \cup bindings \cup abandoned
  /\ Skip

BeginPending(w) ==
  /\ Goto(w, "begin_pending", "begin_session")
  /\ \A t \in PendingIn(old[w]) : Slot[t] # Slot[arg[w]]
  /\ arg[w] \notin sessions \cup bindings \cup abandoned
  /\ Skip

BeginSession(w) ==
  /\ Goto(w, "begin_session", "begin_binding")
  /\ sessions' = sessions \cup {arg[w]}
  /\ UNCHANGED <<files, bindings, abandoned, reconciled, recorded, op, arg, held, old, shown, answered>>

BeginBinding(w) ==
  /\ Goto(w, "begin_binding", "release")
  /\ bindings' = bindings \cup {arg[w]}
  /\ UNCHANGED <<files, sessions, abandoned, reconciled, recorded, op, arg, held, old, shown, answered>>

-----------------------------------------------------------------------------
(* finish *)

CallFinish(w, s) ==
  /\ s \in bindings
  /\ Call(w, "finish", s, {<<"incident_mutation">>, <<"session", s>>}, "finish_evidence")

FinishReadEvidence(w) ==
  Goto(w, "finish_evidence", "finish_snapshot") /\ ReadEvidence(w)

FinishReadSnapshot(w) ==
  Goto(w, "finish_snapshot", "finish_decide") /\ ReadSnapshot(w)

\* Mutant: evidence that is there needs no repair of the diagnosis.
FinishFoundIsEnough(w) ==
  /\ arg[w] \notin abandoned
  /\ arg[w] \in old[w]
  /\ Goto(w, "finish_decide", "release")
  /\ Skip

\* The evidence already holds the session's instance.
FinishFound(w) ==
  /\ arg[w] \notin abandoned
  /\ arg[w] \in old[w]
  /\ Goto(w, "finish_decide",
          IF arg[w] \in shown[w].instances THEN "release" ELSE "repair")
  /\ Skip

FinishRepair(w) ==
  /\ Goto(w, "repair", "release")
  /\ WriteSnapshot(Diagnosis(shown[w].revision + 1, old[w]))
  /\ UNCHANGED <<disk, op, arg, held, old, shown, answered>>

\* The second reading of the counter, and the composed documents.
FinishCapture(w) ==
  /\ arg[w] \notin abandoned
  /\ arg[w] \notin old[w]
  /\ Goto(w, "finish_decide", "put_evidence")
  /\ Skip

FinishEvidence(w) ==
  /\ Goto(w, "put_evidence", "put_snapshot")
  /\ WriteEvidence(old[w] \cup {arg[w]})
  /\ UNCHANGED <<disk, op, arg, held, old, shown, answered>>

FinishSnapshot(w) ==
  /\ Goto(w, "put_snapshot", "release")
  /\ WriteSnapshot(Diagnosis(shown[w].revision + 1, old[w] \cup {arg[w]}))
  /\ UNCHANGED <<disk, op, arg, held, old, shown, answered>>

-----------------------------------------------------------------------------
(* abandon *)

CallAbandon(w, s) ==
  /\ s \in bindings
  /\ Call(w, "abandon", s, {<<"session", s>>}, "abandon_read")

\* Mutant: the evidence is not consulted.
AbandonUnread(w) == Goto(w, "abandon_read", "abandon_mark") /\ Skip

AbandonRead(w) ==
  /\ Goto(w, "abandon_read", "abandon_mark")
  /\ arg[w] \notin evidence
  /\ Skip

\* A session that was abandoned before keeps its marker.
AbandonMark(w) ==
  /\ Goto(w, "abandon_mark", "release")
  /\ abandoned' = abandoned \cup {arg[w]}
  /\ UNCHANGED <<files, sessions, bindings, reconciled, recorded, op, arg, held, old, shown, answered>>

-----------------------------------------------------------------------------
(***************************************************************************)
(* reconcile_partial.  The fingerprint its caller passes is a hash of the  *)
(* baseline file, which is written once, so any baseline has one.          *)
(***************************************************************************)
CallReconcile(w, s) ==
  /\ s \in sessions
  /\ Call(w, "reconcile", s, {<<"workflow_recovery", s>>}, "reconcile_scan")

ReconcileScan(w) ==
  /\ arg[w] \in Partial
  /\ Goto(w, "reconcile_scan", "reconcile_mark")
  /\ Skip

\* The marker of an earlier call is the answer.
ReconcileFound(w) ==
  /\ arg[w] \in reconciled
  /\ Goto(w, "reconcile_scan", "release")
  /\ Skip

ReconcileMark(w) ==
  /\ Goto(w, "reconcile_mark", "release")
  /\ reconciled' = reconciled \cup {arg[w]}
  /\ UNCHANGED <<files, sessions, bindings, abandoned, recorded, op, arg, held, old, shown, answered>>

-----------------------------------------------------------------------------
(* The journal, after the operation gave its claims back *)

Event(w) == <<op[w], arg[w]>>

Release(w) ==
  /\ Goto(w, "release", "journal")
  /\ held' = [held EXCEPT ![w] = {}]
  /\ UNCHANGED <<files, disk, op, arg, old, shown, answered>>

\* The event of a finish quotes the instance from the evidence file.
JournalClaim(w) ==
  /\ op[w] = "finish" => arg[w] \in evidence
  /\ Claim(w, {<<"workflow_journal">>})
  /\ Goto(w, "journal", "append")
  /\ UNCHANGED <<files, disk, op, arg, old, shown, answered>>

\* append_probe_workflow_event: one event of a type for a session, so that
\* the event of a retry is there already.
JournalAppend(w) ==
  /\ Goto(w, "append", "answer")
  /\ recorded' = recorded \cup {Event(w)}
  /\ UNCHANGED <<files, sessions, bindings, abandoned, reconciled, op, arg, held,
                 old, shown, answered>>

Answer(w) ==
  /\ at[w] = "answer"
  /\ answered' = IF op[w] = "finish" THEN answered \cup {arg[w]} ELSE answered
  /\ End(w)
  /\ UNCHANGED <<files, disk>>

-----------------------------------------------------------------------------
\* Every check that raises, among them an expired session in finish, a busy
\* journal claim and a journal that does not verify; in the last two the
\* operation stays done and the caller sees an error.
Refuse(w) ==
  /\ at[w] \in {"begin_read", "begin_scan", "begin_pending", "finish_evidence",
                "finish_snapshot", "finish_decide", "abandon_read",
                "reconcile_scan", "journal", "append"}
  /\ End(w)
  /\ UNCHANGED <<files, disk, answered>>

\* The process dies, or a write fails with an operating-system error.
Crash(w) ==
  /\ at[w] # "idle"
  /\ End(w)
  /\ UNCHANGED <<files, disk, answered>>

Step(w) ==
  \/ BeginRead(w) \/ BeginScan(w) \/ BeginPending(w)
  \/ BeginSession(w) \/ BeginBinding(w)
  \/ FinishReadEvidence(w) \/ FinishReadSnapshot(w)
  \/ FinishFound(w) \/ FinishRepair(w)
  \/ FinishCapture(w) \/ FinishEvidence(w) \/ FinishSnapshot(w)
  \/ AbandonRead(w) \/ AbandonMark(w)
  \/ ReconcileScan(w) \/ ReconcileFound(w) \/ ReconcileMark(w)
  \/ Release(w) \/ JournalClaim(w) \/ JournalAppend(w) \/ Answer(w)
  \/ Refuse(w)

CallTool(w) ==
  \E s \in Sessions :
    CallBegin(w, s) \/ CallFinish(w, s) \/ CallAbandon(w, s) \/ CallReconcile(w, s)

Next ==
  \E w \in Servers : CallTool(w) \/ Step(w) \/ Crash(w)

Spec == Init /\ [][Next]_vars

-----------------------------------------------------------------------------
(* Properties *)

\* When finish has answered, the evidence holds the session's instance and
\* the published diagnosis was computed from it, also after a crash between
\* the two writes and a retry that repairs.
AnsweredFinishIsPublished ==
  answered \subseteq evidence \cap snapshot.instances

\* The workflow journal only records transitions that are on disk, and never
\* both ends of one session.
JournalIsTrue ==
  \A s \in Sessions :
    /\ <<"begin", s>> \in recorded => s \in sessions \cap bindings
    /\ <<"finish", s>> \in recorded => s \in evidence /\ <<"abandon", s>> \notin recorded
    /\ <<"abandon", s>> \in recorded => s \in abandoned
    /\ <<"reconcile", s>> \in recorded => s \in reconciled

\* A baseline that was reconciled as discarded partial state never becomes
\* evidence.
DiscardedIsNotEvidence == reconciled \cap evidence = {}

Status ==
  [s \in Sessions |->
     CASE s \notin sessions \cap bindings -> "absent"
       [] s \in sessions \cap bindings /\ s \in evidence -> "completed"
       [] s \in sessions \cap bindings /\ s \notin evidence /\ s \in abandoned -> "abandoned"
       [] OTHER -> "pending"]

Lifecycle == INSTANCE ProbeLifecycle WITH status <- Status

\* Each session is begun once, is the only unfinished one of its target and
\* scope then, and ends once.
ImplementsLifecycle == Lifecycle!LifecycleSpec
=============================================================================
