----------------------- MODULE ProbeWorkflow_proofs -----------------------
(***************************************************************************)
(* What the probe tools guarantee for every set of servers, sessions and   *)
(* slots, and what the plan and the history that are read while they run   *)
(* are worth.                                                              *)
(*                                                                         *)
(* The argument is layered.  The types, with the operation a server is at, *)
(* need nothing.  That claims are held and exclude each other needs the    *)
(* types.  The facts about the files need both: what a call has read stays *)
(* true because its claims keep away whoever could change it.  The readers *)
(* take no claim; their parts come from different instants, and the        *)
(* argument is that the files only grow while a reader collects them.      *)
(***************************************************************************)
EXTENDS AgentPlan, TLAPS

BeginSteps == {"begin_read", "begin_scan", "begin_pending", "begin_session",
               "begin_binding"}
FinishSteps == {"finish_evidence", "finish_snapshot", "finish_decide",
                "put_evidence", "put_snapshot", "repair"}
AbandonSteps == {"abandon_read", "abandon_mark"}
ReconcileSteps == {"reconcile_scan", "reconcile_mark"}
Ending == {"release", "journal", "append", "answer"}

\* A server in a call has a session and is at a step of its operation.
CallInv(w) ==
  /\ at[w] # "idle" => arg[w] \in Sessions /\ op[w] \in Ops
  /\ at[w] \in BeginSteps => op[w] = "begin"
  /\ at[w] \in FinishSteps => op[w] = "finish"
  /\ at[w] \in AbandonSteps => op[w] = "abandon"
  /\ at[w] \in ReconcileSteps => op[w] = "reconcile"

TypeInv == TypeOK /\ \A w \in Servers : CallInv(w)

\* Up to its release a call holds its claims.
HeldInv(w) ==
  /\ at[w] \in BeginSteps => <<"target_scope", Slot[arg[w]]>> \in held[w]
  /\ at[w] \in FinishSteps => <<"incident_mutation">> \in held[w]
  /\ at[w] \in FinishSteps \cup AbandonSteps => <<"session", arg[w]>> \in held[w]

\* No claim has two holders.
Exclusive ==
  \A v, w \in Servers : v # w => held[v] \cap held[w] = {}

ClaimInv == Exclusive /\ \A w \in Servers : HeldInv(w)

-----------------------------------------------------------------------------
(* What the files say by themselves, and what a call remembers of them *)

DiskInv ==
  /\ bindings \subseteq sessions
  /\ abandoned \subseteq bindings
  /\ evidence \cap Sessions \subseteq bindings
  /\ evidence \cap abandoned = {}
  /\ answered \subseteq evidence \cap snapshot.instances

\* What begin has found out about its slot.
BeginInv(w) ==
  /\ at[w] \in {"begin_scan", "begin_pending"} => old[w] \subseteq evidence
  /\ at[w] \in {"begin_session", "begin_binding"} =>
       /\ arg[w] \notin bindings
       /\ \A t \in PendingIn(evidence) : Slot[t] # Slot[arg[w]]
  /\ at[w] = "begin_binding" => arg[w] \in sessions

\* What finish has read is what is there, up to its own writes.
FinishInv(w) ==
  /\ at[w] \in FinishSteps => arg[w] \in bindings
  /\ at[w] \in {"finish_snapshot", "finish_decide", "repair", "put_evidence"} =>
       old[w] = evidence
  /\ at[w] = "finish_decide" => shown[w] = snapshot
  /\ at[w] = "repair" => arg[w] \in old[w]
  /\ at[w] \in {"put_evidence", "put_snapshot"} => arg[w] \notin abandoned
  /\ at[w] = "put_snapshot" => evidence = old[w] \cup {arg[w]}

AbandonInv(w) ==
  /\ at[w] \in AbandonSteps => arg[w] \in bindings
  /\ at[w] = "abandon_mark" => arg[w] \notin evidence

\* Once its claims are given back, the outcome of a call stays.
DoneInv(w) ==
  at[w] \in Ending =>
    /\ op[w] = "begin" => arg[w] \in bindings
    /\ op[w] = "finish" => arg[w] \in evidence \cap snapshot.instances
    /\ op[w] = "abandon" => arg[w] \in abandoned
    /\ op[w] = "reconcile" => arg[w] \in reconciled

MemoryInv(w) == BeginInv(w) /\ FinishInv(w) /\ AbandonInv(w) /\ DoneInv(w)

FilesInv == DiskInv /\ JournalIsTrue /\ \A w \in Servers : MemoryInv(w)

AllInv == TypeInv /\ ClaimInv /\ FilesInv

-----------------------------------------------------------------------------
(* Types *)

\* The claims a tool asks for are claims.
LEMMA WantedClaims ==
  ASSUME NEW s \in Sessions
  PROVE  /\ {<<"target_scope", Slot[s]>>} \subseteq Claims
         /\ {<<"incident_mutation">>, <<"session", s>>} \subseteq Claims
         /\ {<<"session", s>>} \subseteq Claims
         /\ {<<"workflow_recovery", s>>} \subseteq Claims
         /\ {<<"workflow_journal">>} \subseteq Claims
  BY SessionsAssumption DEF Claims

\* What beginning a call does to the type invariant, for every tool.
LEMMA CallTypes ==
  ASSUME TypeInv, NEW w \in Servers, NEW s \in Sessions, NEW name \in Ops,
         NEW wanted \in SUBSET Claims, NEW first \in Steps, Call(w, name, s, wanted, first),
         \/ name = "begin" /\ first = "begin_read"
         \/ name = "finish" /\ first = "finish_evidence"
         \/ name = "abandon" /\ first = "abandon_read"
         \/ name = "reconcile" /\ first = "reconcile_scan"
  PROVE  TypeInv'
  BY DEF TypeInv, TypeOK, FilesTypeOK, CallInv, Call, Claim, Goto, Steps, Ops,
         BeginSteps, FinishSteps, AbandonSteps, ReconcileSteps, files, disk

\* What ending one does, however it ends.
LEMMA EndTypes ==
  ASSUME TypeInv, NEW w \in Servers, End(w), UNCHANGED <<files, disk>>,
         answered' \in SUBSET Sessions
  PROVE  TypeInv'
<1>1. NothingRead \in Snapshots
  BY DEF NothingRead, Diagnosis, Snapshots
<1> QED
  BY <1>1 DEF TypeInv, TypeOK, FilesTypeOK, CallInv, End, Steps, Ops, BeginSteps,
              FinishSteps, AbandonSteps, ReconcileSteps, files, disk

\* A diagnosis rebuilt from evidence is a diagnosis.
LEMMA RebuiltIsSnapshot ==
  ASSUME NEW before \in Snapshots, NEW instances \in SUBSET Instances
  PROVE  Diagnosis(before.revision + 1, instances) \in Snapshots
  BY DEF Diagnosis, Snapshots

\* The type invariant is preserved by every step.
LEMMA TypeStep == TypeInv /\ [Next]_vars => TypeInv'
<1> SUFFICES ASSUME TypeInv, [Next]_vars PROVE TypeInv'
  OBVIOUS
<1> USE DEF TypeInv, TypeOK, FilesTypeOK, CallInv, Goto, Skip, Steps, Ops, BeginSteps,
            FinishSteps, AbandonSteps, ReconcileSteps, files, disk
<1>1. CASE UNCHANGED vars
  BY <1>1 DEF vars, probeVars, call
<1>2. ASSUME NEW w \in Servers, CallTool(w) PROVE TypeInv'
  <2>1. PICK s \in Sessions :
          CallBegin(w, s) \/ CallFinish(w, s) \/ CallAbandon(w, s) \/ CallReconcile(w, s)
    BY <1>2 DEF CallTool
  <2>2. CASE CallBegin(w, s)
    BY <2>2, CallTypes, WantedClaims DEF CallBegin
  <2>3. CASE CallFinish(w, s)
    BY <2>3, CallTypes, WantedClaims DEF CallFinish
  <2>4. CASE CallAbandon(w, s)
    BY <2>4, CallTypes, WantedClaims DEF CallAbandon
  <2>5. CASE CallReconcile(w, s)
    BY <2>5, CallTypes, WantedClaims DEF CallReconcile
  <2> QED
    BY <2>1, <2>2, <2>3, <2>4, <2>5
<1>3. ASSUME NEW w \in Servers, BeginRead(w) PROVE TypeInv'
  BY <1>3 DEF BeginRead, ReadEvidence
<1>4. ASSUME NEW w \in Servers, BeginScan(w) PROVE TypeInv'
  BY <1>4 DEF BeginScan
<1>5. ASSUME NEW w \in Servers, BeginPending(w) PROVE TypeInv'
  BY <1>5 DEF BeginPending
<1>6. ASSUME NEW w \in Servers, BeginSession(w) PROVE TypeInv'
  BY <1>6 DEF BeginSession
<1>7. ASSUME NEW w \in Servers, BeginBinding(w) PROVE TypeInv'
  BY <1>7 DEF BeginBinding
<1>8. ASSUME NEW w \in Servers, FinishReadEvidence(w) PROVE TypeInv'
  BY <1>8 DEF FinishReadEvidence, ReadEvidence
<1>9. ASSUME NEW w \in Servers, FinishReadSnapshot(w) PROVE TypeInv'
  BY <1>9 DEF FinishReadSnapshot, ReadSnapshot
<1>10. ASSUME NEW w \in Servers, FinishFound(w) PROVE TypeInv'
  BY <1>10 DEF FinishFound
<1>11. ASSUME NEW w \in Servers, FinishRepair(w) PROVE TypeInv'
  BY <1>11, RebuiltIsSnapshot DEF FinishRepair, WriteSnapshot
<1>12. ASSUME NEW w \in Servers, FinishCapture(w) PROVE TypeInv'
  BY <1>12 DEF FinishCapture
<1>13. ASSUME NEW w \in Servers, FinishEvidence(w) PROVE TypeInv'
  BY <1>13, SessionsAssumption DEF FinishEvidence, WriteEvidence
<1>14. ASSUME NEW w \in Servers, FinishSnapshot(w) PROVE TypeInv'
  BY <1>14, RebuiltIsSnapshot, SessionsAssumption DEF FinishSnapshot, WriteSnapshot
<1>15. ASSUME NEW w \in Servers, AbandonRead(w) PROVE TypeInv'
  BY <1>15 DEF AbandonRead
<1>16. ASSUME NEW w \in Servers, AbandonMark(w) PROVE TypeInv'
  BY <1>16 DEF AbandonMark
<1>17. ASSUME NEW w \in Servers, ReconcileScan(w) PROVE TypeInv'
  BY <1>17 DEF ReconcileScan
<1>18. ASSUME NEW w \in Servers, ReconcileFound(w) PROVE TypeInv'
  BY <1>18 DEF ReconcileFound
<1>19. ASSUME NEW w \in Servers, ReconcileMark(w) PROVE TypeInv'
  BY <1>19 DEF ReconcileMark
<1>20. ASSUME NEW w \in Servers, Release(w) PROVE TypeInv'
  BY <1>20 DEF Release
<1>21. ASSUME NEW w \in Servers, JournalClaim(w) PROVE TypeInv'
  BY <1>21, WantedClaims DEF JournalClaim, Claim
<1>22. ASSUME NEW w \in Servers, JournalAppend(w) PROVE TypeInv'
  BY <1>22 DEF JournalAppend, Event, Events
<1>23. ASSUME NEW w \in Servers, Answer(w) PROVE TypeInv'
  BY <1>23, EndTypes DEF Answer
<1>24. ASSUME NEW w \in Servers, Refuse(w) PROVE TypeInv'
  BY <1>24, EndTypes DEF Refuse
<1>25. ASSUME NEW w \in Servers, Crash(w) PROVE TypeInv'
  BY <1>25, EndTypes DEF Crash
<1> QED
  BY <1>1, <1>2, <1>3, <1>4, <1>5, <1>6, <1>7, <1>8, <1>9, <1>10, <1>11, <1>12, <1>13, <1>14, <1>15, <1>16, <1>17, <1>18, <1>19, <1>20, <1>21, <1>22, <1>23, <1>24, <1>25 DEF Next, Step

\* The tools start well typed.
LEMMA TypeInitially == Init => TypeInv
  BY SeedAssumption
     DEF Init, FilesInit, ProbeInit, Diagnosis, NothingRead, TypeInv, TypeOK, FilesTypeOK,
         CallInv, Snapshots, Steps, BeginSteps, FinishSteps, AbandonSteps, ReconcileSteps

\* A server in a call knows its session and its operation.
LEMMA TypeInvariance == Spec => []TypeInv
  BY TypeInitially, TypeStep, PTL DEF Spec

-----------------------------------------------------------------------------
(* Claims *)

\* A step in the middle of a call stays in its operation or goes to its release,
\* and leaves the claims alone.
Groups == {BeginSteps, FinishSteps, AbandonSteps, ReconcileSteps, Ending}

Within(w) ==
  /\ \E group \in Groups, to \in Steps :
       /\ at[w] \in group
       /\ to \in group \/ to = "release"
       /\ at' = [at EXCEPT ![w] = to]
  /\ UNCHANGED <<op, arg, held>>

\* The claims of a call are given back in one step and the journal's is taken
\* in another one.
Between(w) ==
  \/ Release(w)
  \/ JournalClaim(w)
  \/ End(w)

\* The steps of begin, finish, abandon and reconcile, without their ends.
ToolStep(w) ==
  \/ BeginRead(w) \/ BeginScan(w) \/ BeginPending(w)
  \/ BeginSession(w) \/ BeginBinding(w)
  \/ FinishReadEvidence(w) \/ FinishReadSnapshot(w)
  \/ FinishFound(w) \/ FinishRepair(w)
  \/ FinishCapture(w) \/ FinishEvidence(w) \/ FinishSnapshot(w)
  \/ AbandonRead(w) \/ AbandonMark(w)
  \/ ReconcileScan(w) \/ ReconcileFound(w) \/ ReconcileMark(w)
  \/ JournalAppend(w)

\* Each of them takes at from one step of its operation to the next one.
LEMMA ToolStepIsWithin ==
  ASSUME TypeInv, NEW w \in Servers, ToolStep(w)
  PROVE  Within(w)
<1> USE DEF Within, Groups, Goto, Skip, Steps, BeginSteps, FinishSteps, AbandonSteps,
            ReconcileSteps, Ending
<1>1. CASE BeginRead(w) \/ BeginScan(w) \/ BeginPending(w) \/ BeginSession(w) \/ BeginBinding(w)
  BY <1>1 DEF BeginRead, BeginScan, BeginPending, BeginSession, BeginBinding, ReadEvidence
<1>2. CASE FinishReadEvidence(w) \/ FinishReadSnapshot(w) \/ FinishFound(w) \/ FinishCapture(w)
  BY <1>2 DEF FinishReadEvidence, FinishReadSnapshot, FinishFound, FinishCapture,
              ReadEvidence, ReadSnapshot
<1>3. CASE FinishRepair(w) \/ FinishEvidence(w) \/ FinishSnapshot(w)
  BY <1>3 DEF FinishRepair, FinishEvidence, FinishSnapshot
<1>4. CASE AbandonRead(w) \/ AbandonMark(w)
  BY <1>4 DEF AbandonRead, AbandonMark
<1>5. CASE ReconcileScan(w) \/ ReconcileFound(w) \/ ReconcileMark(w)
  BY <1>5 DEF ReconcileScan, ReconcileFound, ReconcileMark
<1>6. CASE JournalAppend(w)
  BY <1>6 DEF JournalAppend
<1> QED
  BY <1>1, <1>2, <1>3, <1>4, <1>5, <1>6 DEF ToolStep

\* Every step begins a call, is one of a tool, or is between claims.
LEMMA NextByClaim ==
  ASSUME Next
  PROVE  \E w \in Servers : CallTool(w) \/ ToolStep(w) \/ Between(w)
  BY DEF Next, Step, ToolStep, Between, Answer, Refuse, Crash

\* Taking claims that are free keeps holders apart.
LEMMA ClaimKeepsExclusive ==
  ASSUME TypeOK, Exclusive, NEW w \in Servers, NEW wanted, Claim(w, wanted)
  PROVE  Exclusive'
<1> SUFFICES ASSUME NEW u \in Servers, NEW v \in Servers, u # v, NEW claim,
                    claim \in held'[u], claim \in held'[v]
             PROVE  FALSE
  BY DEF Exclusive
<1>1. \A x \in Servers \ {w} : held'[x] = held[x]
  BY DEF TypeOK, Claim
<1>2. held'[w] = wanted
  BY DEF TypeOK, Claim
<1>3. \A x \in Servers : claim \in wanted => claim \notin held[x]
  BY DEF Claim, Free
<1> QED
  BY <1>1, <1>2, <1>3 DEF Exclusive

\* A call has the claims of its tool from its first step on.
LEMMA CallHolds ==
  ASSUME TypeInv, ClaimInv, NEW w \in Servers, CallTool(w)
  PROVE  ClaimInv'
<1> USE DEF TypeInv, TypeOK, Goto, Call, BeginSteps, FinishSteps, AbandonSteps
<1>1. PICK s \in Sessions :
        CallBegin(w, s) \/ CallFinish(w, s) \/ CallAbandon(w, s) \/ CallReconcile(w, s)
  BY DEF CallTool
<1>2. Exclusive'
  BY <1>1, ClaimKeepsExclusive
     DEF ClaimInv, CallBegin, CallFinish, CallAbandon, CallReconcile
<1>3. ASSUME NEW v \in Servers, v # w PROVE HeldInv(v)'
  BY <1>1, <1>3 DEF ClaimInv, HeldInv, Claim, CallBegin, CallFinish, CallAbandon, CallReconcile
<1>4. HeldInv(w)'
  BY <1>1 DEF HeldInv, Claim, CallBegin, CallFinish, CallAbandon, CallReconcile
<1> QED
  BY <1>2, <1>3, <1>4 DEF ClaimInv

\* Claims are held up to the release and never shared.
LEMMA ClaimStep == TypeInv /\ ClaimInv /\ [Next]_vars => ClaimInv'
<1> SUFFICES ASSUME TypeInv, ClaimInv, [Next]_vars PROVE ClaimInv'
  OBVIOUS
<1> USE DEF TypeInv, TypeOK, ClaimInv
<1>1. CASE UNCHANGED vars
  BY <1>1 DEF Exclusive, HeldInv, vars, probeVars, call
<1>2. ASSUME NEW w \in Servers, CallTool(w) PROVE ClaimInv'
  BY <1>2, CallHolds
<1>3. ASSUME NEW w \in Servers, ToolStep(w) PROVE ClaimInv'
  <2>1. Within(w)
    BY <1>3, ToolStepIsWithin
  <2>2. PICK group \in Groups, to \in Steps :
          /\ at[w] \in group
          /\ to \in group \/ to = "release"
          /\ at' = [at EXCEPT ![w] = to]
          /\ UNCHANGED <<arg, held>>
    BY <2>1 DEF Within
  <2>3. Exclusive'
    BY <2>2 DEF Exclusive
  <2>4. ASSUME NEW v \in Servers PROVE HeldInv(v)'
    BY <2>2 DEF HeldInv, Groups, BeginSteps, FinishSteps, AbandonSteps, ReconcileSteps, Ending
  <2> QED
    BY <2>3, <2>4
<1>4. ASSUME NEW w \in Servers, Release(w) \/ End(w) PROVE ClaimInv'
  BY <1>4 DEF Exclusive, HeldInv, Release, End, Goto, BeginSteps, FinishSteps, AbandonSteps
<1>5. ASSUME NEW w \in Servers, JournalClaim(w) PROVE ClaimInv'
  <2>1. Exclusive'
    BY <1>5, ClaimKeepsExclusive DEF JournalClaim
  <2>2. ASSUME NEW v \in Servers PROVE HeldInv(v)'
    BY <1>5 DEF HeldInv, JournalClaim, Claim, Goto, BeginSteps, FinishSteps, AbandonSteps
  <2> QED
    BY <2>1, <2>2
<1> QED
  BY <1>1, <1>2, <1>3, <1>4, <1>5, NextByClaim DEF Between

\* No claim is held at the start.
LEMMA ClaimInitially == Init => ClaimInv
  BY DEF Init, ProbeInit, ClaimInv, Exclusive, HeldInv, BeginSteps, FinishSteps, AbandonSteps

-----------------------------------------------------------------------------
(* What the claims keep apart *)

\* Two begins in progress are for different slots.
LEMMA BeginsApart ==
  ASSUME ClaimInv, NEW v \in Servers, NEW w \in Servers, v # w,
         at[v] \in BeginSteps, at[w] \in BeginSteps
  PROVE  Slot[arg[v]] # Slot[arg[w]]
  BY DEF ClaimInv, HeldInv, Exclusive

\* Only one finish is in progress.
LEMMA OneFinish ==
  ASSUME ClaimInv, NEW v \in Servers, NEW w \in Servers,
         at[v] \in FinishSteps, at[w] \in FinishSteps
  PROVE  v = w
  BY DEF ClaimInv, HeldInv, Exclusive

\* A session is not finished and abandoned at the same time.
LEMMA EndsApart ==
  ASSUME ClaimInv, NEW v \in Servers, NEW w \in Servers, v # w,
         at[v] \in FinishSteps \cup AbandonSteps, at[w] \in FinishSteps \cup AbandonSteps
  PROVE  arg[v] # arg[w]
  BY DEF ClaimInv, HeldInv, Exclusive

\* A step is one of a single server; the others keep what they remember.
Untouched(v) ==
  /\ at'[v] = at[v]
  /\ op'[v] = op[v]
  /\ arg'[v] = arg[v]
  /\ old'[v] = old[v]
  /\ shown'[v] = shown[v]

\* Whatever a server does, no other one moves or forgets what it read.
LEMMA OthersRemember ==
  ASSUME TypeInv, NEW w \in Servers, CallTool(w) \/ ToolStep(w) \/ Between(w),
         NEW v \in Servers, v # w
  PROVE  Untouched(v)
<1> USE DEF TypeInv, TypeOK, Untouched, Goto, Skip
<1>1. CASE CallTool(w)
  BY <1>1 DEF CallTool, CallBegin, CallFinish, CallAbandon, CallReconcile, Call
<1>2. CASE BeginRead(w) \/ BeginScan(w) \/ BeginPending(w) \/ BeginSession(w) \/ BeginBinding(w)
  BY <1>2 DEF BeginRead, BeginScan, BeginPending, BeginSession, BeginBinding, ReadEvidence
<1>3. CASE FinishReadEvidence(w) \/ FinishReadSnapshot(w) \/ FinishFound(w) \/ FinishCapture(w)
  BY <1>3 DEF FinishReadEvidence, FinishReadSnapshot, FinishFound, FinishCapture,
              ReadEvidence, ReadSnapshot
<1>4. CASE FinishRepair(w) \/ FinishEvidence(w) \/ FinishSnapshot(w)
  BY <1>4 DEF FinishRepair, FinishEvidence, FinishSnapshot
<1>5. CASE AbandonRead(w) \/ AbandonMark(w)
  BY <1>5 DEF AbandonRead, AbandonMark
<1>6. CASE ReconcileScan(w) \/ ReconcileFound(w) \/ ReconcileMark(w)
  BY <1>6 DEF ReconcileScan, ReconcileFound, ReconcileMark
<1>7. CASE JournalAppend(w)
  BY <1>7 DEF JournalAppend
<1>8. CASE Between(w)
  BY <1>8 DEF Between, Release, JournalClaim, End
<1> QED
  BY <1>1, <1>2, <1>3, <1>4, <1>5, <1>6, <1>7, <1>8 DEF ToolStep

-----------------------------------------------------------------------------
(***************************************************************************)
(* The files.  A step that changes none of them is checked for its own     *)
(* server only; for one that does, the claims tell why what the others     *)
(* remember stays true.                                                    *)
(***************************************************************************)

\* What the files say and the others remember of them stays when no file changes.
LEMMA QuietStep ==
  ASSUME TypeInv, FilesInv, NEW w \in Servers, CallTool(w) \/ ToolStep(w) \/ Between(w),
         UNCHANGED <<files, disk, answered>>, MemoryInv(w)'
  PROVE  FilesInv'
<1>1. DiskInv' /\ JournalIsTrue'
  BY DEF FilesInv, DiskInv, JournalIsTrue, files, disk
<1>2. ASSUME NEW v \in Servers, v # w PROVE MemoryInv(v)'
  <2>1. Untouched(v)
    BY <1>2, OthersRemember
  <2> QED
    BY <2>1 DEF FilesInv, MemoryInv, BeginInv, FinishInv, AbandonInv, DoneInv, Untouched,
                PendingIn, files, disk
<1> QED
  BY <1>1, <1>2 DEF FilesInv

\* Beginning a call remembers that a binding is there.
LEMMA CallFiles ==
  ASSUME TypeInv, FilesInv, NEW w \in Servers, CallTool(w)
  PROVE  FilesInv'
<1> USE DEF TypeInv, TypeOK, Goto, Call, BeginSteps, FinishSteps, AbandonSteps, Ending
<1>1. PICK s \in Sessions :
        CallBegin(w, s) \/ CallFinish(w, s) \/ CallAbandon(w, s) \/ CallReconcile(w, s)
  BY DEF CallTool
<1>2. UNCHANGED <<files, disk, answered>>
  BY <1>1 DEF CallBegin, CallFinish, CallAbandon, CallReconcile
<1>3. MemoryInv(w)'
  BY <1>1 DEF MemoryInv, BeginInv, FinishInv, AbandonInv, DoneInv, CallBegin, CallFinish,
              CallAbandon, CallReconcile, disk
<1> QED
  BY <1>2, <1>3, QuietStep

\* The steps of begin up to its writes: the scan of its slot is against an
\* evidence document that can only have grown since.
LEMMA BeginReadsFiles ==
  ASSUME TypeInv, FilesInv, NEW w \in Servers,
         BeginRead(w) \/ BeginScan(w) \/ BeginPending(w)
  PROVE  FilesInv'
<1> USE DEF TypeInv, TypeOK, Goto, Skip, BeginSteps, FinishSteps, AbandonSteps, Ending,
            BeginRead, BeginScan, BeginPending, ReadEvidence
<1>1. UNCHANGED <<files, disk, answered>>
  OBVIOUS
<1>2. MemoryInv(w)'
  <2>1. CASE BeginRead(w) \/ BeginScan(w)
    BY <2>1 DEF FilesInv, MemoryInv, BeginInv, FinishInv, AbandonInv, DoneInv, files, disk
  <2>2. CASE BeginPending(w)
    <3>1. PendingIn(evidence) \subseteq PendingIn(old[w])
      BY <2>2 DEF FilesInv, MemoryInv, BeginInv, PendingIn
    <3> QED
      BY <2>2, <3>1 DEF FilesInv, MemoryInv, BeginInv, FinishInv, AbandonInv, DoneInv,
                        PendingIn, files, disk
  <2> QED
    BY <2>1, <2>2
<1> QED
  BY <1>1, <1>2, QuietStep DEF ToolStep

\* The steps of finish up to its writes.
LEMMA FinishReadsFiles ==
  ASSUME TypeInv, FilesInv, NEW w \in Servers,
         FinishReadEvidence(w) \/ FinishReadSnapshot(w) \/ FinishFound(w) \/ FinishCapture(w)
  PROVE  FilesInv'
<1> USE DEF TypeInv, TypeOK, CallInv, Goto, Skip, BeginSteps, FinishSteps, AbandonSteps,
            Ending, FinishReadEvidence, FinishReadSnapshot, FinishFound, FinishCapture,
            ReadEvidence, ReadSnapshot
<1>1. UNCHANGED <<files, disk, answered>>
  OBVIOUS
<1>2. MemoryInv(w)'
  BY DEF FilesInv, MemoryInv, BeginInv, FinishInv, AbandonInv, DoneInv, files, disk
<1> QED
  BY <1>1, <1>2, QuietStep DEF ToolStep

\* The other steps that change no file.
LEMMA OtherReadsFiles ==
  ASSUME TypeInv, FilesInv, NEW w \in Servers,
         \/ AbandonRead(w) \/ ReconcileScan(w) \/ ReconcileFound(w)
         \/ Release(w) \/ JournalClaim(w) \/ Refuse(w) \/ Crash(w)
  PROVE  FilesInv'
<1> USE DEF TypeInv, TypeOK, CallInv, Goto, Skip, BeginSteps, FinishSteps, AbandonSteps,
            ReconcileSteps, Ending, AbandonRead, ReconcileScan, ReconcileFound, Release,
            JournalClaim, Refuse, Crash
<1>1. UNCHANGED <<files, disk, answered>>
  OBVIOUS
<1>2. MemoryInv(w)'
  BY DEF FilesInv, MemoryInv, BeginInv, FinishInv, AbandonInv, DoneInv, End, files, disk
<1> QED
  BY <1>1, <1>2, QuietStep DEF ToolStep, Between

\* The writes of begin: another begin is for another slot, so its finding about
\* its slot stays.
LEMMA BeginWritesFiles ==
  ASSUME TypeInv, ClaimInv, FilesInv, NEW w \in Servers, BeginSession(w) \/ BeginBinding(w)
  PROVE  FilesInv'
<1> USE DEF TypeInv, TypeOK, CallInv, Goto, BeginSession, BeginBinding, files
<1>1. arg[w] \in Sessions /\ at[w] \in BeginSteps
  BY DEF BeginSteps
<1>2. DiskInv' /\ JournalIsTrue'
  BY <1>1 DEF FilesInv, DiskInv, JournalIsTrue, MemoryInv, BeginInv
<1>3. ASSUME NEW v \in Servers, v # w PROVE MemoryInv(v)'
  <2>1. Untouched(v)
    BY <1>3, OthersRemember DEF ToolStep
  <2>2. at[v] \in BeginSteps => Slot[arg[v]] # Slot[arg[w]]
    BY <1>1, <1>3, BeginsApart
  <2>3. BeginInv(v)'
    BY <2>1, <2>2 DEF FilesInv, MemoryInv, BeginInv, Untouched, PendingIn, BeginSteps
  <2>4. FinishInv(v)' /\ AbandonInv(v)' /\ DoneInv(v)'
    BY <2>1 DEF FilesInv, MemoryInv, FinishInv, AbandonInv, DoneInv, Untouched
  <2> QED
    BY <2>3, <2>4 DEF MemoryInv
<1>4. MemoryInv(w)'
  BY <1>1 DEF FilesInv, MemoryInv, BeginInv, FinishInv, AbandonInv, DoneInv, PendingIn,
              FinishSteps, AbandonSteps, Ending
<1> QED
  BY <1>2, <1>3, <1>4 DEF FilesInv

\* The writes of finish: no other finish is in progress, and nobody abandons the
\* same session; the evidence only grows.
LEMMA FinishWritesFiles ==
  ASSUME TypeInv, ClaimInv, FilesInv, NEW w \in Servers,
         FinishRepair(w) \/ FinishEvidence(w) \/ FinishSnapshot(w)
  PROVE  FilesInv'
<1> USE DEF TypeInv, TypeOK, CallInv, Goto, FinishRepair, FinishEvidence, FinishSnapshot,
            WriteEvidence, WriteSnapshot, Diagnosis, disk
<1>1. arg[w] \in Sessions /\ at[w] \in FinishSteps /\ op[w] = "finish"
  BY DEF FinishSteps
<1>2. FinishInv(w)
  BY DEF FilesInv, MemoryInv
<1>3. /\ evidence \subseteq evidence' /\ evidence' \subseteq evidence \cup {arg[w]}
      /\ snapshot' = snapshot \/ snapshot'.instances = evidence'
      /\ UNCHANGED <<disk, answered>>
  <2>1. CASE FinishRepair(w)
    BY <1>2, <2>1 DEF FinishInv
  <2>2. CASE FinishEvidence(w)
    BY <1>2, <2>2 DEF FinishInv
  <2>3. CASE FinishSnapshot(w)
    BY <1>2, <2>3 DEF FinishInv
  <2> QED
    BY <2>1, <2>2, <2>3
<1>4. evidence' # evidence => arg[w] \notin abandoned
  BY <1>2 DEF FinishInv
<1>5. DiskInv'
  BY <1>1, <1>2, <1>3, <1>4 DEF FilesInv, DiskInv, FinishInv
<1>6. JournalIsTrue'
  BY <1>3 DEF FilesInv, JournalIsTrue
<1>7. ASSUME NEW v \in Servers, v # w PROVE MemoryInv(v)'
  <2>1. Untouched(v)
    BY <1>7, OthersRemember DEF ToolStep
  <2>2. at[v] \notin FinishSteps
    BY <1>1, <1>7, OneFinish
  <2>3. at[v] \in AbandonSteps => arg[v] # arg[w]
    BY <1>1, <1>7, EndsApart
  <2>4. BeginInv(v)'
    BY <1>3, <2>1 DEF FilesInv, MemoryInv, BeginInv, Untouched, PendingIn
  <2>5. FinishInv(v)'
    BY <2>1, <2>2 DEF FinishInv, Untouched, FinishSteps
  <2>6. AbandonInv(v)'
    BY <1>3, <2>1, <2>3 DEF FilesInv, MemoryInv, AbandonInv, Untouched, AbandonSteps
  <2>7. DoneInv(v)'
    BY <1>3, <2>1 DEF FilesInv, MemoryInv, DoneInv, Untouched
  <2> QED
    BY <2>4, <2>5, <2>6, <2>7 DEF MemoryInv
<1>8. MemoryInv(w)'
  BY <1>1 DEF FilesInv, MemoryInv, BeginInv, FinishInv, AbandonInv, DoneInv, BeginSteps,
              FinishSteps, AbandonSteps, Ending
<1> QED
  BY <1>5, <1>6, <1>7, <1>8 DEF FilesInv

\* The markers of abandon and reconcile: nobody finishes the abandoned session,
\* whose evidence is therefore still missing.
LEMMA MarkersFiles ==
  ASSUME TypeInv, ClaimInv, FilesInv, NEW w \in Servers, AbandonMark(w) \/ ReconcileMark(w)
  PROVE  FilesInv'
<1> USE DEF TypeInv, TypeOK, CallInv, Goto, AbandonMark, ReconcileMark, files
<1>1. DiskInv' /\ JournalIsTrue'
  BY DEF FilesInv, DiskInv, JournalIsTrue, MemoryInv, AbandonInv, AbandonSteps
<1>2. ASSUME NEW v \in Servers, v # w PROVE MemoryInv(v)'
  <2>1. Untouched(v)
    BY <1>2, OthersRemember DEF ToolStep
  <2>2. BeginInv(v)' /\ AbandonInv(v)' /\ DoneInv(v)'
    BY <2>1 DEF FilesInv, MemoryInv, BeginInv, AbandonInv, DoneInv, Untouched, PendingIn
  <2>3. FinishInv(v)'
    <3>1. CASE AbandonMark(w)
      <4>1. at[v] \in FinishSteps => arg[v] # arg[w]
        BY <1>2, <3>1, EndsApart DEF AbandonSteps
      <4> QED
        BY <2>1, <3>1, <4>1 DEF FilesInv, MemoryInv, FinishInv, Untouched, FinishSteps
    <3>2. CASE ReconcileMark(w)
      BY <2>1, <3>2 DEF FilesInv, MemoryInv, FinishInv, Untouched
    <3> QED
      BY <3>1, <3>2
  <2> QED
    BY <2>2, <2>3 DEF MemoryInv
<1>3. MemoryInv(w)'
  BY DEF FilesInv, MemoryInv, BeginInv, FinishInv, AbandonInv, DoneInv, BeginSteps,
         FinishSteps, AbandonSteps, ReconcileSteps, Ending
<1> QED
  BY <1>1, <1>2, <1>3 DEF FilesInv

\* The journal and the answer record what is done.
LEMMA RecordFiles ==
  ASSUME TypeInv, FilesInv, NEW w \in Servers, JournalAppend(w) \/ Answer(w)
  PROVE  FilesInv'
<1> USE DEF TypeInv, TypeOK, CallInv, Goto, JournalAppend, Answer, files, disk
<1>1. DoneInv(w) /\ at[w] \in Ending
  BY DEF FilesInv, MemoryInv, Ending
<1>2. DiskInv'
  BY <1>1 DEF FilesInv, DiskInv, DoneInv
<1>3. JournalIsTrue'
  <2>1. UNCHANGED <<evidence, sessions, bindings, abandoned, reconciled>>
    OBVIOUS
  <2>2. ASSUME NEW name, NEW s \in Sessions, <<name, s>> \in recorded'
        PROVE  <<name, s>> \in recorded \/ (op[w] = name /\ arg[w] = s /\ DoneInv(w))
    BY <1>1, <2>2 DEF Event
  <2> SUFFICES ASSUME NEW s \in Sessions
               PROVE  /\ <<"begin", s>> \in recorded' => s \in sessions \cap bindings
                      /\ <<"finish", s>> \in recorded' => s \in evidence
                      /\ <<"abandon", s>> \in recorded' => s \in abandoned
                      /\ <<"reconcile", s>> \in recorded' => s \in reconciled
    BY <2>1 DEF JournalIsTrue, FilesInv, DiskInv
  <2>3. <<"begin", s>> \in recorded' => s \in sessions \cap bindings
    BY <1>1, <2>2 DEF FilesInv, DiskInv, JournalIsTrue, DoneInv
  <2>4. <<"finish", s>> \in recorded' => s \in evidence
    BY <1>1, <2>2 DEF FilesInv, JournalIsTrue, DoneInv
  <2>5. <<"abandon", s>> \in recorded' => s \in abandoned
    BY <1>1, <2>2 DEF FilesInv, JournalIsTrue, DoneInv
  <2>6. <<"reconcile", s>> \in recorded' => s \in reconciled
    BY <1>1, <2>2 DEF FilesInv, JournalIsTrue, DoneInv
  <2> QED
    BY <2>3, <2>4, <2>5, <2>6
<1>4. ASSUME NEW v \in Servers, v # w PROVE MemoryInv(v)'
  <2>1. Untouched(v)
    BY <1>4, OthersRemember DEF ToolStep, Between
  <2> QED
    BY <2>1 DEF FilesInv, MemoryInv, BeginInv, FinishInv, AbandonInv, DoneInv, Untouched,
                PendingIn
<1>5. MemoryInv(w)'
  BY <1>1 DEF FilesInv, MemoryInv, BeginInv, FinishInv, AbandonInv, DoneInv, End, BeginSteps,
              FinishSteps, AbandonSteps, Ending
<1> QED
  BY <1>2, <1>3, <1>4, <1>5 DEF FilesInv

\* The facts about the files are preserved by every step.
LEMMA FilesStep == TypeInv /\ ClaimInv /\ FilesInv /\ [Next]_vars => FilesInv'
<1> SUFFICES ASSUME TypeInv, ClaimInv, FilesInv, [Next]_vars PROVE FilesInv'
  OBVIOUS
<1>1. CASE UNCHANGED vars
  BY <1>1 DEF FilesInv, DiskInv, JournalIsTrue, MemoryInv, BeginInv, FinishInv, AbandonInv,
              DoneInv, PendingIn, vars, files, probeVars, disk, call
<1>2. ASSUME NEW w \in Servers, CallTool(w) \/ Step(w) \/ Crash(w) PROVE FilesInv'
  BY <1>2, CallFiles, BeginReadsFiles, FinishReadsFiles, OtherReadsFiles, BeginWritesFiles,
     FinishWritesFiles, MarkersFiles, RecordFiles DEF Step
<1> QED
  BY <1>1, <1>2 DEF Next

\* The seed holds the evidence of no session, and nobody is in a call.
LEMMA FilesInitially == Init => FilesInv
  BY SessionsAssumption
     DEF Init, FilesInit, ProbeInit, FilesInv, DiskInv, JournalIsTrue, MemoryInv, BeginInv,
         FinishInv, AbandonInv, DoneInv, PendingIn, FinishSteps, AbandonSteps, Ending

\* The whole invariant holds in every reachable state.
LEMMA AllInvariance == Spec => []AllInv
<1>1. Init => AllInv
  BY TypeInitially, ClaimInitially, FilesInitially DEF AllInv
<1>2. AllInv /\ [Next]_vars => AllInv'
  BY TypeStep, ClaimStep, FilesStep DEF AllInv
<1> QED
  BY <1>1, <1>2, PTL DEF Spec

-----------------------------------------------------------------------------
\* Every reachable state is well typed, for every set of servers and sessions.
THEOREM ProbeTypesCorrect == Spec => []TypeOK
<1>1. AllInv => TypeOK
  BY DEF AllInv, TypeInv
<1> QED
  BY <1>1, AllInvariance, PTL

\* A finish that was answered as completed is in the evidence and in the
\* diagnosis, with crashes between any two writes and retries that repair.
THEOREM AnsweredFinishes == Spec => []AnsweredFinishIsPublished
<1>1. AllInv => AnsweredFinishIsPublished
  BY DEF AllInv, FilesInv, DiskInv, AnsweredFinishIsPublished
<1> QED
  BY <1>1, AllInvariance, PTL

\* The workflow journal, appended to after the claims are given back, records
\* only what is on disk and never both ends of a session.
THEOREM TruthfulJournal == Spec => []JournalIsTrue
<1>1. AllInv => JournalIsTrue
  BY DEF AllInv, FilesInv
<1> QED
  BY <1>1, AllInvariance, PTL

-----------------------------------------------------------------------------
(* The abstract lifecycle *)

\* The status of one session, by cases.
LEMMA StatusByCases ==
  ASSUME NEW s \in Sessions
  PROVE  /\ s \notin sessions \cap bindings => Status[s] = "absent"
         /\ s \in sessions \cap bindings /\ s \in evidence => Status[s] = "completed"
         /\ s \in sessions \cap bindings /\ s \notin evidence /\ s \in abandoned =>
              Status[s] = "abandoned"
         /\ s \in sessions \cap bindings /\ s \notin evidence /\ s \notin abandoned =>
              Status[s] = "pending"
  BY DEF Status

\* Steps that write neither binding, evidence nor abandonment marker are
\* invisible, and so is the baseline of a session without a binding.
LEMMA StatusStutters ==
  ASSUME UNCHANGED <<bindings, abandoned, evidence>>,
         sessions' \cap bindings = sessions \cap bindings
  PROVE  Status' = Status
  BY DEF Status

\* The binding is the beginning of a session, when no other one of its slot is
\* unfinished.
LEMMA BindingBegins ==
  ASSUME AllInv, NEW w \in Servers, BeginBinding(w)
  PROVE  Lifecycle!BeginSession(arg[w])
<1> USE DEF BeginBinding, Goto, files
<1>1. arg[w] \in Sessions
  BY DEF AllInv, TypeInv, CallInv
<1>2. BeginInv(w) /\ DiskInv
  BY DEF AllInv, FilesInv, MemoryInv
<1>3. /\ arg[w] \in sessions /\ arg[w] \notin bindings
      /\ arg[w] \notin evidence /\ arg[w] \notin abandoned
      /\ \A t \in PendingIn(evidence) : Slot[t] # Slot[arg[w]]
  BY <1>1, <1>2 DEF BeginInv, DiskInv
<1>4. Status[arg[w]] = "absent"
  BY <1>1, <1>3, StatusByCases
<1>5. ASSUME NEW t \in Sessions, Slot[t] = Slot[arg[w]] PROVE Status[t] # "pending"
  BY <1>3, <1>5, StatusByCases DEF PendingIn
<1>6. Status' = [Status EXCEPT ![arg[w]] = "pending"]
  BY <1>1, <1>3 DEF Status
<1> QED
  BY <1>4, <1>5, <1>6 DEF Lifecycle!BeginSession

\* The evidence is the end of a session that was not abandoned.
LEMMA EvidenceCompletes ==
  ASSUME AllInv, NEW w \in Servers, FinishEvidence(w)
  PROVE  \/ Lifecycle!EndSession(arg[w], "completed")
         \/ Status' = Status
<1> USE DEF FinishEvidence, Goto, WriteEvidence, disk
<1>1. arg[w] \in Sessions /\ FinishInv(w) /\ DiskInv
  BY DEF AllInv, TypeInv, CallInv, FilesInv, MemoryInv
<1>2. /\ arg[w] \in sessions \cap bindings /\ arg[w] \notin abandoned
      /\ evidence' = evidence \cup {arg[w]}
  BY <1>1 DEF FinishInv, DiskInv, FinishSteps
<1>3. CASE arg[w] \in evidence
  <2>1. evidence' = evidence
    BY <1>2, <1>3
  <2> QED
    BY <2>1, StatusStutters
<1>4. CASE arg[w] \notin evidence
  <2>1. Status[arg[w]] = "pending"
    BY <1>1, <1>2, <1>4, StatusByCases
  <2>2. Status' = [Status EXCEPT ![arg[w]] = "completed"]
    BY <1>1, <1>2 DEF Status
  <2> QED
    BY <2>1, <2>2 DEF Lifecycle!EndSession
<1> QED
  BY <1>3, <1>4

\* The marker is the end of a session that was not completed; marking a second
\* time changes nothing.
LEMMA MarkerAbandons ==
  ASSUME AllInv, NEW w \in Servers, AbandonMark(w)
  PROVE  \/ Lifecycle!EndSession(arg[w], "abandoned")
         \/ Status' = Status
<1> USE DEF AbandonMark, Goto, files
<1>1. arg[w] \in Sessions /\ AbandonInv(w) /\ DiskInv
  BY DEF AllInv, TypeInv, CallInv, FilesInv, MemoryInv
<1>2. arg[w] \in sessions \cap bindings /\ arg[w] \notin evidence
  BY <1>1 DEF AbandonInv, DiskInv, AbandonSteps
<1>3. CASE arg[w] \in abandoned
  <2>1. abandoned' = abandoned
    BY <1>3
  <2> QED
    BY <2>1, StatusStutters
<1>4. CASE arg[w] \notin abandoned
  <2>1. Status[arg[w]] = "pending"
    BY <1>1, <1>2, <1>4, StatusByCases
  <2>2. Status' = [Status EXCEPT ![arg[w]] = "abandoned"]
    BY <1>1, <1>2 DEF Status
  <2> QED
    BY <2>1, <2>2 DEF Lifecycle!EndSession
<1> QED
  BY <1>3, <1>4

\* No other step is visible.
LEMMA OtherStepsStutter ==
  ASSUME AllInv, NEW w \in Servers, CallTool(w) \/ Step(w) \/ Crash(w),
         ~ BeginBinding(w), ~ FinishEvidence(w), ~ AbandonMark(w)
  PROVE  Status' = Status
<1> USE DEF Goto, Skip, files, disk
<1>1. CASE BeginSession(w)
  <2>1. arg[w] \notin bindings
    BY <1>1 DEF BeginSession, AllInv, FilesInv, MemoryInv, BeginInv
  <2> QED
    BY <1>1, <2>1, StatusStutters DEF BeginSession
<1>2. CASE ~ BeginSession(w)
  <2>1. UNCHANGED <<sessions, bindings, abandoned, evidence>>
    BY <1>2 DEF CallTool, CallBegin, CallFinish, CallAbandon, CallReconcile, Call, Step, Crash,
                BeginRead, BeginScan, BeginPending, ReadEvidence, ReadSnapshot,
                FinishReadEvidence, FinishReadSnapshot, FinishFound, FinishRepair,
                FinishCapture, FinishSnapshot, WriteSnapshot, AbandonRead, ReconcileScan,
                ReconcileFound, ReconcileMark, Release, JournalClaim, JournalAppend, Answer,
                Refuse
  <2> QED
    BY <2>1, StatusStutters
<1> QED
  BY <1>1, <1>2

\* The tools implement the lifecycle: a session is begun once, is then the only
\* unfinished one of its target and scope, and ends once.
THEOREM ToolsImplementLifecycle == Spec => ImplementsLifecycle
<1>1. Init => Lifecycle!LifecycleInit
  <2> SUFFICES ASSUME Init PROVE Status = [s \in Sessions |-> "absent"]
    BY DEF Lifecycle!LifecycleInit
  <2>1. sessions \cap bindings = {}
    BY DEF Init, ProbeInit
  <2> QED
    BY <2>1 DEF Status
<1>2. AllInv /\ [Next]_vars => [Lifecycle!LifecycleNext]_Status
  <2> SUFFICES ASSUME AllInv, [Next]_vars PROVE [Lifecycle!LifecycleNext]_Status
    OBVIOUS
  <2>1. CASE UNCHANGED vars
    <3>1. UNCHANGED <<sessions, bindings, abandoned, evidence>>
      BY <2>1 DEF vars, files, probeVars, disk
    <3> QED
      BY <3>1, StatusStutters
  <2>2. ASSUME NEW w \in Servers, CallTool(w) \/ Step(w) \/ Crash(w)
        PROVE  [Lifecycle!LifecycleNext]_Status
    <3>1. BeginBinding(w) \/ FinishEvidence(w) \/ AbandonMark(w) => arg[w] \in Sessions
      BY DEF AllInv, TypeInv, CallInv, BeginBinding, FinishEvidence, AbandonMark, Goto
    <3> QED
      BY <2>2, <3>1, BindingBegins, EvidenceCompletes, MarkerAbandons, OtherStepsStutter
         DEF Lifecycle!LifecycleNext
  <2> QED
    BY <2>1, <2>2 DEF Next
<1> QED
  BY <1>1, <1>2, AllInvariance, PTL DEF Spec, ImplementsLifecycle, Lifecycle!LifecycleSpec

-----------------------------------------------------------------------------
(***************************************************************************)
(* The readers: the agent plan and the workflow history.                   *)
(***************************************************************************)
Collecting == {"rescan", "list", "look"}
Readers == {"idle", "scan", "evidence", "built", "failed"} \cup Collecting

\* The parts of a reading, by how far it is.
ReadingInv ==
  /\ reader \in Readers
  /\ resource \in {"plan", "history"}
  /\ changed \in BOOLEAN
  /\ reader = "scan" => resource = "plan"
  /\ reader = "failed" => resource = "plan"
  /\ reader \in {"idle", "scan", "evidence", "rescan", "list"} => DOMAIN result = {}
  /\ reader = "look" => DOMAIN result \cap listed = {}
  /\ resource = "plan" /\ reader \in {"evidence", "rescan", "list", "look"} => issues = {}

\* What it read is still there, and what it may report was unfinished once.
ReadInv ==
  /\ through \subseteq Pending
  /\ reader # "idle" => Pending \cup Partial \subseteq ever
  /\ reader \in Collecting =>
       /\ known \subseteq evidence
       /\ bindings \subseteq known \cup abandoned \cup ever
  /\ reader \in {"list", "look"} => issues \subseteq ever

PlanInv ==
  resource = "plan" =>
    /\ reader = "look" => listed \subseteq bindings /\ through \subseteq listed \cup DOMAIN result
    /\ reader = "built" /\ issues = {} => through \subseteq DOMAIN result
    /\ reader \in {"look", "built"} => DOMAIN result \subseteq ever

ReportInv ==
  resource = "history" /\ reader \in {"look", "built"} =>
    \A s \in DOMAIN result :
      \/ result[s] = "completed" /\ s \in evidence
      \/ result[s] = "abandoned" /\ s \in abandoned
      \/ result[s] = "reconciled_partial" /\ s \in reconciled
      \/ result[s] \in {"recovery_required", "expired", "active"} /\ s \in ever

\* A plan that was read while nothing changed says what is.
ExactInv ==
  resource = "plan" /\ ~ changed =>
    /\ reader \in Collecting => known = evidence
    /\ reader \in {"list", "look"} => Partial = {}
    /\ reader = "look" =>
         /\ DOMAIN result = (bindings \ listed) \ (evidence \cup abandoned)
         /\ \A s \in DOMAIN result : result[s] = LifecycleState(s)
    /\ reader = "built" =>
         /\ issues = Partial
         /\ Partial # {} => /\ DOMAIN result = Partial
                            /\ \A s \in Partial : result[s] = "recovery_required"
         /\ Partial = {} => /\ DOMAIN result = Pending
                            /\ \A s \in Pending : result[s] = LifecycleState(s)

PlanAllInv == AllInv /\ ReadingInv /\ ReadInv /\ PlanInv /\ ReportInv /\ ExactInv

-----------------------------------------------------------------------------
(* The tools *)

\* Whatever the tools do, the files that a reading collects only grow, and a
\* session is unfinished when its binding appears.
LEMMA FilesGrow ==
  ASSUME AllInv, [Next]_vars
  PROVE  /\ sessions \subseteq sessions' /\ bindings \subseteq bindings'
         /\ abandoned \subseteq abandoned' /\ reconciled \subseteq reconciled'
         /\ evidence \subseteq evidence'
         /\ bindings' \subseteq bindings \cup Pending'
<1> DEFINE Grow == /\ sessions \subseteq sessions' /\ bindings \subseteq bindings'
                   /\ abandoned \subseteq abandoned' /\ reconciled \subseteq reconciled'
                   /\ evidence \subseteq evidence'
                   /\ bindings' \subseteq bindings \cup Pending'
<1>1. ASSUME UNCHANGED <<sessions, bindings, abandoned, reconciled, evidence>> PROVE Grow
  BY <1>1
<1>2. CASE UNCHANGED vars
  BY <1>1, <1>2 DEF vars, files, probeVars, disk
<1>3. ASSUME NEW w \in Servers, CallTool(w) PROVE Grow
  BY <1>1, <1>3 DEF CallTool, CallBegin, CallFinish, CallAbandon, CallReconcile, Call, files, disk
<1>4. ASSUME NEW w \in Servers, Crash(w) PROVE Grow
  BY <1>1, <1>4 DEF Crash, files, disk
<1>5. ASSUME NEW w \in Servers, Step(w) PROVE Grow
  <2>1. CASE BeginRead(w) \/ BeginScan(w) \/ BeginPending(w)
    BY <1>1, <2>1 DEF BeginRead, BeginScan, BeginPending, ReadEvidence, Skip, files, disk
  <2>2. CASE BeginSession(w)
    BY <2>2 DEF BeginSession, files
  <2>3. CASE BeginBinding(w)
    <3>1. at[w] = "begin_binding" /\ arg[w] \in Sessions /\ arg[w] \in sessions
          /\ arg[w] \notin bindings
      BY <2>3 DEF BeginBinding, Goto, AllInv, TypeInv, CallInv, FilesInv, MemoryInv, BeginInv
    <3>2. arg[w] \notin evidence /\ arg[w] \notin abandoned
      BY <3>1 DEF AllInv, FilesInv, DiskInv
    <3> QED
      BY <2>3, <3>1, <3>2 DEF BeginBinding, files, Pending, PendingIn
  <2>4. CASE FinishReadEvidence(w) \/ FinishReadSnapshot(w) \/ FinishFound(w) \/ FinishCapture(w)
    BY <1>1, <2>4 DEF FinishReadEvidence, FinishReadSnapshot, FinishFound, FinishCapture,
       ReadEvidence, ReadSnapshot, Skip, files, disk
  <2>5. CASE FinishRepair(w) \/ FinishSnapshot(w)
    BY <1>1, <2>5 DEF FinishRepair, FinishSnapshot, WriteSnapshot, disk
  <2>6. CASE FinishEvidence(w)
    <3>1. old[w] = evidence
      BY <2>6 DEF FinishEvidence, Goto, AllInv, FilesInv, MemoryInv, FinishInv
    <3> QED
      BY <2>6, <3>1 DEF FinishEvidence, WriteEvidence, disk
  <2>7. CASE AbandonRead(w) \/ AbandonMark(w)
    BY <2>7 DEF AbandonRead, AbandonMark, Skip, files, disk
  <2>8. CASE ReconcileScan(w) \/ ReconcileFound(w) \/ ReconcileMark(w)
    BY <2>8 DEF ReconcileScan, ReconcileFound, ReconcileMark, Skip, files, disk
  <2>9. CASE Release(w) \/ JournalClaim(w) \/ JournalAppend(w) \/ Answer(w) \/ Refuse(w)
    BY <1>1, <2>9 DEF Release, JournalClaim, JournalAppend, Answer, Refuse, files, disk
  <2> QED
    BY <1>5, <2>1, <2>2, <2>3, <2>4, <2>5, <2>6, <2>7, <2>8, <2>9 DEF Step
<1> QED
  BY <1>2, <1>3, <1>4, <1>5 DEF Next

\* A tool's step, time and a reading are steps, or stutter, for the tools.
LEMMA PlanStepIsToolStep ==
  ASSUME PlanNext
  PROVE  [Next]_vars
  BY DEF PlanNext, Tools, Expire, ReadStep, Next

\* The tools keep what they keep.
LEMMA ToolsInvariant ==
  ASSUME AllInv, PlanNext
  PROVE  AllInv'
  BY PlanStepIsToolStep, TypeStep, ClaimStep, FilesStep DEF AllInv

\* The files by themselves: unfinished sessions have a binding, ends exclude each
\* other.
LEMMA FilesFacts ==
  ASSUME AllInv
  PROVE  /\ Pending = bindings \ (evidence \cup abandoned)
         /\ evidence \cap abandoned = {}
         /\ bindings \subseteq sessions
<1>1. bindings \subseteq sessions /\ abandoned \subseteq bindings /\ evidence \cap abandoned = {}
  BY DEF AllInv, FilesInv, DiskInv
<1> QED
  BY <1>1 DEF Pending, PendingIn

\* What the history variables say of a step while a reading goes on.
LEMMA Tracked ==
  ASSUME Track, reader # "idle", reader' # "idle"
  PROVE  /\ changed' = (changed \/ disk' # disk \/ files' # files \/ expired' # expired)
         /\ through' = through \cap Pending'
         /\ ever' = ever \cup Pending' \cup Partial'
  BY DEF Track

\* The tools and time take nothing from a reading that is going on.
LEMMA ToolsKeepReading ==
  ASSUME PlanAllInv, Tools \/ Expire, Track
  PROVE  PlanAllInv'
<1>0. UNCHANGED reading /\ PlanNext
  BY DEF Tools, Expire, PlanNext
<1>1. /\ UNCHANGED <<reader, resource, issues, known, listed, result>>
  BY <1>0 DEF reading
<1>2. AllInv' /\ AllInv
  BY <1>0, ToolsInvariant DEF PlanAllInv
<1>3. /\ sessions \subseteq sessions' /\ bindings \subseteq bindings'
      /\ abandoned \subseteq abandoned' /\ reconciled \subseteq reconciled'
      /\ evidence \subseteq evidence'
      /\ bindings' \subseteq bindings \cup Pending'
  BY <1>0, <1>2, FilesGrow, PlanStepIsToolStep
<1>4. ReadingInv'
  <2>1. changed' \in BOOLEAN
    BY DEF Track
  <2> QED
    BY <1>1, <2>1 DEF PlanAllInv, ReadingInv
<1>5. CASE reader = "idle"
  <2>1. reader' = "idle" /\ through' = {}
    BY <1>1, <1>5 DEF Track
  <2> QED
    BY <1>2, <1>4, <2>1 DEF PlanAllInv, ReadInv, PlanInv, ReportInv, ExactInv, Collecting
<1>6. CASE reader # "idle"
  <2>1. /\ changed' = (changed \/ disk' # disk \/ files' # files \/ expired' # expired)
        /\ through' = through \cap Pending'
        /\ ever' = ever \cup Pending' \cup Partial'
    BY <1>1, <1>6, Tracked
  <2>2. ReadInv'
    BY <1>1, <1>3, <2>1 DEF PlanAllInv, ReadInv
  <2>3. PlanInv'
    BY <1>1, <1>3, <2>1 DEF PlanAllInv, PlanInv
  <2>4. ReportInv'
    BY <1>1, <1>3, <2>1 DEF PlanAllInv, ReportInv
  <2>5. ExactInv'
    <3>1. CASE changed'
      BY <3>1 DEF ExactInv
    <3>2. CASE ~ changed'
      <4>1. ~ changed /\ UNCHANGED <<sessions, bindings, abandoned, reconciled, evidence, expired>>
        BY <2>1, <3>2 DEF disk, files
      <4>2. UNCHANGED <<Partial, Pending>>
        BY <4>1 DEF Partial, Pending, PendingIn
      <4>3. \A s : LifecycleState(s)' = LifecycleState(s)
        BY <4>1 DEF LifecycleState
      <4> QED
        BY <1>1, <4>1, <4>2, <4>3 DEF PlanAllInv, ExactInv
    <3> QED
      BY <3>1, <3>2
  <2> QED
    BY <1>2, <1>4, <2>2, <2>3, <2>4, <2>5 DEF PlanAllInv
<1> QED
  BY <1>5, <1>6

-----------------------------------------------------------------------------
(* The reading *)

\* A step of a reading changes no file, and remembers what was unfinished.
LEMMA ReadingKeepsFiles ==
  ASSUME PlanAllInv, ReadStep, Track
  PROVE  /\ AllInv'
         /\ UNCHANGED <<sessions, bindings, abandoned, reconciled, evidence, expired>>
         /\ UNCHANGED <<Partial, Pending>>
         /\ changed' \in BOOLEAN
         /\ through' \subseteq Pending
         /\ reader' # "idle" => Pending \cup Partial \subseteq ever'
         /\ reader # "idle" /\ reader' # "idle" =>
              changed' = changed /\ through' = through /\ ever \subseteq ever'
<1>1. /\ AllInv' /\ UNCHANGED vars /\ UNCHANGED expired
  BY ToolsInvariant DEF PlanAllInv, PlanNext, ReadStep
<1>2. UNCHANGED <<sessions, bindings, abandoned, reconciled, evidence, expired, disk, files>>
  BY <1>1 DEF vars, probeVars, disk, files
<1>3. UNCHANGED <<Partial, Pending>>
  BY <1>2 DEF Partial, Pending, PendingIn
<1>4. reader # "idle" /\ reader' # "idle" =>
        changed' = changed /\ through' = through /\ ever \subseteq ever'
  <2> SUFFICES ASSUME reader # "idle", reader' # "idle"
               PROVE  changed' = changed /\ through' = through /\ ever \subseteq ever'
    OBVIOUS
  <2>1. /\ changed' = (changed \/ disk' # disk \/ files' # files \/ expired' # expired)
        /\ through' = through \cap Pending'
        /\ ever' = ever \cup Pending' \cup Partial'
    BY Tracked
  <2>2. through \subseteq Pending
    BY DEF PlanAllInv, ReadInv
  <2>3. changed' = changed
    BY <1>2, <2>1 DEF PlanAllInv, ReadingInv
  <2> QED
    BY <1>3, <2>1, <2>2, <2>3
<1>5. through' \subseteq Pending /\ (reader' # "idle" => Pending \cup Partial \subseteq ever')
  BY <1>3 DEF Track
<1>6. changed' \in BOOLEAN
  BY DEF Track
<1> QED
  BY <1>1, <1>2, <1>3, <1>4, <1>5, <1>6

\* What a step of a reading has to show, the files being what they were.
ReadGoal == ReadingInv' /\ ReadInv' /\ PlanInv' /\ ReportInv' /\ ExactInv'

\* A reading begins with the snapshot.
LEMMA ReadBegins ==
  ASSUME PlanAllInv, ReadStep, Track, NEW which \in {"plan", "history"}, Read(which)
  PROVE  ReadGoal
<1>1. /\ reader = "idle" /\ reader' \in {"scan", "evidence"} /\ resource' = which
      /\ reader' = "scan" <=> which = "plan"
      /\ UNCHANGED <<issues, known, listed, result>>
  BY DEF Read, At
<1>2. ReadingInv'
  BY <1>1, ReadingKeepsFiles DEF PlanAllInv, ReadingInv, Readers
<1> QED
  BY <1>1, <1>2, ReadingKeepsFiles DEF ReadGoal, ReadInv, PlanInv, ReportInv, ExactInv, Collecting

\* Partial workflows end a plan, or there are none.
LEMMA ScanFinds ==
  ASSUME PlanAllInv, ReadStep, Track, ScanPartial
  PROVE  ReadGoal
<1>1. /\ reader = "scan" /\ resource = "plan" /\ resource' = "plan"
      /\ issues' = Partial /\ UNCHANGED <<known, listed>>
      /\ reader' = IF Partial = {} THEN "evidence" ELSE "built"
      /\ result' = [s \in Partial |-> "recovery_required"]
  BY DEF ScanPartial, At, PlanAllInv, ReadingInv
<1>2. DOMAIN result' = Partial /\ \A s \in Partial : result'[s] = "recovery_required"
  BY <1>1
<1>3. ReadingInv'
  BY <1>1, <1>2, ReadingKeepsFiles DEF ReadingInv, Readers
<1> QED
  BY <1>1, <1>2, <1>3, ReadingKeepsFiles
     DEF ReadGoal, ReadInv, PlanInv, ReportInv, ExactInv, Collecting

\* The evidence it reads holds every session that ended as evidence before.
LEMMA EvidenceIsKnown ==
  ASSUME PlanAllInv, ReadStep, Track, LoadEvidence
  PROVE  ReadGoal
<1>1. /\ reader = "evidence" /\ reader' = "rescan" /\ known' = evidence
      /\ UNCHANGED <<resource, issues, listed, result>>
  BY DEF LoadEvidence, At
<1>2. ReadingInv'
  BY <1>1, ReadingKeepsFiles DEF PlanAllInv, ReadingInv, Readers, Collecting
<1>3. bindings \subseteq evidence \cup abandoned \cup Pending
  BY FilesFacts DEF PlanAllInv
<1> QED
  BY <1>1, <1>2, <1>3, ReadingKeepsFiles
     DEF ReadGoal, ReadInv, PlanInv, ReportInv, ExactInv, Collecting

\* A second scan stops a plan; a history reports what it finds.
LEMMA RescanFinds ==
  ASSUME PlanAllInv, ReadStep, Track, Rescan
  PROVE  ReadGoal
<1>1. /\ reader = "rescan" /\ issues' = Partial
      /\ reader' = IF resource = "plan" /\ Partial # {} THEN "failed" ELSE "list"
      /\ UNCHANGED <<resource, known, listed, result>>
  BY DEF Rescan, At
<1>2. ReadingInv'
  BY <1>1, ReadingKeepsFiles DEF PlanAllInv, ReadingInv, Readers, Collecting
<1> QED
  BY <1>1, <1>2, ReadingKeepsFiles
     DEF PlanAllInv, ReadGoal, ReadInv, PlanInv, ReportInv, ExactInv, Collecting

\* Every unfinished session is listed.
LEMMA ListFinds ==
  ASSUME PlanAllInv, ReadStep, Track, List
  PROVE  ReadGoal
<1>1. /\ reader = "list" /\ reader' = "look"
      /\ resource = "plan" => listed' = bindings
      /\ UNCHANGED <<resource, issues, known, result>>
  BY DEF List, At
<1>2. ReadingInv'
  BY <1>1, ReadingKeepsFiles DEF PlanAllInv, ReadingInv, Readers, Collecting
<1>3. DOMAIN result' = {} /\ Pending \subseteq bindings
  BY <1>1, FilesFacts DEF PlanAllInv, ReadingInv
<1> QED
  BY <1>1, <1>2, <1>3, ReadingKeepsFiles
     DEF PlanAllInv, ReadGoal, ReadInv, PlanInv, ReportInv, ExactInv, Collecting

\* What a reading ends with, or fails with.
LEMMA LookEnds ==
  ASSUME PlanAllInv, ReadStep, Track, LookFails \/ Build
  PROVE  ReadGoal
<1>1. /\ reader = "look" /\ reader' \in {"built", "failed"}
      /\ UNCHANGED <<resource, issues, known, listed, result>>
      /\ reader' = "failed" => \E s \in listed : Newer(s, StatusSeen(s)) \/ EndedTwice(s)
      /\ reader' = "built" => listed = {}
  BY DEF LookFails, Build, At
<1>2. known \cap abandoned = {}
  BY <1>1, FilesFacts DEF PlanAllInv, ReadInv, Collecting
<1>3. reader' = "failed" => resource = "plan"
  BY <1>1, <1>2 DEF Newer, EndedTwice
<1>4. ReadingInv'
  BY <1>1, <1>3, ReadingKeepsFiles DEF PlanAllInv, ReadingInv, Readers, Collecting
<1>5. ReadInv' /\ PlanInv' /\ ReportInv'
  BY <1>1, ReadingKeepsFiles DEF PlanAllInv, ReadInv, PlanInv, ReportInv, Collecting
<1>6. ExactInv'
  <2> SUFFICES ASSUME resource = "plan", ~ changed, reader' = "built"
               PROVE  /\ issues = Partial
                      /\ Partial = {}
                      /\ DOMAIN result = Pending
                      /\ \A s \in Pending : result[s] = LifecycleState(s)'
    BY <1>1, ReadingKeepsFiles DEF ExactInv, Collecting
  <2>1. issues = {} /\ Partial = {}
    BY <1>1 DEF PlanAllInv, ReadingInv, ExactInv
  <2>2. DOMAIN result = Pending
    BY <1>1, FilesFacts DEF PlanAllInv, ExactInv
  <2> QED
    BY <1>1, <2>1, <2>2, ReadingKeepsFiles DEF PlanAllInv, ExactInv, LifecycleState
<1> QED
  BY <1>4, <1>5, <1>6 DEF ReadGoal

\* The answer is given and forgotten.
LEMMA Delivered ==
  ASSUME PlanAllInv, ReadStep, Track, Deliver
  PROVE  ReadGoal
<1>1. /\ reader' = "idle" /\ resource' = "plan" /\ DOMAIN result' = {} /\ issues' = {}
      /\ through' = {}
  BY DEF Deliver, Track
<1> QED
  BY <1>1, ReadingKeepsFiles
     DEF ReadGoal, ReadingInv, Readers, ReadInv, PlanInv, ReportInv, ExactInv, Collecting

\* A session is reported with the status that was seen of it.
LEMMA LookAdds ==
  ASSUME NEW s \in listed, NEW status, DOMAIN result \cap listed = {},
         result' = [t \in DOMAIN result \cup (IF status = {} THEN {} ELSE {s}) |->
                      IF t = s THEN CHOOSE x \in status : TRUE ELSE result[t]]
  PROVE  /\ status = {} => DOMAIN result' = DOMAIN result
         /\ status # {} => DOMAIN result' = DOMAIN result \cup {s}
         /\ status # {} => result'[s] \in status
         /\ \A t \in DOMAIN result : result'[t] = result[t]
<1>1. s \notin DOMAIN result
  OBVIOUS
<1>2. status # {} => (CHOOSE x \in status : TRUE) \in status
  OBVIOUS
<1> QED
  BY <1>1, <1>2

\* What the history sees of a session is so, or was while it was read.
LEMMA HistorySees ==
  ASSUME PlanAllInv, reader = "look", NEW s, NEW x \in HistoryStatus(s)
  PROVE  \/ x = "completed" /\ s \in evidence
         \/ x = "abandoned" /\ s \in abandoned
         \/ x = "reconciled_partial" /\ s \in reconciled
         \/ x \in {"recovery_required", "expired", "active"} /\ s \in ever
<1>1. /\ known \subseteq evidence /\ bindings \subseteq known \cup abandoned \cup ever
      /\ issues \subseteq ever
  BY DEF PlanAllInv, ReadInv, Collecting
<1>2. CASE s \in issues
  BY <1>1, <1>2 DEF HistoryStatus
<1>3. CASE s \notin issues /\ s \notin bindings
  BY <1>3 DEF HistoryStatus
<1>4. CASE s \notin issues /\ s \in bindings
  <2>1. HistoryStatus(s) = IF s \in known THEN {"completed"}
                           ELSE IF s \in abandoned THEN {"abandoned"} ELSE {LifecycleState(s)}
    BY <1>4 DEF HistoryStatus
  <2> QED
    BY <1>1, <1>4, <2>1 DEF LifecycleState
<1> QED
  BY <1>2, <1>3, <1>4

\* Each session it looks at is reported as it is.
LEMMA LookReports ==
  ASSUME PlanAllInv, ReadStep, Track, Look
  PROVE  ReadGoal
<1>1. PICK s \in listed :
        /\ listed' = listed \ {s}
        /\ result' = [t \in DOMAIN result \cup (IF StatusSeen(s) = {} THEN {} ELSE {s}) |->
                        IF t = s THEN CHOOSE x \in StatusSeen(s) : TRUE ELSE result[t]]
  BY DEF Look
<1>2. reader = "look" /\ UNCHANGED <<reader, resource, plannedAt, issues, known>>
  BY DEF Look
<1> DEFINE status == StatusSeen(s)
<1>3. /\ status = {} => DOMAIN result' = DOMAIN result
      /\ status # {} => DOMAIN result' = DOMAIN result \cup {s}
      /\ status # {} => result'[s] \in status
      /\ \A t \in DOMAIN result : result'[t] = result[t]
  BY <1>1, <1>2, LookAdds DEF PlanAllInv, ReadingInv
<1>4. ReadingInv'
  BY <1>1, <1>2, <1>3, ReadingKeepsFiles DEF PlanAllInv, ReadingInv
<1>5. ReadInv'
  BY <1>2, ReadingKeepsFiles DEF PlanAllInv, ReadInv, Collecting
<1>6. PlanInv'
  <2> SUFFICES ASSUME resource = "plan"
               PROVE  /\ listed' \subseteq bindings
                      /\ through \subseteq listed' \cup DOMAIN result'
                      /\ DOMAIN result' \subseteq ever'
    BY <1>2, ReadingKeepsFiles DEF PlanInv
  <2>1. status = PendingStatus(s)
    BY DEF StatusSeen
  <2>2. /\ listed \subseteq bindings /\ through \subseteq listed \cup DOMAIN result
        /\ DOMAIN result \subseteq ever /\ known \subseteq evidence
        /\ bindings \subseteq known \cup abandoned \cup ever /\ through \subseteq Pending
    BY <1>2 DEF PlanAllInv, PlanInv, ReadInv, Collecting
  <2>3. status = {} => s \in known \cup abandoned
    BY <2>1 DEF PendingStatus
  <2>4. status # {} => s \in ever
    BY <1>1, <2>1, <2>2 DEF PendingStatus
  <2>5. s \in known \cup abandoned => s \notin through
    BY <2>2, FilesFacts DEF PlanAllInv
  <2>6. ever \subseteq ever'
    BY <1>2, ReadingKeepsFiles
  <2> HIDE DEF status
  <2> QED
    BY <1>1, <1>3, <2>2, <2>3, <2>4, <2>5, <2>6
<1>7. ReportInv'
  <2> SUFFICES ASSUME resource = "history", NEW t \in DOMAIN result'
               PROVE  \/ result'[t] = "completed" /\ t \in evidence
                      \/ result'[t] = "abandoned" /\ t \in abandoned
                      \/ result'[t] = "reconciled_partial" /\ t \in reconciled
                      \/ /\ result'[t] \in {"recovery_required", "expired", "active"}
                         /\ t \in ever'
    BY <1>2, ReadingKeepsFiles DEF ReportInv
  <2>1. ever \subseteq ever'
    BY <1>2, ReadingKeepsFiles
  <2>2. CASE t \in DOMAIN result
    BY <1>2, <1>3, <2>1, <2>2 DEF PlanAllInv, ReportInv
  <2>3. CASE t \notin DOMAIN result
    <3>1. t = s /\ result'[t] \in status
      BY <1>3, <2>3
    <3>2. status = HistoryStatus(s)
      BY DEF StatusSeen
    <3> QED
      BY <1>2, <2>1, <3>1, <3>2, HistorySees
  <2> QED
    BY <2>2, <2>3
<1>8. ExactInv'
  <2> SUFFICES ASSUME resource = "plan", ~ changed
               PROVE  /\ known = evidence /\ Partial = {}
                      /\ DOMAIN result' = (bindings \ listed') \ (evidence \cup abandoned)
                      /\ \A t \in DOMAIN result' : result'[t] = LifecycleState(t)
    BY <1>2, ReadingKeepsFiles DEF ExactInv, Collecting, LifecycleState
  <2>1. /\ known = evidence /\ Partial = {}
        /\ DOMAIN result = (bindings \ listed) \ (evidence \cup abandoned)
        /\ \A t \in DOMAIN result : result[t] = LifecycleState(t)
        /\ listed \subseteq bindings
    BY <1>2 DEF PlanAllInv, ExactInv, PlanInv, Collecting
  <2>2. status = IF s \in evidence \cup abandoned THEN {} ELSE {LifecycleState(s)}
    BY <2>1 DEF StatusSeen, PendingStatus
  <2>3. DOMAIN result' = (bindings \ listed') \ (evidence \cup abandoned)
    <3> HIDE DEF status
    <3> QED
      BY <1>1, <1>3, <2>1, <2>2
  <2>4. ASSUME NEW t \in DOMAIN result' PROVE result'[t] = LifecycleState(t)
    <3> HIDE DEF status
    <3> QED
      BY <1>3, <2>1, <2>2, <2>4
  <2> QED
    BY <2>1, <2>3, <2>4
<1> QED
  BY <1>4, <1>5, <1>6, <1>7, <1>8 DEF ReadGoal

\* Nothing is read at the start.
LEMMA PlanInitially == PlanInit => PlanAllInv
<1> SUFFICES ASSUME PlanInit PROVE PlanAllInv
  OBVIOUS
<1>1. AllInv
  BY TypeInitially, ClaimInitially, FilesInitially DEF PlanInit, AllInv
<1>2. DOMAIN <<>> = {}
  OBVIOUS
<1>3. ReadingInv
  BY <1>2 DEF PlanInit, ReadingInv, Readers
<1>4. ReadInv /\ PlanInv /\ ReportInv /\ ExactInv
  BY DEF PlanInit, ReadInv, PlanInv, ReportInv, ExactInv, Collecting
<1> QED
  BY <1>1, <1>3, <1>4 DEF PlanAllInv

\* The invariant of the tools and the readings together.
THEOREM ReadingInvariant == PlanSpec => []PlanAllInv
<1>1. PlanAllInv /\ [PlanNext]_planVars => PlanAllInv'
  <2> SUFFICES ASSUME PlanAllInv, [PlanNext]_planVars PROVE PlanAllInv'
    OBVIOUS
  <2>1. CASE PlanNext /\ (Tools \/ Expire)
    BY <2>1, ToolsKeepReading DEF PlanNext
  <2>2. CASE PlanNext /\ ReadStep
    <3>1. Track
      BY <2>2 DEF PlanNext
    <3>2. ReadGoal
      BY <2>2, <3>1, ReadBegins, ScanFinds, EvidenceIsKnown, RescanFinds, ListFinds,
         LookReports, LookEnds, Delivered DEF ReadStep
    <3> QED
      BY <2>2, <3>1, <3>2, ReadingKeepsFiles DEF ReadGoal, PlanAllInv
  <2>3. CASE UNCHANGED planVars
    <3>1. UNCHANGED <<vars, calls, expired, boundAt, reading, history>> /\ [Next]_vars
      BY <2>3 DEF planVars
    <3>2. AllInv'
      BY <3>1, TypeStep, ClaimStep, FilesStep DEF PlanAllInv, AllInv
    <3>3. UNCHANGED <<reader, resource, plannedAt, issues, known, listed, result,
                      changed, through, ever, expired>>
          /\ UNCHANGED <<sessions, bindings, abandoned, reconciled, evidence>>
      BY <3>1 DEF reading, history, vars, probeVars, disk, files
    <3>4. UNCHANGED <<Pending, Partial>>
      BY <3>3 DEF Pending, PendingIn, Partial
    <3> QED
      BY <3>2, <3>3, <3>4 DEF PlanAllInv, ReadingInv, ReadInv, PlanInv, ReportInv,
         ExactInv, LifecycleState
  <2> QED
    BY <2>1, <2>2, <2>3 DEF PlanNext
<1> QED
  BY <1>1, PlanInitially, PTL DEF PlanSpec

-----------------------------------------------------------------------------
(* Theorems *)

\* PlanIsHonoured: a plan that was read while nothing changed offers exactly
\* what the tools accept.
THEOREM PlanIsAlwaysHonoured == PlanSpec => []PlanIsHonoured
<1>1. ASSUME PlanAllInv PROVE PlanIsHonoured
  <2> SUFFICES ASSUME Plan, ~ changed
               PROVE  /\ \A s \in DOMAIN result : Accepts(<<Operation(result[s]), s>>)
                      /\ Begins = IF Partial # {} THEN {}
                                  ELSE Slots \ {Slot[s] : s \in Pending}
    BY DEF PlanIsHonoured, Offers
  <2>1. /\ issues = Partial
        /\ Partial # {} => DOMAIN result = Partial
                           /\ \A s \in Partial : result[s] = "recovery_required"
        /\ Partial = {} => DOMAIN result = Pending
                           /\ \A s \in Pending : result[s] = LifecycleState(s)
    BY <1>1 DEF PlanAllInv, ExactInv, Plan
  <2>2. Pending = bindings \ (evidence \cup abandoned)
    BY <1>1, FilesFacts DEF PlanAllInv
  <2>3. Begins = IF Partial # {} THEN {} ELSE Slots \ {Slot[s] : s \in Pending}
    BY <2>1 DEF Begins
  <2>4. ASSUME NEW s \in DOMAIN result PROVE Accepts(<<Operation(result[s]), s>>)
    <3>1. CASE Partial # {}
      <4>1. Operation(result[s]) = "reconcile" /\ s \in Partial
        BY <2>1, <2>4, <3>1 DEF Operation
      <4> QED
        BY <4>1 DEF Accepts
    <3>2. CASE Partial = {} /\ s \in expired
      <4>1. Operation(result[s]) = "abandon" /\ s \in Pending
        BY <2>1, <2>4, <3>2 DEF Operation, LifecycleState
      <4> QED
        BY <2>2, <4>1 DEF Accepts
    <3>3. CASE Partial = {} /\ s \notin expired
      <4>1. Operation(result[s]) = "finish" /\ s \in Pending
        BY <2>1, <2>4, <3>3 DEF Operation, LifecycleState
      <4> QED
        BY <2>2, <3>3, <4>1 DEF Accepts
    <3> QED
      BY <3>1, <3>2, <3>3
  <2> QED
    BY <2>3, <2>4
<1> QED
  BY <1>1, ReadingInvariant, PTL

\* PlanWasTrue: whatever runs at the same time, a plan leaves out no session that
\* was unfinished all the while and names none that never was.
THEOREM PlanWasAlwaysTrue == PlanSpec => []PlanWasTrue
<1>1. PlanAllInv => PlanWasTrue
  BY DEF PlanAllInv, PlanInv, Plan, PlanWasTrue
<1> QED
  BY <1>1, ReadingInvariant, PTL

\* HistoryIsTrue: the history can always be read, and its ends are facts.
THEOREM HistoryIsAlwaysTrue == PlanSpec => []HistoryIsTrue
<1>1. ASSUME PlanAllInv PROVE HistoryIsTrue
  <2>1. reader = "failed" => resource = "plan"
    BY <1>1 DEF PlanAllInv, ReadingInv
  <2>2. ASSUME History, NEW s \in DOMAIN result
        PROVE  CASE result[s] = "completed" -> s \in evidence
                 [] result[s] = "abandoned" -> s \in abandoned \ evidence
                 [] result[s] = "reconciled_partial" -> s \in reconciled
                 [] OTHER -> s \in ever
    <3>1. \/ result[s] = "completed" /\ s \in evidence
          \/ result[s] = "abandoned" /\ s \in abandoned
          \/ result[s] = "reconciled_partial" /\ s \in reconciled
          \/ result[s] \in {"recovery_required", "expired", "active"} /\ s \in ever
      BY <1>1, <2>2 DEF PlanAllInv, ReportInv, History
    <3>2. evidence \cap abandoned = {}
      BY <1>1, FilesFacts DEF PlanAllInv
    <3> QED
      BY <3>1, <3>2
  <2> QED
    BY <2>1, <2>2 DEF HistoryIsTrue
<1> QED
  BY <1>1, ReadingInvariant, PTL
=============================================================================
