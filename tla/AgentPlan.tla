------------------------------ MODULE AgentPlan ------------------------------
(***************************************************************************)
(* What an agent is told about the probe workflow while the tools of       *)
(* ProbeWorkflow run: the agent plan (agent_plan, agent_plan_recovery) and *)
(* the workflow history (probe_workflow_history), which the diagnosis      *)
(* server builds when their resource is read (diagnosis_mcp_server).       *)
(*                                                                         *)
(* A reader takes no claim and reads its files one after the other, so     *)
(* that the parts of a projection come from different instants.  The files *)
(* of one session are read in one step.                                    *)
(***************************************************************************)
EXTENDS ProbeWorkflow

CONSTANT MaxCalls  \* bound on calls of tools

VARIABLES
  calls,      \* calls so far
  expired,    \* sessions older than the maximum age
  boundAt,    \* diagnosis_revision in the binding of a session
  reader,     \* where the reading of a resource is
  resource,   \* "plan" or "history"
  plannedAt,  \* evidence_revision of the snapshot it read
  issues,     \* the partial workflows it found
  known,      \* the evidence it read
  listed,     \* sessions of the directory it has still to look at
  result,     \* the projection: a status for each session that it reports
  changed,    \* whether anything changed since the reading began (history)
  through,    \* sessions pending ever since (history)
  ever        \* sessions pending, or partial, at some time since (history)

reading == <<reader, resource, plannedAt, issues, known, listed, result>>
history == <<changed, through, ever>>
planVars == <<vars, calls, expired, boundAt, reading, history>>

Pending == PendingIn(evidence)

PlanInit ==
  /\ Init
  /\ calls = 0
  /\ expired = {}
  /\ boundAt = [s \in Sessions |-> 0]
  /\ reader = "idle" /\ resource = "plan"
  /\ plannedAt = 0 /\ issues = {} /\ known = {} /\ listed = {} /\ result = <<>>
  /\ changed = FALSE /\ through = {} /\ ever = {}

-----------------------------------------------------------------------------
(* The tools and the passing of time *)

\* begin reads the diagnosis together with the evidence; an expired session has
\* no second reading of its counter.
Tools ==
  /\ \E w \in Servers :
       /\ \/ calls < MaxCalls /\ CallTool(w) /\ calls' = calls + 1
          \/ (Step(w) \/ Crash(w)) /\ UNCHANGED calls
       /\ arg[w] \in expired => at[w] # "finish_decide" \/ at'[w] # "put_evidence"
       /\ boundAt' = IF at[w] = "begin_read" /\ at'[w] = "begin_scan"
                     THEN [boundAt EXCEPT ![arg[w]] = snapshot.revision] ELSE boundAt
  /\ UNCHANGED <<expired, reading>>

\* classify_probe_session_lifecycle: a session grows older than its maximum age.
Expire ==
  /\ \E s \in sessions \ expired : expired' = expired \cup {s}
  /\ UNCHANGED <<vars, calls, boundAt, reading>>

-----------------------------------------------------------------------------
(* The reading of a resource *)

At(from, to) == reader = from /\ reader' = to

\* The snapshot comes first, through the reader and its cache.
Read(which) ==
  /\ At("idle", IF which = "plan" THEN "scan" ELSE "evidence")
  /\ resource' = which
  /\ plannedAt' = snapshot.revision
  /\ UNCHANGED <<issues, known, listed, result>>

\* scan_partial_probe_workflows: what it finds gates the plan, and the sessions
\* are not looked at.
ScanPartial ==
  /\ At("scan", IF Partial = {} THEN "evidence" ELSE "built")
  /\ issues' = Partial
  /\ result' = [s \in Partial |-> "recovery_required"]
  /\ UNCHANGED <<resource, plannedAt, known, listed>>

LoadEvidence ==
  /\ At("evidence", "rescan")
  /\ known' = evidence
  /\ UNCHANGED <<resource, plannedAt, issues, listed, result>>

\* The discovery of sessions scans again and raises; the history reports.
Rescan ==
  /\ At("rescan", IF resource = "plan" /\ Partial # {} THEN "failed" ELSE "list")
  /\ issues' = Partial
  /\ UNCHANGED <<resource, plannedAt, known, listed, result>>

List ==
  /\ At("list", "look")
  /\ listed' = IF resource = "plan" THEN bindings ELSE issues \cup sessions \cup bindings
  /\ UNCHANGED <<resource, plannedAt, issues, known, result>>

LifecycleState(s) == IF s \in expired THEN "expired" ELSE "active"

\* Mutants of PendingStatus: a marker, or an expired session, is not looked at.
UnmarkedStatus(s) == IF s \in known THEN {} ELSE {LifecycleState(s)}

ActiveStatus(s) ==
  IF s \in known \cup abandoned \cup expired THEN {} ELSE {"active"}

\* discover_pending_probe_sessions, for a binding whose baseline is there.
PendingStatus(s) == IF s \in known \cup abandoned THEN {} ELSE {LifecycleState(s)}

\* build_probe_workflow_history, for one session.
HistoryStatus(s) ==
  CASE s \in issues -> {"recovery_required"}
    [] s \notin issues /\ s \notin bindings ->
         IF s \in reconciled THEN {"reconciled_partial"} ELSE {}
    [] OTHER -> IF s \in known THEN {"completed"}
                ELSE IF s \in abandoned THEN {"abandoned"} ELSE {LifecycleState(s)}

\* The planner refuses a session begun from a newer diagnosis than it plans for.
Newer(s, status) == resource = "plan" /\ status # {} /\ boundAt[s] > plannedAt

\* The history refuses a session that ended twice.
EndedTwice(s) == resource = "history" /\ s \in known \cap abandoned

StatusSeen(s) == IF resource = "plan" THEN PendingStatus(s) ELSE HistoryStatus(s)

Look ==
  /\ \E s \in listed :
       LET status == StatusSeen(s)
       IN /\ ~ Newer(s, status) /\ ~ EndedTwice(s)
          /\ listed' = listed \ {s}
          /\ result' = [t \in DOMAIN result \cup (IF status = {} THEN {} ELSE {s}) |->
                          IF t = s THEN CHOOSE x \in status : TRUE ELSE result[t]]
  /\ reader = "look" /\ UNCHANGED <<reader, resource, plannedAt, issues, known>>

LookFails ==
  /\ At("look", "failed")
  /\ \E s \in listed : Newer(s, StatusSeen(s)) \/ EndedTwice(s)
  /\ UNCHANGED <<resource, plannedAt, issues, known, listed, result>>

Build ==
  /\ At("look", "built")
  /\ listed = {}
  /\ UNCHANGED <<resource, plannedAt, issues, known, listed, result>>

\* The agent has its answer, or an internal error.
Deliver ==
  /\ reader \in {"built", "failed"}
  /\ reader' = "idle" /\ resource' = "plan"
  /\ plannedAt' = 0 /\ issues' = {} /\ known' = {} /\ listed' = {} /\ result' = <<>>

ReadStep ==
  /\ \/ Read("plan") \/ Read("history")
     \/ ScanPartial \/ LoadEvidence \/ Rescan \/ List
     \/ Look \/ LookFails \/ Build \/ Deliver
  /\ UNCHANGED <<vars, calls, expired, boundAt>>

-----------------------------------------------------------------------------
Track ==
  IF reader' = "idle" THEN changed' = FALSE /\ through' = {} /\ ever' = {}
  ELSE LET pending == Pending'
           open == pending \cup Partial'
       IN IF reader = "idle" THEN changed' = FALSE /\ through' = pending /\ ever' = open
          ELSE /\ changed' = (changed \/ disk' # disk \/ files' # files \/ expired' # expired)
               /\ through' = through \cap pending
               /\ ever' = ever \cup open

PlanNext == (Tools \/ Expire \/ ReadStep) /\ Track

PlanSpec == PlanInit /\ [][PlanNext]_planVars

-----------------------------------------------------------------------------
(* The plan: the sessions it reports, and a begin for every target and scope *)
(* without one *)

Plan == reader = "built" /\ resource = "plan"
History == reader = "built" /\ resource = "history"

\* _recovery_step, _session_step: the operation for a session.
Operation(status) ==
  CASE status = "recovery_required" -> "reconcile"
    [] status = "expired" -> "abandon"
    [] status = "active" -> "finish"

Offers == { <<Operation(result[s]), s>> : s \in DOMAIN result }

\* _recommended_step, for the targets and scopes that no session is listed for.
Begins == IF issues # {} THEN {} ELSE Slots \ {Slot[s] : s \in DOMAIN result}

\* What the controller checks when the operation is called.
Accepts(offer) ==
  LET s == offer[2]
  IN CASE offer[1] = "reconcile" -> s \in Partial
       [] offer[1] = "abandon" -> s \in bindings \ evidence
       [] offer[1] = "finish" -> s \in bindings \ (abandoned \cup expired)

\* A plan that was read while nothing changed offers exactly what the tools
\* accept: every operation it names would pass the checks of its tool, and it
\* offers to begin a probe just where no unfinished one is in the way.
PlanIsHonoured ==
  Plan /\ ~ changed =>
    /\ \A offer \in Offers : Accepts(offer)
    /\ Begins = IF Partial # {} THEN {} ELSE Slots \ {Slot[s] : s \in Pending}

\* Whatever runs at the same time, a plan never leaves out a session that was
\* unfinished all the while it was read, so it offers no second begin beside it,
\* and it names none that was never unfinished.
PlanWasTrue ==
  Plan => /\ issues = {} => through \subseteq DOMAIN result
          /\ DOMAIN result \subseteq ever

\* The history of an incident can always be read, its ends are facts and the
\* sessions it reports as unfinished were so while it was read.
HistoryIsTrue ==
  /\ reader = "failed" => resource = "plan"
  /\ History => \A s \in DOMAIN result :
       CASE result[s] = "completed" -> s \in evidence
         [] result[s] = "abandoned" -> s \in abandoned \ evidence
         [] result[s] = "reconciled_partial" -> s \in reconciled
         [] OTHER -> s \in ever

\* "This prevents the lower-level fail-closed exception from turning into an MCP
\* internal error" (RFC 0026): reading the plan never fails.
PlanIsAvailable == reader # "failed"
=============================================================================
