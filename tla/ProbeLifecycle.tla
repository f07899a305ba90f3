--------------------------- MODULE ProbeLifecycle ---------------------------
(***************************************************************************)
(* What the probe tools promise about the sessions of one incident: a      *)
(* session is begun once, at most one session of a target and scope is     *)
(* unfinished, and a session ends once, either completed or abandoned.     *)
(* There are no files, claims, processes or crashes here.                  *)
(***************************************************************************)
CONSTANTS
  Sessions,   \* probe sessions
  Slots,      \* pairs of a target and an exact scope
  Slot        \* the pair each session belongs to

VARIABLE status

LifecycleInit == status = [s \in Sessions |-> "absent"]

BeginSession(s) ==
  /\ status[s] = "absent"
  /\ \A t \in Sessions : Slot[t] = Slot[s] => status[t] # "pending"
  /\ status' = [status EXCEPT ![s] = "pending"]

EndSession(s, outcome) ==
  /\ status[s] = "pending"
  /\ status' = [status EXCEPT ![s] = outcome]

LifecycleNext ==
  \E s \in Sessions :
    BeginSession(s) \/ EndSession(s, "completed") \/ EndSession(s, "abandoned")

LifecycleSpec == LifecycleInit /\ [][LifecycleNext]_status
=============================================================================
