--------------------------- MODULE IncidentTools ---------------------------
(***************************************************************************)
(* The evidence writers and the probe tools on the files of one incident.  *)
(* They share the evidence and the diagnosis and nothing else: the writers *)
(* commit through a journal and recover it, the probe tools replace the    *)
(* two files directly, and the claim files of the two have different       *)
(* purposes and directories.                                               *)
(*                                                                         *)
(* Calls are made in turn here: no two overlap, of either kind.            *)
(***************************************************************************)
EXTENDS IncidentFiles

CONSTANTS Writers, Kind, ClaimDirectory, Produced, Servers, Sessions, Slots, Slot

VARIABLES locked, pc, asked, seen, base, doc, acked,
          sessions, bindings, abandoned, reconciled, recorded,
          at, op, arg, held, old, shown, answered

Tool == INSTANCE EvidenceWriters WITH MayOverlap <- {}
Probe == INSTANCE ProbeWorkflow

toolVars == <<locked, pc, asked, seen, base, doc, acked>>
probeVars == <<sessions, bindings, abandoned, reconciled, recorded,
               at, op, arg, held, old, shown, answered>>
vars == <<files, toolVars, probeVars>>

Init == Tool!Init /\ Probe!ProbeInit

ToolStep ==
  /\ \A w \in Servers : at[w] = "idle"
  /\ Tool!Next
  /\ UNCHANGED probeVars

ProbeStep ==
  /\ \A w \in Writers : pc[w] = "idle"
  /\ Probe!Next
  /\ UNCHANGED toolVars

Next == ToolStep \/ ProbeStep

Spec == Init /\ [][Next]_vars

\* Once finish has answered, its evidence instance stays persisted: a retry
\* finds it.
AnsweredFinishIsKept == answered \subseteq evidence
=============================================================================
