----------------------------- MODULE BoundedLoop -----------------------------
(***************************************************************************)
(* What the bounded autonomous loops promise: they ask one question after  *)
(* the other, none of them twice and no more than Budget of them, report   *)
(* an answer only for a question they asked, and once started they come to *)
(* an end.                                                                 *)
(***************************************************************************)
EXTENDS Naturals, FiniteSets

CONSTANTS
  Questions,  \* what can be asked of a provider
  Budget      \* how many questions one run may ask

VARIABLES
  asked,      \* the questions asked so far
  answered,   \* how many of them the run has a step for
  phase       \* "idle", "running" or "ended"

loopVars == <<asked, answered, phase>>

LoopInit == asked = {} /\ answered = 0 /\ phase = "idle"

Start == phase = "idle" /\ phase' = "running" /\ UNCHANGED <<asked, answered>>

\* The question is answered, or it ends the run.
Ask ==
  /\ phase = "running"
  /\ Cardinality(asked) < Budget
  /\ \E q \in Questions \ asked : asked' = asked \cup {q}
  /\ \/ answered' = answered + 1 /\ UNCHANGED phase
     \/ phase' = "ended" /\ UNCHANGED answered

End == phase = "running" /\ phase' = "ended" /\ UNCHANGED <<asked, answered>>

LoopNext == Start \/ Ask \/ End

LoopSafety == LoopInit /\ [][LoopNext]_loopVars

LoopSpec == LoopSafety /\ WF_loopVars(Ask \/ End)
=============================================================================
