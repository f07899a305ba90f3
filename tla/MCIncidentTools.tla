-------------------------- MODULE MCIncidentTools --------------------------
(* One routed writer and one probe server on one incident. *)
EXTENDS IncidentTools, TLC

CONSTANTS w1, d1, s1, i0, i1, near, tmp

Routed == w1 :> "routed"
LockDirectory == w1 :> tmp
OneSlot == s1 :> near
=============================================================================
