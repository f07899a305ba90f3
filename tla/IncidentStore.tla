--------------------------- MODULE IncidentStore ---------------------------
(***************************************************************************)
(* What the evidence writers promise together: the incident is one value,  *)
(* a revision and the evidence behind it, and every mutation advances the  *)
(* revision by exactly one while adding evidence and dropping none.  There *)
(* are no files, claims, crashes or recovery here.                         *)
(***************************************************************************)
EXTENDS Naturals

CONSTANTS Instances, SeedEvidence

VARIABLES revision, instances

StoreInit ==
  /\ revision = 1
  /\ instances = SeedEvidence

Publish ==
  /\ revision' = revision + 1
  /\ \E added \in SUBSET Instances :
       /\ ~ (added \subseteq instances)
       /\ instances' = instances \cup added

StoreSpec == StoreInit /\ [][Publish]_<<revision, instances>>
=============================================================================
