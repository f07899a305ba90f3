--------------------------- MODULE IncidentFiles ---------------------------
(***************************************************************************)
(* The three files every mutation of one incident goes through             *)
(* (scripts/incident_state_commit.py):                                     *)
(*                                                                         *)
(*   evidence  runtime-evidence.json, as the set of its instances;         *)
(*   snapshot  diagnosis.json, as its evidence_revision and the instances  *)
(*             it was computed from;                                       *)
(*   commit    diagnosis.json.commit.json, the write-ahead journal, or     *)
(*             NoCommit when the file does not exist.                      *)
(*                                                                         *)
(* Each file is replaced whole (temporary file, fsync, os.replace, fsync   *)
(* of the directory), so a step writes one file completely or not at all,  *)
(* and a crash keeps what was written.                                     *)
(***************************************************************************)
EXTENDS Naturals

CONSTANTS
  Instances,        \* canonical runtime-evidence instances
  SeedEvidence,     \* the instances of the evidence the incident starts with
  NoCommit          \* "there is no journal file"

Snapshots == [revision : Nat, instances : SUBSET Instances]

\* A journal: the revision it starts from and the two complete documents.
Commits == [from : Nat, evidence : SUBSET Instances, snapshot : Snapshots]

ASSUME SeedAssumption == SeedEvidence \subseteq Instances
ASSUME NoCommitAssumption == NoCommit \notin Commits

VARIABLES evidence, snapshot, commit

files == <<evidence, snapshot, commit>>

FilesTypeOK ==
  /\ evidence \in SUBSET Instances
  /\ snapshot \in Snapshots
  /\ commit \in Commits \cup {NoCommit}

\* A diagnosis is rebuilt from the whole evidence document.
Diagnosis(revision, instances) ==
  [revision |-> revision, instances |-> instances]

FilesInit ==
  /\ evidence = SeedEvidence
  /\ snapshot = Diagnosis(1, SeedEvidence)
  /\ commit = NoCommit

\* The journal that takes revision r to r + 1 with the composed evidence.
PrepareCommit(r, composed) ==
  [from |-> r, evidence |-> composed, snapshot |-> Diagnosis(r + 1, composed)]

WriteEvidence(instances) ==
  /\ evidence' = instances
  /\ UNCHANGED <<snapshot, commit>>

WriteSnapshot(document) ==
  /\ snapshot' = document
  /\ UNCHANGED <<evidence, commit>>

WriteCommit(document) ==
  /\ commit' = document
  /\ UNCHANGED <<evidence, snapshot>>

\* Removing the journal; a file that is already gone is not an error.
ClearCommit ==
  /\ commit' = NoCommit
  /\ UNCHANGED <<evidence, snapshot>>

-----------------------------------------------------------------------------
(***************************************************************************)
(* What the files stand for: a durable journal is the commit point, so     *)
(* while it exists its documents are the state of the incident.            *)
(***************************************************************************)
StateRevision ==
  IF commit = NoCommit THEN snapshot.revision ELSE commit.snapshot.revision

StateInstances ==
  IF commit = NoCommit THEN evidence ELSE commit.evidence
=============================================================================
